--------------------------- MODULE AgentJobProofs ----------------------------
(* What holds of AgentJob for any set of calls, any keys and any retry policy. *)
EXTENDS AgentJob, TLAPS

Slots == [Activities -> [AttemptIds -> Attempt]]

\* Every activity has a first attempt.
LEMMA FirstAttempt ==
    1 \in AttemptIds /\ \A a \in Activities : MaxAttempts[a] \in Nat \ {0}
<1>1. \A a \in Activities : MaxAttempts[a] \in Nat \ {0}
  BY AttemptAssumption
<1>2. 1 \in 1 .. MaxAttempts["prepare"]
  BY <1>1 DEF Activities
<1>3. QED
  BY <1>1, <1>2, AttemptAssumption DEF Activities

(* Scheduling the next activity keeps the workflow and its attempts typed. *)
LEMMA EnterType ==
    ASSUME TypeOK, NEW j \in Jobs, NEW slots \in Slots, NEW w \in Workflow,
           NEW next \in Activities \cup {"closed"}, Enter(j, slots, w, next)
    PROVE  wf' \in [Jobs -> Workflow] /\ att' \in [Jobs -> Slots]
<1>1. [w EXCEPT !.phase = next, !.n = 1] \in Workflow
  BY FirstAttempt DEF Workflow, Phases
<1>2. ASSUME next # "closed"
      PROVE  [slots EXCEPT ![next][1] = "scheduled"] \in Slots
  BY <1>2, FirstAttempt DEF Slots, Attempt
<1>3. QED
  BY <1>1, <1>2 DEF Enter, TypeOK, Slots

\* Filling one attempt's slot leaves a table of attempts.
LEMMA SlotType ==
    ASSUME NEW slots \in Slots, NEW a \in Activities, NEW n \in AttemptIds, NEW s \in Attempt
    PROVE  [slots EXCEPT ![a][n] = s] \in Slots
BY DEF Slots

\* A report that reaches the workflow keeps the types.
LEMMA ReportType ==
    ASSUME TypeOK, NEW j \in Jobs, NEW a \in Activities, NEW n \in AttemptIds,
           NEW w \in Workflow, NEW next \in Activities \cup {"closed"},
           Report(j, a, n, w, next)
    PROVE  wf' \in [Jobs -> Workflow] /\ att' \in [Jobs -> Slots]
<1> DEFINE slots == [att[j] EXCEPT ![a][n] = "done"]
<1>1. slots \in Slots
  BY SlotType DEF TypeOK, Slots, Attempt
<1>2. CASE Current(j, a, n)
  <2>1. Enter(j, slots, w, next)
    BY <1>2 DEF Report
  <2>2. QED
    BY <1>1, <2>1, EnterType
<1>3. CASE ~Current(j, a, n)
  BY <1>1, <1>3 DEF Report, TypeOK, Slots
<1>4. QED
  BY <1>2, <1>3

\* One step of a running attempt keeps the types.
LEMMA StepType ==
    ASSUME TypeOK, NEW j \in Jobs, NEW a \in Activities, NEW n \in AttemptIds,
           NEW from, NEW to \in Attempt, Step(j, a, n, from, to)
    PROVE  att' \in [Jobs -> Slots]
BY DEF Step, TypeOK, Slots

(* The ledger's conditional updates keep a row a row. *)
LEMMA RowType ==
    ASSUME NEW r \in Rows
    PROVE  /\ MarkRunning(r) \in Rows
           /\ Cancel(r) \in Rows
           /\ \A s \in Outcomes : Settle(r, s, TRUE) \in Rows /\ Settle(r, s, FALSE) \in Rows
<1>1. MarkRunning(r) \in Rows
  <2>1. r.attempts + 1 \in Nat /\ "running" \in Statuses
    BY DEF Rows, Statuses, LiveStatuses
  <2>2. [r EXCEPT !.status = "running", !.attempts = r.attempts + 1] \in Rows
    BY <2>1 DEF Rows
  <2>3. QED
    BY <2>2 DEF MarkRunning
<1>2. Cancel(r) \in Rows
  BY DEF Rows, Live, Statuses, LiveStatuses, Terminal, Cancel
<1>3. ASSUME NEW s \in Outcomes
      PROVE  Settle(r, s, TRUE) \in Rows /\ Settle(r, s, FALSE) \in Rows
  BY DEF Rows, Live, Statuses, LiveStatuses, Terminal, Outcomes, Settle
<1>4. QED
  BY <1>1, <1>2, <1>3

------------------------------------------------------------------------------
(* The inductive invariant, as a predicate of one job's row r, workflow w,     *)
(* attempts s, announcements t and outputs o.  Its core: an attempt that holds *)
(* a won transition ("settled", "notified") exists at most once, agrees with   *)
(* the row, and has not published yet.                                         *)
Early  == {"none", "prepare", "generate"}
Holding == {"settled", "notified"}

JobInv(r, w, s, t, o) ==
    /\ w.phase = "finalize" => w.out # "none"
    /\ \A n \in AttemptIds :
         s["finalize"][n] # "idle" => w.out # "none" /\ w.phase \notin Early
    /\ \A n \in AttemptIds :
         s["finalize"][n] \in Holding =>
            /\ r.status = w.out
            /\ o = 0
            /\ \A m \in AttemptIds : s["finalize"][m] \in Holding => m = n
    /\ \A n \in AttemptIds : s["finalize"][n] = "notified" => w.out \in t
    /\ \A n \in AttemptIds : s["fail"][n] = "settled" => r.status = "failed"
    /\ t \cap Terminal \subseteq {r.status}
    /\ o <= 1
    /\ o > 0 => r.status = "completed"

Inv == TypeOK /\ \A j \in Jobs : JobInv(row[j], wf[j], att[j], told[j], outputs[j])

(* While a row is live nothing was won, announced as final or published, so    *)
(* the row may move anywhere.                                                  *)
LEMMA LiveRowMoves ==
    ASSUME NEW r \in Rows, NEW w \in Workflow, NEW s \in Slots, NEW t \in SUBSET Statuses,
           NEW o \in Nat, JobInv(r, w, s, t, o), Live(r), NEW q \in Rows
    PROVE  /\ JobInv(q, w, s, t, o)
           /\ o = 0
           /\ t \cap Terminal = {}
           /\ \A n \in AttemptIds : s["finalize"][n] \notin Holding
<1>1. r.status \notin Terminal /\ r.status \notin Outcomes
  BY DEF Live, LiveStatuses, Terminal, Outcomes
<1>2. \A n \in AttemptIds : s["finalize"][n] \notin Holding
  BY <1>1 DEF JobInv, Holding, Workflow, Outcomes, Slots, Attempt
<1>3. \A n \in AttemptIds : s["fail"][n] # "settled"
  BY <1>1 DEF JobInv, Terminal
<1>4. o = 0
  BY <1>1 DEF JobInv, Terminal
<1>5. t \cap Terminal = {}
  BY <1>1 DEF JobInv
<1>6. QED
  BY <1>2, <1>3, <1>4, <1>5 DEF JobInv

(* An attempt may go anywhere but into a won transition; a finalize attempt    *)
(* exists only once generate returned.                                         *)
LEMMA SlotMoves ==
    ASSUME NEW r \in Rows, NEW w \in Workflow, NEW s \in Slots, NEW t \in SUBSET Statuses,
           NEW o \in Nat, JobInv(r, w, s, t, o),
           NEW a \in Activities, NEW n \in AttemptIds, NEW v \in Attempt, v \notin Holding,
           a = "finalize" => w.out # "none" /\ w.phase \notin Early
    PROVE  JobInv(r, w, [s EXCEPT ![a][n] = v], t, o)
<1> DEFINE z == [s EXCEPT ![a][n] = v]
<1>1. \A b \in Activities, m \in AttemptIds :
        z[b][m] = IF b = a /\ m = n THEN v ELSE s[b][m]
  BY DEF Slots
<1>2. {"finalize", "fail"} \subseteq Activities
  BY DEF Activities
<1>3. \A m \in AttemptIds : z["finalize"][m] # "idle" => w.out # "none" /\ w.phase \notin Early
  BY <1>1, <1>2 DEF JobInv
<1>4. \A m \in AttemptIds : z["finalize"][m] \in Holding => s["finalize"][m] \in Holding
  BY <1>1, <1>2
<1>5. /\ \A m \in AttemptIds : z["fail"][m] = "settled" => s["fail"][m] = "settled"
      /\ \A m \in AttemptIds : z["finalize"][m] = "notified" => s["finalize"][m] = "notified"
  BY <1>1, <1>2 DEF Holding
<1> HIDE DEF z
<1>6. JobInv(r, w, z, t, o)
  BY <1>3, <1>4, <1>5 DEF JobInv
<1>7. QED
  BY <1>6 DEF z

(* The workflow moves on, to anything but finalize, without a new outcome. *)
LEMMA EnterMoves ==
    ASSUME NEW r \in Rows, NEW w \in Workflow, NEW s \in Slots, NEW t \in SUBSET Statuses,
           NEW o \in Nat, JobInv(r, w, s, t, o), NEW v \in Workflow, v.out = w.out,
           NEW next \in Activities \cup {"closed"}, next # "finalize",
           next \in Early => w.phase \in Early
    PROVE  JobInv(r, [v EXCEPT !.phase = next, !.n = 1],
                  IF next = "closed" THEN s ELSE [s EXCEPT ![next][1] = "scheduled"], t, o)
<1> DEFINE u == [v EXCEPT !.phase = next, !.n = 1]
<1>1. u.phase = next /\ u.out = w.out
  BY DEF Workflow
<1>2. JobInv(r, u, s, t, o)
  BY <1>1 DEF JobInv
<1>3. CASE next = "closed"
  BY <1>2, <1>3
<1>4. CASE next # "closed"
  <2>1. u \in Workflow
    BY FirstAttempt DEF Workflow, Phases
  <2>2. "scheduled" \in Attempt /\ "scheduled" \notin Holding
    BY DEF Attempt, Holding
  <2>3. QED
    BY <1>2, <1>4, <2>1, <2>2, FirstAttempt, SlotMoves
<1>5. QED
  BY <1>3, <1>4

(* What the report of an attempt does to its job and to the others, when the   *)
(* job's invariant holds with the attempt marked as done.                      *)
LEMMA DoneMoves ==
    ASSUME TypeOK, NEW j \in Jobs, NEW a \in Activities, NEW n \in AttemptIds,
           NEW v \in Workflow, v.out = wf[j].out,
           NEW next \in Activities \cup {"closed"}, next # "finalize",
           next \in Early => a \in Early,
           NEW r \in Rows, NEW t \in SUBSET Statuses, NEW o \in Nat,
           JobInv(r, wf[j], [att[j] EXCEPT ![a][n] = "done"], t, o),
           Report(j, a, n, v, next)
    PROVE  /\ JobInv(r, wf'[j], att'[j], t, o)
           /\ \A k \in Jobs \ {j} : wf'[k] = wf[k] /\ att'[k] = att[k]
<1> DEFINE slots == [att[j] EXCEPT ![a][n] = "done"]
<1>1. slots \in Slots /\ wf[j] \in Workflow
  BY SlotType DEF TypeOK, Slots, Attempt
<1>2. CASE Current(j, a, n)
  <2>1. Enter(j, slots, v, next)
    BY <1>2 DEF Report
  <2>2. next \in Early => wf[j].phase \in Early
    BY <1>2 DEF Current
  <2>3. JobInv(r, [v EXCEPT !.phase = next, !.n = 1],
               IF next = "closed" THEN slots ELSE [slots EXCEPT ![next][1] = "scheduled"], t, o)
    BY <1>1, <2>2, EnterMoves
  <2>4. /\ wf'[j] = [v EXCEPT !.phase = next, !.n = 1]
        /\ att'[j] = IF next = "closed" THEN slots ELSE [slots EXCEPT ![next][1] = "scheduled"]
        /\ \A k \in Jobs \ {j} : wf'[k] = wf[k] /\ att'[k] = att[k]
    BY <2>1 DEF Enter, TypeOK
  <2>5. QED
    BY <2>3, <2>4
<1>3. CASE ~Current(j, a, n)
  BY <1>3 DEF Report, TypeOK
<1>4. QED
  BY <1>2, <1>3

(* The same from the invariant as it was before the report. *)
LEMMA ReportMoves ==
    ASSUME TypeOK, NEW j \in Jobs, NEW a \in Activities, NEW n \in AttemptIds,
           NEW v \in Workflow, v.out = wf[j].out,
           NEW next \in Activities \cup {"closed"}, next # "finalize",
           next \in Early => a \in Early,
           NEW r \in Rows, NEW t \in SUBSET Statuses, NEW o \in Nat,
           JobInv(r, wf[j], att[j], t, o),
           att[j][a][n] # "idle",
           Report(j, a, n, v, next)
    PROVE  /\ JobInv(r, wf'[j], att'[j], t, o)
           /\ \A k \in Jobs \ {j} : wf'[k] = wf[k] /\ att'[k] = att[k]
<1>1. att[j] \in Slots /\ wf[j] \in Workflow
  BY DEF TypeOK, Slots
<1>2. "done" \in Attempt /\ "done" \notin Holding
  BY DEF Attempt, Holding
<1>3. a = "finalize" => wf[j].out # "none" /\ wf[j].phase \notin Early
  BY DEF JobInv
<1>4. JobInv(r, wf[j], [att[j] EXCEPT ![a][n] = "done"], t, o)
  BY <1>1, <1>2, <1>3, SlotMoves
<1>5. QED
  BY <1>4, DoneMoves

------------------------------------------------------------------------------
\* The initial states satisfy the invariant.
LEMMA InitInv == Init => Inv
<1> SUFFICES ASSUME Init PROVE Inv
  OBVIOUS
<1>1. TypeOK
  <2>1. NoRow \in Rows
    BY DEF NoRow, Rows, Statuses
  <2>2. row \in [Jobs -> Rows]
    BY <2>1 DEF Init
  <2>3. wf \in [Jobs -> Workflow]
    BY FirstAttempt DEF Init, Workflow, Phases
  <2>4. att \in [Jobs -> [Activities -> [AttemptIds -> Attempt]]]
    BY DEF Init, Attempt
  <2>5. QED
    BY <2>2, <2>3, <2>4 DEF Init, TypeOK
<1>2. ASSUME NEW j \in Jobs
      PROVE  JobInv(row[j], wf[j], att[j], told[j], outputs[j])
  BY DEF Init, JobInv, Holding, Activities
<1>3. QED
  BY <1>1, <1>2 DEF Inv

(* A call that is answered stays a call. *)
LEMMA AnswerType ==
    ASSUME TypeOK, NEW r \in Requests, req' = [req EXCEPT ![r].pc = "answered"]
    PROVE  req' \in [Requests -> [pc : {"new", "claimed", "answered", "conflict", "lost"},
                                  job : Jobs \cup {NoJob}]]
<1> DEFINE Calls == [pc : {"new", "claimed", "answered", "conflict", "lost"}, job : Jobs \cup {NoJob}]
<1>1. req \in [Requests -> Calls]
  BY DEF TypeOK
<1>2. [req[r] EXCEPT !.pc = "answered"] \in Calls
  BY <1>1
<1> HIDE DEF Calls
<1>3. req' \in [Requests -> Calls]
  BY <1>1, <1>2
<1>4. QED
  BY <1>3 DEF Calls

\* A cancel that returns keeps the table of cancels.
LEMMA DoneType ==
    ASSUME TypeOK, NEW c \in Cancels, can' = [can EXCEPT ![c].pc = "done"]
    PROVE  can' \in [Cancels -> [pc : {"new", "dispatched", "done"}, job : Jobs \cup {NoJob}]]
BY DEF TypeOK

(* Intake and cancel calls: they move rows only while these are live, and the  *)
(* workflow only into prepare or into a requested cancellation.                *)
LEMMA ApiInv == Inv /\ (Intake \/ CancelApi) => Inv'
<1> SUFFICES ASSUME Inv, Intake \/ CancelApi PROVE Inv'
  OBVIOUS
<1> USE DEF Jobs
<1>0. /\ TypeOK
      /\ \A k \in Jobs : JobInv(row[k], wf[k], att[k], told[k], outputs[k])
      /\ \A k \in Jobs : /\ row[k] \in Rows /\ wf[k] \in Workflow /\ att[k] \in Slots
                         /\ told[k] \in SUBSET Statuses /\ outputs[k] \in Nat
  BY DEF Inv, TypeOK, Slots
<1>1. ASSUME NEW r \in Requests, ClaimNew(r) PROVE Inv'
  <2>1. Pending \in Rows
    BY DEF Pending, NoRow, Rows, Statuses, LiveStatuses
  <2>2. TypeOK'
    BY <1>0, <1>1, <2>1 DEF ClaimNew, TypeOK
  <2>3. JobInv(Pending, wf[r], att[r], told[r], outputs[r])
    BY <1>0, <1>1 DEF ClaimNew, JobInv, Workflow, Outcomes, Holding, Terminal
  <2>4. QED
    BY <1>0, <1>1, <2>2, <2>3 DEF ClaimNew, Inv, TypeOK
<1>2. ASSUME NEW r \in Requests, ClaimReplay(r) \/ IntakeLost(r) PROVE Inv'
  <2> DEFINE Calls == [pc : {"new", "claimed", "answered", "conflict", "lost"},
                       job : Jobs \cup {NoJob}]
  <2>1. CASE IntakeLost(r)
    BY <1>0, <1>2, <2>1 DEF IntakeLost, Inv, TypeOK
  <2>2. CASE ClaimReplay(r)
    <3>1. PICK j \in Jobs : req' = [req EXCEPT ![r] =
                   IF InputHash[j] # InputHash[r] THEN [pc |-> "conflict", job |-> NoJob]
                   ELSE IF row[j].status = "pending" THEN [pc |-> "claimed", job |-> j]
                   ELSE [pc |-> "answered", job |-> j]]
      BY <2>2 DEF ClaimReplay, KeyHolders
    <3>2. /\ [pc |-> "conflict", job |-> NoJob] \in Calls
          /\ [pc |-> "claimed", job |-> j] \in Calls
          /\ [pc |-> "answered", job |-> j] \in Calls
      OBVIOUS
    <3>3. req' \in [Requests -> Calls]
      BY <1>0, <3>1, <3>2 DEF TypeOK
    <3>4. QED
      BY <1>0, <2>2, <3>3 DEF ClaimReplay, Inv, TypeOK
  <2>3. QED
    BY <1>2, <2>1, <2>2
<1>3. ASSUME NEW r \in Requests, Start(r) PROVE Inv'
  <2> DEFINE j == req[r].job
  <2>1. CASE wf[j].phase = "none" /\ j \in Jobs
    <3> DEFINE u == [wf[j] EXCEPT !.phase = "prepare"]
               z == [att[j] EXCEPT !["prepare"][1] = "scheduled"]
    <3>1. wf' = [wf EXCEPT ![j] = u] /\ att' = [att EXCEPT ![j] = z]
      BY <1>0, <1>3, <2>1 DEF Start
    <3>2. u \in Workflow /\ z \in Slots
      <4>0. "prepare" \in Phases
        BY DEF Phases, Activities
      <4>1. u \in Workflow
        BY <1>0, <2>1, <4>0 DEF Workflow
      <4>2. "prepare" \in Activities /\ "scheduled" \in Attempt
        BY DEF Activities, Attempt
      <4>3. QED
        BY <1>0, <2>1, <4>1, <4>2, FirstAttempt, SlotType
    <3>3. JobInv(row[j], u, att[j], told[j], outputs[j])
      <4>1. u.phase = "prepare" /\ u.out = wf[j].out
        BY <1>0, <2>1 DEF Workflow
      <4>2. QED
        BY <1>0, <2>1, <4>1 DEF JobInv, Early
    <3>4. JobInv(row[j], u, z, told[j], outputs[j])
      <4>1. "prepare" \in Activities /\ "scheduled" \in Attempt /\ "scheduled" \notin Holding
        BY DEF Activities, Attempt, Holding
      <4>2. /\ row[j] \in Rows /\ u \in Workflow /\ att[j] \in Slots
            /\ told[j] \in SUBSET Statuses /\ outputs[j] \in Nat /\ 1 \in AttemptIds
        BY <1>0, <2>1, <3>2, FirstAttempt
      <4> HIDE DEF j, u
      <4>3. QED
        BY <3>3, <4>1, <4>2, SlotMoves
    <3>5. TypeOK'
      <4>1. wf' \in [Jobs -> Workflow] /\ att' \in [Jobs -> Slots]
        <5>1. wf \in [Jobs -> Workflow] /\ att \in [Jobs -> Slots]
          BY <1>0 DEF TypeOK, Slots
        <5> HIDE DEF u, z
        <5>2. QED
          BY <3>1, <3>2, <5>1
      <4>2. req' = [req EXCEPT ![r].pc = "answered"]
        BY <1>3 DEF Start
      <4>3. QED
        BY <1>0, <1>3, <4>1, <4>2, AnswerType DEF Start, TypeOK, Slots
    <3>6. ASSUME NEW k \in Jobs
          PROVE  JobInv(row[k], wf'[k], att'[k], told[k], outputs[k])
      <4>1. CASE k = j
        BY <1>0, <2>1, <3>1, <3>4, <4>1 DEF TypeOK
      <4>2. CASE k # j
        BY <1>0, <2>1, <3>1, <4>2 DEF TypeOK
      <4>3. QED
        BY <4>1, <4>2
    <3>7. QED
      BY <1>3, <3>5, <3>6 DEF Start, Inv
  <2>2. CASE ~(wf[j].phase = "none" /\ j \in Jobs)
    <3>1. wf' = wf /\ att' = att
      BY <1>0, <1>3, <2>2 DEF Start, TypeOK
    <3>2. QED
      BY <1>0, <1>3, <3>1 DEF Start, TypeOK, Inv
  <2>3. QED
    BY <2>1, <2>2
<1>4. ASSUME NEW c \in Cancels, NEW j \in Jobs, CancelDispatch(c, j) PROVE Inv'
  <2> DEFINE u == [wf[j] EXCEPT !.cancel = "requested"]
  <2>1. wf' = wf \/ wf' = [wf EXCEPT ![j] = u]
    BY <1>4 DEF CancelDispatch
  <2>2. u \in Workflow /\ u.phase = wf[j].phase /\ u.out = wf[j].out
    BY <1>0 DEF Workflow
  <2>3. /\ wf' \in [Jobs -> Workflow]
        /\ \A k \in Jobs : wf'[k].phase = wf[k].phase /\ wf'[k].out = wf[k].out
    <3>1. wf \in [Jobs -> Workflow]
      BY <1>0 DEF TypeOK
    <3> HIDE DEF u
    <3>2. QED
      BY <2>1, <2>2, <3>1
  <2>4. \A k \in Jobs : JobInv(row[k], wf'[k], att[k], told[k], outputs[k])
    BY <1>0, <2>3 DEF JobInv
  <2>5. TypeOK'
    BY <1>0, <1>4, <2>3 DEF CancelDispatch, TypeOK
  <2>6. QED
    BY <1>4, <2>4, <2>5 DEF CancelDispatch, Inv
<1>5. ASSUME NEW c \in Cancels, CancelLedger(c) PROVE Inv'
  <2> DEFINE j == can[c].job
  <2>1. row' \in [Jobs -> Rows]
    BY <1>0, <1>5, RowType DEF CancelLedger, TypeOK
  <2>2. \A k \in Jobs : row'[k] = row[k] \/ Live(row[k])
    BY <1>0, <1>5 DEF CancelLedger, TypeOK, Cancel
  <2>3. ASSUME NEW k \in Jobs
        PROVE  JobInv(row'[k], wf[k], att[k], told[k], outputs[k])
    <3>1. row[k] \in Rows /\ wf[k] \in Workflow /\ att[k] \in Slots
          /\ told[k] \in SUBSET Statuses /\ outputs[k] \in Nat /\ row'[k] \in Rows
          /\ JobInv(row[k], wf[k], att[k], told[k], outputs[k])
      BY <1>0, <2>1
    <3>2. QED
      BY <2>2, <3>1, LiveRowMoves
  <2>4. TypeOK'
    <3>1. can' = [can EXCEPT ![c].pc = "done"]
      BY <1>5 DEF CancelLedger
    <3>2. QED
      BY <1>0, <1>5, <2>1, <3>1, DoneType DEF CancelLedger, TypeOK
  <2>5. QED
    BY <1>5, <2>3, <2>4 DEF CancelLedger, Inv
<1>6. ASSUME NEW c \in Cancels, CancelLost(c) PROVE Inv'
  BY <1>0, <1>6 DEF CancelLost, Inv, TypeOK
<1>7. QED
  BY <1>1, <1>2, <1>3, <1>4, <1>5, <1>6 DEF Intake, CancelApi

(* The workflow's own steps: a delivered cancel and a lost attempt. *)
LEMMA TemporalInv == Inv /\ Temporal => Inv'
<1> SUFFICES ASSUME Inv, Temporal PROVE Inv'
  OBVIOUS
<1>0. /\ TypeOK
      /\ \A k \in Jobs : JobInv(row[k], wf[k], att[k], told[k], outputs[k])
      /\ \A k \in Jobs : /\ row[k] \in Rows /\ wf[k] \in Workflow /\ att[k] \in Slots
                         /\ told[k] \in SUBSET Statuses /\ outputs[k] \in Nat
  BY DEF Inv, TypeOK, Slots
<1>1. SUFFICES ASSUME NEW j \in Jobs, DeliverCancel(j) \/ LoseAttempt(j) PROVE Inv'
  BY DEF Temporal
<1>2. /\ row' = row /\ recorded' = recorded /\ req' = req /\ can' = can
      /\ told' = told /\ outputs' = outputs
  BY <1>1 DEF DeliverCancel, LoseAttempt
<1>3. lost' \in Nat
  BY <1>0, <1>1 DEF DeliverCancel, LoseAttempt, TypeOK
<1>4. SUFFICES /\ wf' \in [Jobs -> Workflow] /\ att' \in [Jobs -> Slots]
               /\ JobInv(row[j], wf'[j], att'[j], told[j], outputs[j])
               /\ \A k \in Jobs \ {j} : wf'[k] = wf[k] /\ att'[k] = att[k]
  <2>1. TypeOK'
    BY <1>0, <1>2, <1>3, <1>4 DEF TypeOK, Slots
  <2>2. \A k \in Jobs : JobInv(row[k], wf'[k], att'[k], told[k], outputs[k])
    BY <1>0, <1>4
  <2>3. QED
    BY <1>2, <2>1, <2>2 DEF Inv
<1>5. ASSUME NEW w \in Workflow, w.out = wf[j].out, NEW next \in Activities \cup {"closed"},
             next # "finalize", next \notin Early, Enter(j, att[j], w, next)
      PROVE  /\ wf' \in [Jobs -> Workflow] /\ att' \in [Jobs -> Slots]
             /\ JobInv(row[j], wf'[j], att'[j], told[j], outputs[j])
             /\ \A k \in Jobs \ {j} : wf'[k] = wf[k] /\ att'[k] = att[k]
  <2> DEFINE u == [w EXCEPT !.phase = next, !.n = 1]
             z == IF next = "closed" THEN att[j] ELSE [att[j] EXCEPT ![next][1] = "scheduled"]
  <2>1. wf' \in [Jobs -> Workflow] /\ att' \in [Jobs -> Slots]
    BY <1>0, <1>5, EnterType
  <2>2. JobInv(row[j], u, z, told[j], outputs[j])
    BY <1>0, <1>5, EnterMoves
  <2>3. /\ wf' = [wf EXCEPT ![j] = u]
        /\ att' = [att EXCEPT ![j] = z]
    BY <1>5 DEF Enter
  <2> HIDE DEF u, z
  <2>4. /\ wf'[j] = u
        /\ att'[j] = z
        /\ \A k \in Jobs \ {j} : wf'[k] = wf[k] /\ att'[k] = att[k]
    BY <1>0, <2>3 DEF TypeOK
  <2>5. QED
    BY <2>1, <2>2, <2>4
<1>6. CASE DeliverCancel(j)
  <2> DEFINE w == [wf[j] EXCEPT !.cancel = "delivered"]
  <2>1. w \in Workflow /\ w.out = wf[j].out /\ w.phase = wf[j].phase
    BY <1>0 DEF Workflow
  <2> HIDE DEF w
  <2>2. CASE Enter(j, att[j], w, "settleCanceled")
    <3>1. /\ "settleCanceled" \in Activities \cup {"closed"}
          /\ "settleCanceled" # "finalize" /\ "settleCanceled" \notin Early
      BY DEF Activities, Early
    <3>2. QED
      BY <1>5, <2>1, <2>2, <3>1
  <2>3. CASE wf' = [wf EXCEPT ![j] = w] /\ UNCHANGED att
    <3>1. JobInv(row[j], w, att[j], told[j], outputs[j])
      BY <1>0, <2>1 DEF JobInv
    <3>2. QED
      BY <1>0, <2>1, <2>3, <3>1 DEF TypeOK, Slots
  <2>4. QED
    BY <1>6, <2>2, <2>3 DEF DeliverCancel, w
<1>7. CASE LoseAttempt(j)
  <2> DEFINE a == wf[j].phase
             n == wf[j].n
             w == [wf[j] EXCEPT !.gaveUp = a \in Closing]
  <2>1. a \in Activities /\ n \in AttemptIds /\ n \in Nat \ {0}
    BY <1>0, <1>7, AttemptAssumption DEF LoseAttempt, Open, Workflow, Phases
  <2>2. w \in Workflow /\ w.out = wf[j].out
    <3> DEFINE g == a \in Closing
    <3>1. g \in BOOLEAN
      OBVIOUS
    <3>2. [wf[j] EXCEPT !.gaveUp = g] \in Workflow
      <4> HIDE DEF g
      <4>1. QED
        BY <1>0, <3>1 DEF Workflow
    <3>3. [wf[j] EXCEPT !.gaveUp = g].out = wf[j].out
      <4> HIDE DEF g
      <4>1. QED
        BY <1>0 DEF Workflow
    <3>4. QED
      BY <3>2, <3>3
  <2>3. AfterError(a) \in {"fail", "closed"}
    BY DEF AfterError
  <2>4. CASE Enter(j, att[j], w, AfterError(a))
    BY <1>5, <2>2, <2>3, <2>4 DEF Activities, Early
  <2>5. CASE /\ ~(n >= MaxAttempts[a])
             /\ wf'  = [wf EXCEPT ![j].n = n + 1]
             /\ att' = [att EXCEPT ![j][a][n + 1] = "scheduled"]
    <3> DEFINE u == [wf[j] EXCEPT !.n = n + 1]
               z == [att[j] EXCEPT ![a][n + 1] = "scheduled"]
    <3>1. n + 1 \in 1 .. MaxAttempts[a]
      BY <2>1, <2>5, FirstAttempt
    <3>2. n + 1 \in AttemptIds
      BY <2>1, <3>1, AttemptAssumption
    <3>3. u \in Workflow /\ u.phase = a /\ u.out = wf[j].out
      BY <1>0, <3>2 DEF Workflow
    <3>4. JobInv(row[j], u, att[j], told[j], outputs[j])
      BY <1>0, <3>3 DEF JobInv
    <3>5. "scheduled" \in Attempt /\ "scheduled" \notin Holding
      BY DEF Attempt, Holding
    <3>6. a = "finalize" => u.out # "none" /\ u.phase \notin Early
      BY <1>0, <3>3 DEF JobInv, Early
    <3>7. JobInv(row[j], u, z, told[j], outputs[j])
      BY <1>0, <2>1, <3>2, <3>3, <3>4, <3>5, <3>6, SlotMoves
    <3>8. z \in Slots
      BY <1>0, <2>1, <3>2, <3>5, SlotType
    <3>9. wf' = [wf EXCEPT ![j] = u] /\ att' = [att EXCEPT ![j] = z]
      BY <2>5
    <3>10. QED
      BY <1>0, <3>3, <3>7, <3>8, <3>9 DEF TypeOK, Slots
  <2>6. QED
    BY <1>7, <2>4, <2>5 DEF LoseAttempt
<1>8. QED
  BY <1>1, <1>6, <1>7

(* The activity attempts, current or given up for lost. *)
LEMMA WorkInv ==
    ASSUME Inv, NEW j \in Jobs, NEW n \in AttemptIds, Work(j, n)
    PROVE  Inv'
<1> DEFINE T == told[j]
           O == outputs[j]
           Goal == /\ row' \in [Jobs -> Rows] /\ wf' \in [Jobs -> Workflow]
                   /\ att' \in [Jobs -> Slots] /\ told' \in [Jobs -> SUBSET Statuses]
                   /\ outputs' \in [Jobs -> Nat]
                   /\ JobInv(row'[j], wf'[j], att'[j], told'[j], outputs'[j])
                   /\ \A k \in Jobs \ {j} :
                        /\ row'[k] = row[k] /\ wf'[k] = wf[k] /\ att'[k] = att[k]
                        /\ told'[k] = told[k] /\ outputs'[k] = outputs[k]
<1>0. /\ TypeOK
      /\ \A k \in Jobs : JobInv(row[k], wf[k], att[k], told[k], outputs[k])
      /\ row[j] \in Rows /\ wf[j] \in Workflow /\ att[j] \in Slots
      /\ told[j] \in SUBSET Statuses /\ outputs[j] \in Nat
      /\ att \in [Jobs -> Slots]
  BY DEF Inv, TypeOK, Slots
<1>a. /\ {"prepare", "generate", "finalize", "fail", "settleCanceled"} = Activities
      /\ {"idle", "scheduled", "marked", "model", "settled", "notified", "blocked", "done"} = Attempt
  BY DEF Activities, Attempt
<1>b. /\ req' = req /\ can' = can /\ lost' = lost
      /\ recorded' \in [Jobs -> BOOLEAN]
  BY <1>0 DEF Work, PrepareMark, PrepareReturn, GenerateStart, GenerateCanceled, GenerateReturn,
     FinalizeCommit, FinalizeNotify, FinalizeReturn, FailSettle, FailReturn, SettleCanceled, TypeOK
<1>c. SUFFICES Goal
  <2>1. TypeOK'
    BY <1>0, <1>b, <1>c DEF TypeOK, Slots
  <2>2. \A k \in Jobs : JobInv(row'[k], wf'[k], att'[k], told'[k], outputs'[k])
    BY <1>0, <1>c
  <2>3. QED
    BY <2>1, <2>2 DEF Inv
<1>1. CASE PrepareMark(j, n)
  <2>1. row' \in [Jobs -> Rows] /\ told' = told /\ outputs' = outputs
        /\ \A k \in Jobs \ {j} : row'[k] = row[k]
    BY <1>0, <1>1, RowType DEF PrepareMark, TypeOK
  <2>2. CASE Live(row[j])
    <3>1. JobInv(row'[j], wf[j], att[j], told[j], outputs[j])
      BY <1>0, <2>1, <2>2, LiveRowMoves
    <3>2. att' = [att EXCEPT ![j]["prepare"][n] = "marked"] /\ wf' = wf
      BY <1>1, <2>2 DEF PrepareMark, Step
    <3>3. JobInv(row'[j], wf[j], [att[j] EXCEPT !["prepare"][n] = "marked"], told[j], outputs[j])
      BY <1>0, <1>a, <2>1, <3>1, SlotMoves DEF Holding
    <3>4. att' \in [Jobs -> Slots]
      BY <1>0, <1>a, <3>2 DEF Slots
    <3>5. QED
      BY <1>0, <2>1, <3>2, <3>3, <3>4 DEF TypeOK
  <2>3. CASE ~Live(row[j])
    <3>1. row' = row
      BY <1>0, <1>1, <2>3 DEF PrepareMark, MarkRunning, TypeOK
    <3>2. Report(j, "prepare", n, wf[j], "fail")
      BY <1>1, <2>3 DEF PrepareMark, AfterError, Closing
    <3>3. att[j]["prepare"][n] # "idle"
      BY <1>1 DEF PrepareMark
    <3>4. wf' \in [Jobs -> Workflow] /\ att' \in [Jobs -> Slots]
      BY <1>0, <1>a, <3>2, ReportType
    <3>5. /\ JobInv(row[j], wf'[j], att'[j], told[j], outputs[j])
          /\ \A k \in Jobs \ {j} : wf'[k] = wf[k] /\ att'[k] = att[k]
      BY <1>0, <1>a, <3>2, <3>3, ReportMoves DEF Early
    <3>6. QED
      BY <1>0, <2>1, <3>1, <3>4, <3>5 DEF TypeOK
  <2>4. QED
    BY <2>2, <2>3
<1>2. CASE PrepareReturn(j, n)
  <2> DEFINE t == told[j] \cup {"running"}
  <2>1. /\ row' = row /\ outputs' = outputs /\ told' = [told EXCEPT ![j] = t]
        /\ Report(j, "prepare", n, wf[j], "generate") /\ att[j]["prepare"][n] # "idle"
    BY <1>2 DEF PrepareReturn
  <2>2. t \in SUBSET Statuses /\ t \cap Terminal = told[j] \cap Terminal
    BY <1>0 DEF Statuses, LiveStatuses, Terminal
  <2>3. JobInv(row[j], wf[j], att[j], t, outputs[j])
    BY <1>0, <2>2 DEF JobInv
  <2> HIDE DEF t
  <2>4. wf' \in [Jobs -> Workflow] /\ att' \in [Jobs -> Slots]
    BY <1>0, <1>a, <2>1, ReportType
  <2>5. /\ JobInv(row[j], wf'[j], att'[j], t, outputs[j])
        /\ \A k \in Jobs \ {j} : wf'[k] = wf[k] /\ att'[k] = att[k]
    BY <1>0, <1>a, <2>1, <2>2, <2>3, ReportMoves DEF Early
  <2>6. QED
    BY <1>0, <2>1, <2>2, <2>4, <2>5 DEF TypeOK
<1>3. CASE GenerateStart(j, n)
  <2>1. /\ row' = row /\ told' = told /\ outputs' = outputs /\ wf' = wf
        /\ att' = [att EXCEPT ![j]["generate"][n] = "model"]
    BY <1>3 DEF GenerateStart, Step
  <2>2. JobInv(row[j], wf[j], [att[j] EXCEPT !["generate"][n] = "model"], told[j], outputs[j])
    BY <1>0, <1>a, SlotMoves DEF Holding
  <2>3. att' \in [Jobs -> Slots]
    BY <1>0, <1>a, <2>1 DEF Slots
  <2>4. QED
    BY <1>0, <2>1, <2>2, <2>3 DEF TypeOK
<1>4. CASE GenerateCanceled(j, n)
  <2>1. /\ row' = row /\ told' = told /\ outputs' = outputs
        /\ Report(j, "generate", n, wf[j], "settleCanceled") /\ att[j]["generate"][n] # "idle"
    BY <1>4 DEF GenerateCanceled
  <2>2. wf' \in [Jobs -> Workflow] /\ att' \in [Jobs -> Slots]
    BY <1>0, <1>a, <2>1, ReportType
  <2>3. /\ JobInv(row[j], wf'[j], att'[j], told[j], outputs[j])
        /\ \A k \in Jobs \ {j} : wf'[k] = wf[k] /\ att'[k] = att[k]
    BY <1>0, <1>a, <2>1, ReportMoves DEF Early
  <2>4. QED
    BY <1>0, <2>1, <2>2, <2>3 DEF TypeOK
<1>5. ASSUME NEW out \in Outcomes, GenerateReturn(j, n, out) PROVE Goal
  <2> DEFINE v     == [wf[j] EXCEPT !.out = out]
             slots == [att[j] EXCEPT !["generate"][n] = "done"]
             u     == [v EXCEPT !.phase = "finalize", !.n = 1]
             z     == [slots EXCEPT !["finalize"][1] = "scheduled"]
  <2>1. /\ row' = row /\ told' = told /\ outputs' = outputs
        /\ Report(j, "generate", n, v, "finalize")
    BY <1>5 DEF GenerateReturn
  <2>2. v \in Workflow /\ out # "none"
    BY <1>0, <1>5 DEF Workflow, Outcomes
  <2>3. wf' \in [Jobs -> Workflow] /\ att' \in [Jobs -> Slots]
    <3> HIDE DEF v
    <3>1. QED
      BY <1>0, <1>a, <2>1, <2>2, ReportType
  <2>4. slots \in Slots
    BY <1>0, <1>a, SlotType
  <2>5. JobInv(row[j], wf[j], slots, told[j], outputs[j])
    BY <1>0, <1>a, SlotMoves DEF Holding
  <2>6. CASE Current(j, "generate", n)
    <3>1. Enter(j, slots, v, "finalize")
      BY <2>1, <2>6 DEF Report
    <3>2. wf' = [wf EXCEPT ![j] = u] /\ att' = [att EXCEPT ![j] = z]
      BY <3>1 DEF Enter
    <3>3. \A m \in AttemptIds : slots["finalize"][m] = "idle"
      BY <2>5, <2>6 DEF JobInv, Current, Early
    <3>4. u.phase = "finalize" /\ u.out = out
      BY <1>0 DEF Workflow
    <3>5. JobInv(row[j], u, slots, told[j], outputs[j])
      BY <2>2, <2>5, <3>3, <3>4 DEF JobInv, Holding
    <3>6. u \in Workflow
      <4> HIDE DEF v
      <4>1. QED
        BY <1>a, <2>2, FirstAttempt DEF Workflow, Phases
    <3>7. u.out # "none" /\ u.phase \notin Early
      BY <2>2, <3>4 DEF Early
    <3>8. JobInv(row[j], u, z, told[j], outputs[j])
      <4> HIDE DEF u, slots
      <4>1. QED
        BY <1>0, <1>a, <2>4, <3>5, <3>6, <3>7, FirstAttempt, SlotMoves DEF Holding
    <3>9. wf'[j] = u /\ att'[j] = z
          /\ \A k \in Jobs \ {j} : wf'[k] = wf[k] /\ att'[k] = att[k]
      <4> HIDE DEF u, z
      <4>1. QED
        BY <1>0, <3>2 DEF TypeOK
    <3> HIDE DEF u, z
    <3>10. QED
      BY <1>0, <2>1, <2>3, <3>8, <3>9 DEF TypeOK
  <2>7. CASE ~Current(j, "generate", n)
    <3>1. wf' = wf /\ att' = [att EXCEPT ![j] = slots]
      BY <2>1, <2>7 DEF Report
    <3> HIDE DEF slots
    <3>2. QED
      BY <1>0, <2>1, <2>3, <2>5, <3>1 DEF TypeOK
  <2>8. QED
    BY <2>6, <2>7
<1>6. CASE FinalizeCommit(j, n)
  <2> DEFINE to == IF Live(row[j]) THEN "settled" ELSE "blocked"
             z  == [att[j] EXCEPT !["finalize"][n] = to]
             q  == Settle(row[j], wf[j].out, TRUE)
  <2>1. /\ told' = told /\ outputs' = outputs /\ wf' = wf
        /\ att' = [att EXCEPT ![j] = z] /\ row' = [row EXCEPT ![j] = q]
        /\ att[j]["finalize"][n] = "scheduled"
    BY <1>6 DEF FinalizeCommit, Step
  <2>2. wf[j].out \in Outcomes /\ wf[j].phase \notin Early
    BY <1>0, <2>1 DEF JobInv, Workflow
  <2>3. q \in Rows /\ z \in Slots
    BY <1>0, <1>a, <2>2, RowType, SlotType
  <2>4. JobInv(q, wf[j], z, told[j], outputs[j])
    <3>1. CASE ~Live(row[j])
      <4>1. q = row[j] /\ to = "blocked"
        BY <3>1 DEF Settle
      <4>2. JobInv(row[j], wf[j], [att[j] EXCEPT !["finalize"][n] = "blocked"], told[j], outputs[j])
        <5>1. /\ "finalize" \in Activities /\ "blocked" \in Attempt /\ "blocked" \notin Holding
              /\ wf[j].out # "none"
          BY <1>a, <2>2 DEF Holding, Outcomes
        <5>2. QED
          BY <1>0, <2>2, <5>1, SlotMoves
      <4>3. z = [att[j] EXCEPT !["finalize"][n] = "blocked"]
        BY <4>1
      <4> HIDE DEF z, q
      <4>4. QED
        BY <4>1, <4>2, <4>3
    <3>2. CASE Live(row[j])
      <4>1. q.status = wf[j].out /\ z = [att[j] EXCEPT !["finalize"][n] = "settled"]
        BY <1>0, <3>2 DEF Settle, Rows
      <4>2. /\ \A m \in AttemptIds : z["fail"][m] = att[j]["fail"][m]
            /\ \A m \in AttemptIds :
                 z["finalize"][m] = IF m = n THEN "settled" ELSE att[j]["finalize"][m]
        BY <1>0, <1>a, <4>1 DEF Slots
      <4> HIDE DEF z, q
      <4>3. /\ outputs[j] = 0 /\ told[j] \cap Terminal = {}
            /\ \A m \in AttemptIds : att[j]["finalize"][m] \notin Holding
            /\ JobInv(q, wf[j], att[j], told[j], outputs[j])
        BY <1>0, <2>3, <3>2, LiveRowMoves
      <4>4. \A m \in AttemptIds : z["finalize"][m] \in Holding => m = n
        BY <4>2, <4>3
      <4>5. wf[j].out # "none"
        BY <2>2 DEF Outcomes
      <4>6. QED
        BY <2>2, <4>1, <4>2, <4>3, <4>4, <4>5 DEF JobInv
    <3>3. QED
      BY <3>1, <3>2
  <2> HIDE DEF z, q
  <2>5. QED
    BY <1>0, <2>1, <2>3, <2>4 DEF TypeOK
<1>7. CASE FinalizeNotify(j, n)
  <2> DEFINE t == told[j] \cup {wf[j].out}
             z == [att[j] EXCEPT !["finalize"][n] = "notified"]
  <2>1. /\ row' = row /\ outputs' = outputs /\ wf' = wf
        /\ att' = [att EXCEPT ![j] = z] /\ told' = [told EXCEPT ![j] = t]
        /\ att[j]["finalize"][n] = "settled"
    BY <1>7 DEF FinalizeNotify, Step
  <2>2. /\ wf[j].out = row[j].status /\ wf[j].out # "none" /\ wf[j].phase \notin Early
        /\ outputs[j] = 0
        /\ \A m \in AttemptIds : att[j]["finalize"][m] \in Holding => m = n
    BY <1>0, <2>1 DEF JobInv, Holding
  <2>3. /\ t \in SUBSET Statuses /\ t \cap Terminal \subseteq {row[j].status}
        /\ wf[j].out \in t
    BY <1>0, <2>2 DEF Rows, JobInv
  <2>4. z \in Slots
    BY <1>0, <1>a, SlotType
  <2>5. /\ \A m \in AttemptIds : z["fail"][m] = att[j]["fail"][m]
        /\ \A m \in AttemptIds :
             z["finalize"][m] = IF m = n THEN "notified" ELSE att[j]["finalize"][m]
    BY <1>0, <1>a DEF Slots
  <2> HIDE DEF z, t
  <2>6. \A m \in AttemptIds : z["finalize"][m] \in Holding => m = n
    BY <2>2, <2>5
  <2>7. JobInv(row[j], wf[j], z, t, outputs[j])
    BY <1>0, <2>2, <2>3, <2>5, <2>6 DEF JobInv
  <2>8. QED
    BY <1>0, <2>1, <2>3, <2>4, <2>7 DEF TypeOK
<1>8. CASE FinalizeReturn(j, n)
  <2> DEFINE slots == [att[j] EXCEPT !["finalize"][n] = "done"]
             next  == IF wf[j].cancel = "requested" THEN "settleCanceled" ELSE "closed"
  <2> DEFINE first == att[j]["finalize"][n] = "notified" /\ wf[j].out = "completed"
  <2>1. /\ row' = row /\ told' = told
        /\ Report(j, "finalize", n, wf[j], next)
        /\ att[j]["finalize"][n] \in {"blocked", "notified"}
    BY <1>8 DEF FinalizeReturn
  <2>a. PICK written \in {0, 1} :
          /\ outputs' = [outputs EXCEPT ![j] = outputs[j] + written]
          /\ written = 1 => first
    <3>1. \E written \in IF first THEN {0, 1} ELSE {0} :
             outputs' = [outputs EXCEPT ![j] = outputs[j] + written]
      BY <1>8, <1>0 DEF FinalizeReturn, TypeOK
    <3>2. CASE first
      BY <3>1, <3>2
    <3>3. CASE ~first
      <4> HIDE DEF first
      <4>1. outputs' = [outputs EXCEPT ![j] = outputs[j] + 0]
        BY <3>1, <3>3
      <4>2. QED
        BY <3>3, <4>1
    <3>4. QED
      BY <3>2, <3>3
  <2>2. next \in Activities \cup {"closed"} /\ next # "finalize" /\ next \notin Early
    BY <1>a DEF Early
  <2>3. wf[j].out # "none" /\ wf[j].phase \notin Early
    BY <1>0, <2>1 DEF JobInv
  <2>4. JobInv(row[j], wf[j], slots, told[j], outputs[j])
    BY <1>0, <1>a, <2>3, SlotMoves DEF Holding
  <2>5. outputs[j] + written \in Nat
    BY <1>0
  <2>6. JobInv(row[j], wf[j], slots, told[j], outputs[j] + written)
    <3>1. CASE written = 0
      BY <1>0, <2>4, <3>1
    <3>2. CASE written = 1
      <4>1. /\ outputs[j] = 0 /\ row[j].status = "completed"
            /\ \A m \in AttemptIds : att[j]["finalize"][m] \in Holding => m = n
        BY <1>0, <2>a, <3>2 DEF JobInv, Holding
      <4>2. \A m \in AttemptIds :
              slots["finalize"][m] = IF m = n THEN "done" ELSE att[j]["finalize"][m]
        BY <1>0, <1>a DEF Slots
      <4> HIDE DEF slots
      <4>3. \A m \in AttemptIds : slots["finalize"][m] \notin Holding
        BY <4>1, <4>2 DEF Holding
      <4>4. QED
        BY <2>4, <3>2, <4>1, <4>3 DEF JobInv
    <3>3. QED
      BY <3>1, <3>2
  <2> HIDE DEF next
  <2>7. wf' \in [Jobs -> Workflow] /\ att' \in [Jobs -> Slots]
    BY <1>0, <1>a, <2>1, <2>2, ReportType
  <2>8. /\ JobInv(row[j], wf'[j], att'[j], told[j], outputs[j] + written)
        /\ \A k \in Jobs \ {j} : wf'[k] = wf[k] /\ att'[k] = att[k]
    BY <1>0, <1>a, <2>1, <2>2, <2>5, <2>6, DoneMoves
  <2>9. QED
    BY <1>0, <2>1, <2>a, <2>5, <2>7, <2>8 DEF TypeOK
<1>9. CASE FailSettle(j, n)
  <2> DEFINE to == IF Live(row[j]) THEN "settled" ELSE "blocked"
             z  == [att[j] EXCEPT !["fail"][n] = to]
             q  == Settle(row[j], "failed", FALSE)
  <2>1. /\ told' = told /\ outputs' = outputs /\ wf' = wf
        /\ att' = [att EXCEPT ![j] = z] /\ row' = [row EXCEPT ![j] = q]
    BY <1>9 DEF FailSettle, Step
  <2>2. q \in Rows /\ z \in Slots
    BY <1>0, <1>a, RowType, SlotType DEF Outcomes
  <2>3. JobInv(q, wf[j], z, told[j], outputs[j])
    <3>1. CASE ~Live(row[j])
      <4>1. q = row[j] /\ to = "blocked"
        BY <3>1 DEF Settle
      <4>2. JobInv(row[j], wf[j], [att[j] EXCEPT !["fail"][n] = "blocked"], told[j], outputs[j])
        BY <1>0, <1>a, SlotMoves DEF Holding
      <4>3. z = [att[j] EXCEPT !["fail"][n] = "blocked"]
        BY <4>1
      <4> HIDE DEF z, q
      <4>4. QED
        BY <4>1, <4>2, <4>3
    <3>2. CASE Live(row[j])
      <4>1. q.status = "failed"
        BY <1>0, <3>2 DEF Settle, Rows
      <4>2. \A m \in AttemptIds : z["finalize"][m] = att[j]["finalize"][m]
        BY <1>0, <1>a DEF Slots
      <4> HIDE DEF z, q
      <4>3. JobInv(q, wf[j], att[j], told[j], outputs[j])
        BY <1>0, <2>2, <3>2, LiveRowMoves
      <4>4. QED
        BY <4>1, <4>2, <4>3 DEF JobInv
    <3>3. QED
      BY <3>1, <3>2
  <2> HIDE DEF z, q
  <2>4. QED
    BY <1>0, <2>1, <2>2, <2>3 DEF TypeOK
<1>10. CASE FailReturn(j, n)
  <2> DEFINE t == IF att[j]["fail"][n] = "settled" THEN told[j] \cup {"failed"} ELSE told[j]
  <2>1. /\ row' = row /\ outputs' = outputs /\ told' = [told EXCEPT ![j] = t]
        /\ Report(j, "fail", n, wf[j], "closed") /\ att[j]["fail"][n] # "idle"
    BY <1>0, <1>10 DEF FailReturn, TypeOK
  <2>2. t \in SUBSET Statuses
    BY <1>0 DEF Statuses, Terminal
  <2>3. JobInv(row[j], wf[j], att[j], t, outputs[j])
    <3>1. t \cap Terminal \subseteq {row[j].status} /\ told[j] \subseteq t
      BY <1>0 DEF JobInv
    <3> HIDE DEF t
    <3>2. QED
      BY <1>0, <3>1 DEF JobInv
  <2> HIDE DEF t
  <2>4. wf' \in [Jobs -> Workflow] /\ att' \in [Jobs -> Slots]
    BY <1>0, <1>a, <2>1, ReportType
  <2>5. /\ JobInv(row[j], wf'[j], att'[j], t, outputs[j])
        /\ \A k \in Jobs \ {j} : wf'[k] = wf[k] /\ att'[k] = att[k]
    BY <1>0, <1>a, <2>1, <2>2, <2>3, ReportMoves DEF Early
  <2>6. QED
    BY <1>0, <2>1, <2>2, <2>4, <2>5 DEF TypeOK
<1>11. CASE SettleCanceled(j, n)
  <2> DEFINE q == Settle(row[j], "canceled", FALSE)
  <2>1. /\ told' = told /\ outputs' = outputs /\ row' = [row EXCEPT ![j] = q]
        /\ Report(j, "settleCanceled", n, wf[j], "closed") /\ att[j]["settleCanceled"][n] # "idle"
    BY <1>11 DEF SettleCanceled
  <2>2. q \in Rows
    BY <1>0, RowType DEF Outcomes
  <2>3. JobInv(q, wf[j], att[j], told[j], outputs[j])
    <3>1. CASE Live(row[j])
      <4> HIDE DEF q
      <4>1. QED
        BY <1>0, <2>2, <3>1, LiveRowMoves
    <3>2. CASE ~Live(row[j])
      BY <1>0, <3>2 DEF Settle
    <3>3. QED
      BY <3>1, <3>2
  <2> HIDE DEF q
  <2>4. wf' \in [Jobs -> Workflow] /\ att' \in [Jobs -> Slots]
    BY <1>0, <1>a, <2>1, ReportType
  <2>5. /\ JobInv(q, wf'[j], att'[j], told[j], outputs[j])
        /\ \A k \in Jobs \ {j} : wf'[k] = wf[k] /\ att'[k] = att[k]
    BY <1>0, <1>a, <2>1, <2>2, <2>3, ReportMoves DEF Early
  <2>6. QED
    BY <1>0, <2>1, <2>2, <2>4, <2>5 DEF TypeOK
<1>12. QED
  BY <1>1, <1>2, <1>3, <1>4, <1>5, <1>6, <1>7, <1>8, <1>9, <1>10, <1>11 DEF Work

------------------------------------------------------------------------------
\* Every step preserves the invariant.
LEMMA NextInv == Inv /\ [Next]_vars => Inv'
<1> SUFFICES ASSUME Inv, [Next]_vars PROVE Inv'
  OBVIOUS
<1>1. CASE UNCHANGED vars
  BY <1>1 DEF vars, Inv, TypeOK
<1>2. CASE Next
  BY <1>2, ApiInv, TemporalInv, WorkInv DEF Next
<1>3. QED
  BY <1>1, <1>2

\* The types and the row's shape hold in every state.
LEMMA Invariance == Spec => []Inv
BY InitInv, NextInv, PTL DEF Spec

(* Every variable keeps its type. *)
THEOREM TypeCorrect == Spec => []TypeOK
<1>1. Inv => TypeOK
  BY DEF Inv
<1>2. QED
  BY <1>1, Invariance, PTL

(* After a refused transition neither an output nor an announcement of an end  *)
(* goes out, whatever the retries, lost attempts and cancels                   *)
(* (ARCHITECTURE.md:355).                                                      *)
THEOREM RefusalStaysSilent == Spec => []RefusedIsSilent
<1>1. Inv => RefusedIsSilent
  BY DEF Inv, JobInv, RefusedIsSilent
<1>2. QED
  BY <1>1, Invariance, PTL

(* At-least-once delivery of finalize writes a job's outputs at most once      *)
(* (jobs_activities.py, JobActivities.finalize).                               *)
THEOREM OutputsAtMostOnce == Spec => []OutputsOnce
<1>1. Inv => OutputsOnce
  BY DEF Inv, JobInv, OutputsOnce
<1>2. QED
  BY <1>1, Invariance, PTL

------------------------------------------------------------------------------
(* Rows.                                                                       *)

(* What a step may make of a row r, unless it inserts it: one UPDATE of the    *)
(* ledger.                                                                     *)
Moves(r, s) ==
    \/ s = r
    \/ s = MarkRunning(r)
    \/ s = Cancel(r)
    \/ \E status \in Outcomes, usage \in BOOLEAN : s = Settle(r, status, usage)

\* A step of the work activity moves each row along the ledger's states.
LEMMA WorkMoves ==
    ASSUME Inv, NEW j \in Jobs, NEW n \in AttemptIds, Work(j, n), NEW k \in Jobs
    PROVE  Moves(row[k], row'[k])
<1>0. row \in [Jobs -> Rows] /\ JobInv(row[j], wf[j], att[j], told[j], outputs[j])
  BY DEF Inv, TypeOK
<1>1. CASE PrepareMark(j, n)
  BY <1>0, <1>1 DEF PrepareMark, Moves
<1>2. CASE FinalizeCommit(j, n)
  <2>1. att[j]["finalize"][n] # "idle"
    BY <1>2 DEF FinalizeCommit, Step
  <2>2. wf[j].out # "none"
    BY <1>0, <2>1 DEF JobInv
  <2>3. wf[j].out \in Outcomes
    BY <2>2 DEF Inv, TypeOK, Workflow
  <2>4. row' = [row EXCEPT ![j] = Settle(row[j], wf[j].out, TRUE)]
    BY <1>2 DEF FinalizeCommit
  <2>5. row'[k] = row[k] \/ row'[k] = Settle(row[k], wf[j].out, TRUE)
    BY <1>0, <2>4
  <2>6. QED
    BY <2>3, <2>5 DEF Moves
<1>3. CASE FailSettle(j, n)
  <2>1. row' = [row EXCEPT ![j] = Settle(row[j], "failed", FALSE)]
    BY <1>3 DEF FailSettle
  <2>2. QED
    BY <1>0, <2>1 DEF Moves, Outcomes
<1>4. CASE SettleCanceled(j, n)
  <2>1. row' = [row EXCEPT ![j] = Settle(row[j], "canceled", FALSE)]
    BY <1>4 DEF SettleCanceled
  <2>2. QED
    BY <1>0, <2>1 DEF Moves, Outcomes
<1>5. CASE ~ (\/ PrepareMark(j, n) \/ FinalizeCommit(j, n) \/ FailSettle(j, n)
              \/ SettleCanceled(j, n))
  <2>1. row' = row
    BY <1>5 DEF Work, PrepareReturn, GenerateStart, GenerateCanceled, GenerateReturn,
                FinalizeNotify, FinalizeReturn, FailReturn
  <2>2. QED
    BY <2>1 DEF Moves
<1>6. QED
  BY <1>1, <1>2, <1>3, <1>4, <1>5

\* Every step moves each row along the ledger's states or inserts it.
LEMMA StepMoves ==
    ASSUME Inv, [Next]_vars, NEW k \in Jobs
    PROVE  Moves(row[k], row'[k]) \/ ClaimNew(k)
<1>0. row \in [Jobs -> Rows]
  BY DEF Inv, TypeOK
<1>1. ASSUME NEW r \in Requests, ClaimNew(r), k # r PROVE Moves(row[k], row'[k])
  BY <1>0, <1>1 DEF ClaimNew, Moves
<1>2. ASSUME NEW c \in Cancels, CancelLedger(c) PROVE Moves(row[k], row'[k])
  BY <1>0, <1>2 DEF CancelLedger, Moves
<1>3. CASE \/ \E r \in Requests : ClaimReplay(r) \/ Start(r) \/ IntakeLost(r)
           \/ \E c \in Cancels : (\E j \in Jobs : CancelDispatch(c, j)) \/ CancelLost(c)
           \/ Temporal
           \/ UNCHANGED vars
  <2>1. row' = row
    BY <1>3 DEF ClaimReplay, Start, IntakeLost, CancelDispatch, CancelLost, Temporal,
                DeliverCancel, LoseAttempt, vars
  <2>2. QED
    BY <2>1 DEF Moves
<1>4. QED
  BY <1>1, <1>2, <1>3, WorkMoves DEF Next, Intake, CancelApi

(* The ledger's methods leave a closed row as it is, and take none away. *)
LEMMA MoveKeeps ==
    ASSUME NEW r \in Rows, NEW s, Moves(r, s)
    PROVE  /\ r.status \in Terminal => s = r
           /\ r.status # "absent" => s.status # "absent"
<1>1. ASSUME r.status \in Terminal PROVE s = r
  <2>1. ~Live(r) /\ r.status # "absent"
    BY <1>1 DEF Live, LiveStatuses, Terminal
  <2>2. QED
    BY <2>1 DEF Moves, MarkRunning, Cancel, Settle
<1>2. ASSUME r.status # "absent" PROVE s.status # "absent"
  BY <1>2 DEF Moves, MarkRunning, Cancel, Settle, Outcomes, Rows
<1>3. QED
  BY <1>1, <1>2

(* No retry, late attempt, replayed POST or cancel rewrites a closed row       *)
(* (jobs_ledger.py: every UPDATE is conditional on a live status).             *)
THEOREM ClosedRowIsFinal == Spec => TerminalIsFinal
<1> DEFINE Final == \A j \in Jobs : row[j].status \in Terminal => row'[j] = row[j]
<1>1. Inv /\ [Next]_vars => Final
  BY StepMoves, MoveKeeps DEF Inv, TypeOK, ClaimNew, Terminal
<1>2. TerminalIsFinal <=> [][Final]_vars
  BY DEF TerminalIsFinal
<1> HIDE DEF Final
<1>3. QED
  BY <1>1, <1>2, Invariance, PTL DEF Spec

------------------------------------------------------------------------------
(* The intake.                                                                 *)

Calls == [pc : {"new", "claimed", "answered", "conflict", "lost"}, job : Jobs \cup {NoJob}]

(* Job j is there, and has the input and the key of call r. *)
Serves(j, r) == /\ j \in Jobs
                /\ row[j].status # "absent"
                /\ InputHash[j] = InputHash[r]
                /\ Key[r] # NoKey => Key[j] = Key[r]

Answers == \A r \in Requests : Served(r) => Serves(req[r].job, r)

OneRowPerKey ==
    \A j, k \in Jobs :
        /\ row[j].status # "absent" /\ row[k].status # "absent"
        /\ Key[j] = Key[k] /\ Key[j] # NoKey
        => j = k

IntakeInv == Answers /\ OneRowPerKey

(* The rows that are there stay there, and no other appears. *)
RowsStay == \A j \in Jobs : row'[j].status # "absent" <=> row[j].status # "absent"

\* A step inserts the row of one request or leaves every row there.
LEMMA StayOrInsert ==
    ASSUME Inv, [Next]_vars
    PROVE  RowsStay \/ \E r \in Requests : ClaimNew(r)
<1>0. row \in [Jobs -> Rows]
  BY DEF Inv, TypeOK
<1>1. ASSUME NEW j \in Jobs, row[j].status # "absent" PROVE row'[j].status # "absent"
  BY <1>0, <1>1, StepMoves, MoveKeeps DEF ClaimNew
<1>2. ASSUME NEW j \in Jobs, row[j].status = "absent", ~\E r \in Requests : ClaimNew(r)
      PROVE  row'[j].status = "absent"
  <2>1. ~Live(row[j])
    BY <1>2 DEF Live, LiveStatuses
  <2>2. row'[j] = row[j]
    BY <1>2, <2>1, StepMoves DEF Moves, MarkRunning, Cancel, Settle, Jobs
  <2>3. QED
    BY <1>2, <2>2
<1>3. QED
  BY <1>1, <1>2 DEF RowsStay

\* A row that serves a request goes on serving it.
LEMMA ServesStays ==
    ASSUME RowsStay, NEW j, NEW r, Serves(j, r)
    PROVE  Serves(j, r)'
BY DEF RowsStay, Serves

\* Inserting a job preserves what intake promises.
LEMMA ClaimNewIntake ==
    ASSUME Inv, IntakeInv, NEW r \in Requests, ClaimNew(r)
    PROVE  IntakeInv'
<1>0. row \in [Jobs -> Rows] /\ req \in [Requests -> Calls] /\ r \in Jobs
  BY DEF Inv, TypeOK, Calls, Jobs
<1>1. row' = [row EXCEPT ![r] = Pending] /\ req' = [req EXCEPT ![r] = [pc |-> "claimed", job |-> r]]
  BY DEF ClaimNew
<1>2. Pending.status # "absent"
  BY DEF Pending, NoRow
<1>3. \A j \in Jobs : row'[j].status # "absent" => j = r \/ row[j].status # "absent"
  BY <1>0, <1>1
<1>4. \A j \in Jobs : row[j].status # "absent" => row'[j].status # "absent"
  BY <1>0, <1>1, <1>2
<1>5. Answers'
  <2> SUFFICES ASSUME NEW q \in Requests, Served(q)' PROVE Serves(req[q].job, q)'
    BY DEF Answers
  <2>1. CASE q = r
    <3>1. req'[q].job = r /\ row'[r].status # "absent"
      BY <1>0, <1>1, <1>2, <2>1
    <3>2. QED
      BY <1>0, <2>1, <3>1 DEF Serves
  <2>2. CASE q # r
    <3>1. req'[q] = req[q]
      BY <1>0, <1>1, <2>2
    <3>2. Serves(req[q].job, q)
      BY <3>1 DEF Answers, IntakeInv, Served
    <3>3. QED
      BY <1>4, <3>1, <3>2 DEF Serves
  <2>3. QED
    BY <2>1, <2>2
<1>6. OneRowPerKey'
  <2>1. \A j \in Jobs : Key[j] = Key[r] /\ Key[r] # NoKey => row[j].status = "absent"
    BY DEF ClaimNew, KeyHolders
  <2>2. QED
    BY <1>3, <2>1 DEF OneRowPerKey, IntakeInv
<1>7. QED
  BY <1>5, <1>6 DEF IntakeInv

\* A step that inserts nothing answers only with a row that serves.
LEMMA CallAnswers ==
    ASSUME Inv, IntakeInv, Next, ~\E r \in Requests : ClaimNew(r), NEW q \in Requests, Served(q)'
    PROVE  Serves(req'[q].job, q)
<1>0. req \in [Requests -> Calls]
  BY DEF Inv, TypeOK, Calls
<1>1. CASE UNCHANGED req
  BY <1>1 DEF IntakeInv, Answers, Served
<1>2. ASSUME NEW r \in Requests, ClaimReplay(r) PROVE Serves(req'[q].job, q)
  <2>1. PICK j \in KeyHolders(r) : req' = [req EXCEPT ![r] =
               IF InputHash[j] # InputHash[r] THEN [pc |-> "conflict", job |-> NoJob]
               ELSE IF row[j].status = "pending" THEN [pc |-> "claimed", job |-> j]
               ELSE [pc |-> "answered", job |-> j]]
    BY <1>2 DEF ClaimReplay
  <2>2. CASE q = r
    <3>1. req'[r].pc # "conflict" => InputHash[j] = InputHash[r] /\ req'[r].job = j
      BY <1>0, <2>1
    <3>2. req'[r].pc # "conflict"
      BY <2>2 DEF Served
    <3>3. QED
      BY <2>2, <3>1, <3>2 DEF KeyHolders, Serves
  <2>3. CASE q # r
    BY <1>0, <2>1, <2>3 DEF IntakeInv, Answers, Served
  <2>4. QED
    BY <2>2, <2>3
<1>3. ASSUME NEW r \in Requests, Start(r) PROVE Serves(req'[q].job, q)
  <2>1. req[r].pc = "claimed" /\ req' = [req EXCEPT ![r].pc = "answered"]
    BY <1>3 DEF Start
  <2>2. req'[q].job = req[q].job /\ Served(q)
    BY <1>0, <2>1 DEF Served, Calls
  <2>3. QED
    BY <2>2 DEF IntakeInv, Answers
<1>4. ASSUME NEW r \in Requests, IntakeLost(r) PROVE Serves(req'[q].job, q)
  <2>1. req' = [req EXCEPT ![r] = [pc |-> "lost", job |-> NoJob]]
    BY <1>4 DEF IntakeLost
  <2>2. req'[q] = req[q]
    BY <1>0, <2>1 DEF Served
  <2>3. QED
    BY <2>2 DEF IntakeInv, Answers, Served
<1>5. CASE CancelApi \/ Temporal
  <2>1. UNCHANGED req
    BY <1>5 DEF CancelApi, CancelDispatch, CancelLedger, CancelLost, Temporal, DeliverCancel,
                LoseAttempt
  <2>2. QED
    BY <1>1, <2>1
<1>6. ASSUME NEW j \in Jobs, NEW n \in AttemptIds, Work(j, n) PROVE Serves(req'[q].job, q)
  <2>1. UNCHANGED req
    BY <1>6 DEF Work, PrepareMark, PrepareReturn, GenerateStart, GenerateCanceled, GenerateReturn,
                FinalizeCommit, FinalizeNotify, FinalizeReturn, FailSettle, FailReturn, SettleCanceled
  <2>2. QED
    BY <1>1, <2>1
<1>7. QED
  BY <1>2, <1>3, <1>4, <1>5, <1>6 DEF Next, Intake

\* Every step preserves what intake promises.
LEMMA IntakeStep == Inv /\ IntakeInv /\ [Next]_vars => IntakeInv'
<1> SUFFICES ASSUME Inv, IntakeInv, [Next]_vars PROVE IntakeInv'
  OBVIOUS
<1>1. CASE \E r \in Requests : ClaimNew(r)
  BY <1>1, ClaimNewIntake
<1>2. CASE UNCHANGED vars
  BY <1>2 DEF vars, IntakeInv, Answers, OneRowPerKey, Serves, Served
<1>3. CASE Next /\ ~\E r \in Requests : ClaimNew(r)
  <2>1. RowsStay
    BY <1>3, StayOrInsert
  <2>2. Answers'
    BY <1>3, <2>1, CallAnswers, ServesStays DEF Answers
  <2>3. OneRowPerKey'
    BY <2>1 DEF RowsStay, OneRowPerKey, IntakeInv
  <2>4. QED
    BY <2>2, <2>3 DEF IntakeInv
<1>4. QED
  BY <1>1, <1>2, <1>3

(* However often and however concurrently a job is posted, the calls of one    *)
(* idempotency key are answered with one job, and every call with a job of its *)
(* own input (JobIntake.claim).                                                *)
THEOREM OneJobPerKey == Spec => []IdempotentIntake
<1>1. Init => IntakeInv
  BY DEF Init, NoRow, IntakeInv, Answers, OneRowPerKey, Served
<1>2. IntakeInv => IdempotentIntake
  BY DEF IntakeInv, Answers, OneRowPerKey, Serves, IdempotentIntake
<1>3. QED
  BY <1>1, <1>2, IntakeStep, Invariance, PTL DEF Spec

------------------------------------------------------------------------------
(* The end of a workflow.                                                      *)

(* An attempt of a closing activity that has been to the ledger. *)
Decided == {"settled", "notified", "blocked"}

EndInv(r, rec, w, s) ==
    /\ \A a \in Activities, n \in AttemptIds : s[a][n] # "idle" => r.status # "absent"
    /\ w.phase # "none" => r.status # "absent"
    /\ \A n \in AttemptIds : s["finalize"][n] \in Decided => r.status \in Terminal /\ rec
    /\ \A n \in AttemptIds : s["fail"][n] \in Decided => r.status \in Terminal
    /\ w.phase = "closed" /\ ~w.gaveUp => r.status \in Terminal
    /\ w.phase \in Early => w.out = "none"
    /\ w.phase = "fail" => s["fail"][1] # "idle"
    /\ (/\ w.out # "none" /\ w.phase \in {"settleCanceled", "closed"}
        /\ s["fail"][1] = "idle") => rec

Ends == \A j \in Jobs : EndInv(row[j], recorded[j], wf[j], att[j])

(* A row that stays, and stays closed if it was, and a trajectory that stays. *)
LEMMA EndRow ==
    ASSUME NEW r, NEW rec, NEW w, NEW s, EndInv(r, rec, w, s), NEW q, NEW qec,
           r.status # "absent" => q.status # "absent",
           r.status \in Terminal => q.status \in Terminal,
           rec => qec
    PROVE  EndInv(q, qec, w, s)
BY DEF EndInv

(* An attempt moves: to a decision of the ledger only with a closed row. *)
LEMMA EndSlot ==
    ASSUME NEW r, NEW rec, NEW w, NEW s \in Slots, EndInv(r, rec, w, s), r.status # "absent",
           NEW a \in Activities, NEW n \in AttemptIds, NEW v \in Attempt, v # "idle",
           v \in Decided => r.status \in Terminal /\ (a = "finalize" => rec)
    PROVE  EndInv(r, rec, w, [s EXCEPT ![a][n] = v])
<1> DEFINE z == [s EXCEPT ![a][n] = v]
<1>1. \A b \in Activities, m \in AttemptIds :
        z[b][m] = IF b = a /\ m = n THEN v ELSE s[b][m]
  BY DEF Slots
<1>2. {"finalize", "fail"} \subseteq Activities /\ 1 \in AttemptIds
  BY FirstAttempt DEF Activities
<1>3. \A m \in AttemptIds : z["finalize"][m] \in Decided => r.status \in Terminal /\ rec
  BY <1>1, <1>2 DEF EndInv
<1>4. \A m \in AttemptIds : z["fail"][m] \in Decided => r.status \in Terminal
  BY <1>1, <1>2 DEF EndInv
<1>5. z["fail"][1] = "idle" => s["fail"][1] = "idle"
  BY <1>1, <1>2
<1> HIDE DEF z
<1>6. EndInv(r, rec, w, z)
  BY <1>3, <1>4, <1>5 DEF EndInv
<1>7. QED
  BY <1>6 DEF z

(* What the workflow must know to move on to next, left with the record v. *)
MayEnd(r, rec, v, s, next) ==
    /\ next = "closed" /\ ~v.gaveUp => r.status \in Terminal
    /\ next \in Early => v.out = "none"
    /\ next \in {"settleCanceled", "closed"} /\ v.out # "none" /\ s["fail"][1] = "idle" => rec

\* Entering the next activity keeps a job's end consistent.
LEMMA EndEnter ==
    ASSUME NEW r, NEW rec, NEW w, NEW s \in Slots, EndInv(r, rec, w, s), r.status # "absent",
           NEW v \in Workflow, NEW next \in Activities \cup {"closed"},
           MayEnd(r, rec, v, s, next)
    PROVE  EndInv(r, rec, [v EXCEPT !.phase = next, !.n = 1],
                  IF next = "closed" THEN s ELSE [s EXCEPT ![next][1] = "scheduled"])
<1> DEFINE u == [v EXCEPT !.phase = next, !.n = 1]
           z == [s EXCEPT ![next][1] = "scheduled"]
<1>1. u.phase = next /\ u.out = v.out /\ u.gaveUp = v.gaveUp
  BY DEF Workflow
<1> HIDE DEF u
<1>2. CASE next = "closed"
  BY <1>1, <1>2 DEF EndInv, MayEnd, Early, u
<1>3. CASE next # "closed"
  <2>1. EndInv(r, rec, w, z)
    BY <1>3, FirstAttempt, EndSlot DEF Attempt, Decided
  <2>2. \A b \in Activities, m \in AttemptIds :
          z[b][m] = IF b = next /\ m = 1 THEN "scheduled" ELSE s[b][m]
    BY <1>3 DEF Slots
  <2>3. /\ next = "fail" => z["fail"][1] # "idle"
        /\ next # "fail" => z["fail"][1] = s["fail"][1]
    BY <1>3, <2>2, FirstAttempt DEF Activities
  <2> HIDE DEF z
  <2>4. EndInv(r, rec, u, z)
    BY <1>1, <1>3, <2>1, <2>3 DEF EndInv, MayEnd
  <2>5. QED
    BY <1>3, <2>4 DEF u, z
<1>4. QED
  BY <1>2, <1>3

\* A report to the workflow keeps a job's end consistent.
LEMMA EndReport ==
    ASSUME TypeOK, NEW j \in Jobs, NEW a \in Activities, NEW n \in AttemptIds,
           NEW v \in Workflow, NEW next \in Activities \cup {"closed"}, NEW r, NEW rec,
           EndInv(r, rec, wf[j], att[j]), r.status # "absent",
           Current(j, a, n) => MayEnd(r, rec, v, att[j], next),
           Report(j, a, n, v, next)
    PROVE  /\ EndInv(r, rec, wf'[j], att'[j])
           /\ \A k \in Jobs \ {j} : wf'[k] = wf[k] /\ att'[k] = att[k]
<1> DEFINE slots == [att[j] EXCEPT ![a][n] = "done"]
<1>1. att[j] \in Slots /\ slots \in Slots
  BY SlotType DEF TypeOK, Slots, Attempt
<1>2. EndInv(r, rec, wf[j], slots)
  BY <1>1, EndSlot DEF Attempt, Decided
<1>3. slots["fail"][1] = "idle" => att[j]["fail"][1] = "idle"
  BY <1>1, FirstAttempt DEF Slots, Activities
<1>4. CASE Current(j, a, n)
  <2> DEFINE u == [v EXCEPT !.phase = next, !.n = 1]
             z == IF next = "closed" THEN slots ELSE [slots EXCEPT ![next][1] = "scheduled"]
  <2>1. wf' = [wf EXCEPT ![j] = u] /\ att' = [att EXCEPT ![j] = z]
    BY <1>4 DEF Report, Enter
  <2>2. MayEnd(r, rec, v, slots, next)
    BY <1>3, <1>4 DEF MayEnd
  <2> HIDE DEF slots
  <2>3. EndInv(r, rec, u, z)
    BY <1>1, <1>2, <2>2, EndEnter
  <2> HIDE DEF u, z
  <2>4. QED
    BY <2>1, <2>3 DEF TypeOK
<1>5. CASE ~Current(j, a, n)
  <2>1. wf' = wf /\ att' = [att EXCEPT ![j] = slots]
    BY <1>5 DEF Report
  <2> HIDE DEF slots
  <2>2. QED
    BY <1>2, <2>1 DEF TypeOK
<1>6. QED
  BY <1>4, <1>5

------------------------------------------------------------------------------
(* What was written stays written. *)
Grows(j) ==
    /\ row[j].status # "absent" => row'[j].status # "absent"
    /\ row[j].status \in Terminal => row'[j].status \in Terminal
    /\ recorded[j] => recorded'[j]

\* No step takes back a row, its end or a recorded outcome.
LEMMA StepGrows ==
    ASSUME Inv, [Next]_vars, NEW k \in Jobs
    PROVE  Grows(k)
<1>0. row[k] \in Rows /\ recorded \in [Jobs -> BOOLEAN]
  BY DEF Inv, TypeOK
<1>1. /\ row[k].status # "absent" => row'[k].status # "absent"
      /\ row[k].status \in Terminal => row'[k].status \in Terminal
  BY <1>0, StepMoves, MoveKeeps DEF ClaimNew, Terminal
<1>2. recorded[k] => recorded'[k]
  <2>1. ASSUME NEW j \in Jobs, NEW n \in AttemptIds, Work(j, n)
        PROVE  recorded' = recorded \/ recorded' = [recorded EXCEPT ![j] = TRUE]
    BY <2>1 DEF Work, PrepareMark, PrepareReturn, GenerateStart, GenerateCanceled,
                GenerateReturn, FinalizeCommit, FinalizeNotify, FinalizeReturn, FailSettle,
                FailReturn, SettleCanceled
  <2>2. ASSUME Intake \/ CancelApi \/ Temporal \/ UNCHANGED vars
        PROVE  recorded' = recorded
    BY <2>2 DEF Intake, ClaimNew, ClaimReplay, Start, IntakeLost, CancelApi, CancelDispatch,
                CancelLedger, CancelLost, Temporal, DeliverCancel, LoseAttempt, vars
  <2>3. QED
    BY <1>0, <2>1, <2>2 DEF Next
<1>3. QED
  BY <1>1, <1>2 DEF Grows

(* Of a job whose workflow and attempts a step leaves alone. *)
LEMMA QuietEnds ==
    ASSUME Inv, Ends, [Next]_vars, NEW k \in Jobs, wf'[k] = wf[k], att'[k] = att[k]
    PROVE  EndInv(row'[k], recorded'[k], wf'[k], att'[k])
<1>1. EndInv(row[k], recorded[k], wf[k], att[k])
  BY DEF Ends
<1>2. Grows(k)
  BY StepGrows
<1>3. EndInv(row'[k], recorded'[k], wf[k], att[k])
  BY <1>1, <1>2, EndRow DEF Grows
<1>4. QED
  BY <1>3

\* Starting a workflow keeps every job's end consistent.
LEMMA StartEnds ==
    ASSUME Inv, IntakeInv, Ends, NEW r \in Requests, Start(r), NEW k \in Jobs
    PROVE  EndInv(row'[k], recorded'[k], wf'[k], att'[k])
<1> DEFINE j == req[r].job
           u == [wf[j] EXCEPT !.phase = "prepare"]
           z == [att[j] EXCEPT !["prepare"][1] = "scheduled"]
<1>0. [Next]_vars
  BY DEF Next, Intake
<1>1. j \in Jobs /\ row[j].status # "absent"
  BY DEF Start, IntakeInv, Answers, Serves, Served
<1>2. wf \in [Jobs -> Workflow] /\ att \in [Jobs -> Slots] /\ UNCHANGED <<row, recorded>>
  BY DEF Inv, TypeOK, Slots, Start
<1>3. CASE wf[j].phase = "none" /\ k = j
  <2>1. wf' = [wf EXCEPT ![j] = u] /\ att' = [att EXCEPT ![j] = z]
    BY <1>3 DEF Start
  <2>2. EndInv(row[j], recorded[j], wf[j], att[j])
    BY <1>1 DEF Ends
  <2>3. EndInv(row[j], recorded[j], wf[j], z)
    BY <1>1, <1>2, <2>2, FirstAttempt, EndSlot DEF Activities, Attempt, Decided
  <2>4. u.phase = "prepare" /\ u.out = wf[j].out
    BY <1>1, <1>2 DEF Workflow
  <2> HIDE DEF u, z
  <2>5. EndInv(row[j], recorded[j], u, z)
    BY <1>1, <1>3, <2>3, <2>4 DEF EndInv, Early
  <2>6. QED
    BY <1>1, <1>2, <1>3, <2>1, <2>5
<1>4. CASE wf[j].phase # "none" \/ k # j
  <2>1. wf'[k] = wf[k] /\ att'[k] = att[k]
    BY <1>2, <1>4 DEF Start
  <2>2. QED
    BY <1>0, <2>1, QuietEnds
<1>5. QED
  BY <1>3, <1>4

\* Asking Temporal to cancel keeps every job's end consistent.
LEMMA CancelDispatchEnds ==
    ASSUME Inv, Ends, NEW c \in Cancels, NEW j \in Jobs, CancelDispatch(c, j), NEW k \in Jobs
    PROVE  EndInv(row'[k], recorded'[k], wf'[k], att'[k])
<1> DEFINE u == [wf[j] EXCEPT !.cancel = "requested"]
<1>1. /\ wf' = wf \/ wf' = [wf EXCEPT ![j] = u]
      /\ UNCHANGED <<row, recorded, att>>
  BY DEF CancelDispatch
<1>2. wf \in [Jobs -> Workflow]
  BY DEF Inv, TypeOK
<1>3. u.phase = wf[j].phase /\ u.out = wf[j].out /\ u.gaveUp = wf[j].gaveUp
  BY <1>2 DEF Workflow
<1> HIDE DEF u
<1>4. wf'[k].phase = wf[k].phase /\ wf'[k].out = wf[k].out /\ wf'[k].gaveUp = wf[k].gaveUp
  BY <1>1, <1>2, <1>3
<1>5. EndInv(row[k], recorded[k], wf[k], att[k])
  BY DEF Ends
<1>6. EndInv(row[k], recorded[k], wf'[k], att[k])
  BY <1>4, <1>5 DEF EndInv
<1>7. QED
  BY <1>1, <1>6

\* The calls of the API keep every job's end consistent.
LEMMA ApiEnds ==
    ASSUME Inv, IntakeInv, Ends, Intake \/ CancelApi
    PROVE  Ends'
<1> SUFFICES ASSUME NEW k \in Jobs
             PROVE  EndInv(row'[k], recorded'[k], wf'[k], att'[k])
  BY DEF Ends
<1>1. ASSUME UNCHANGED <<wf, att>>
      PROVE  EndInv(row'[k], recorded'[k], wf'[k], att'[k])
  BY <1>1, QuietEnds DEF Next
<1>2. QED
  BY <1>1, StartEnds, CancelDispatchEnds
  DEF Intake, CancelApi, ClaimNew, ClaimReplay, IntakeLost, CancelLedger, CancelLost

\* Temporal's own steps keep every job's end consistent.
LEMMA TemporalEnds ==
    ASSUME Inv, Ends, Temporal
    PROVE  Ends'
<1> SUFFICES ASSUME NEW j \in Jobs, DeliverCancel(j) \/ LoseAttempt(j), NEW k \in Jobs
             PROVE  EndInv(row'[k], recorded'[k], wf'[k], att'[k])
  BY DEF Ends, Temporal
<1>0. /\ wf \in [Jobs -> Workflow] /\ att \in [Jobs -> Slots]
      /\ EndInv(row[j], recorded[j], wf[j], att[j])
      /\ UNCHANGED <<row, recorded>>
  BY DEF Inv, TypeOK, Slots, Ends, DeliverCancel, LoseAttempt
<1>1. wf[j].phase # "none" /\ row[j].status # "absent"
  BY <1>0 DEF DeliverCancel, LoseAttempt, Open, EndInv
<1>2. ASSUME NEW u, NEW z, wf' = [wf EXCEPT ![j] = u], att' = [att EXCEPT ![j] = z],
             EndInv(row[j], recorded[j], u, z)
      PROVE  EndInv(row'[k], recorded'[k], wf'[k], att'[k])
  <2>1. CASE k = j
    BY <1>0, <1>2, <2>1
  <2>2. CASE k # j
    BY <1>0, <1>2, <2>2 DEF Ends
  <2>3. QED
    BY <2>1, <2>2
<1>3. ASSUME NEW v \in Workflow, NEW next \in Activities \cup {"closed"},
             MayEnd(row[j], recorded[j], v, att[j], next), Enter(j, att[j], v, next)
      PROVE  EndInv(row'[k], recorded'[k], wf'[k], att'[k])
  <2> DEFINE u == [v EXCEPT !.phase = next, !.n = 1]
             z == IF next = "closed" THEN att[j] ELSE [att[j] EXCEPT ![next][1] = "scheduled"]
  <2>1. EndInv(row[j], recorded[j], u, z)
    BY <1>0, <1>1, <1>3, EndEnter
  <2>2. wf' = [wf EXCEPT ![j] = u] /\ att' = [att EXCEPT ![j] = z]
    BY <1>3 DEF Enter
  <2> HIDE DEF u, z
  <2>3. QED
    BY <1>2, <2>1, <2>2
<1>4. CASE DeliverCancel(j)
  <2> DEFINE w == [wf[j] EXCEPT !.cancel = "delivered"]
  <2>1. w \in Workflow /\ w.out = wf[j].out /\ w.phase = wf[j].phase /\ w.gaveUp = wf[j].gaveUp
    BY <1>0 DEF Workflow
  <2>2. wf[j].phase \in Early => wf[j].out = "none"
    BY <1>0 DEF EndInv
  <2> HIDE DEF w
  <2>3. CASE wf[j].phase = "prepare" /\ Enter(j, att[j], w, "settleCanceled")
    <3>1. MayEnd(row[j], recorded[j], w, att[j], "settleCanceled")
      BY <2>1, <2>2, <2>3 DEF MayEnd, Early
    <3>2. QED
      BY <1>3, <2>1, <2>3, <3>1 DEF Activities
  <2>4. CASE wf' = [wf EXCEPT ![j] = w] /\ UNCHANGED att
    <3>1. EndInv(row[j], recorded[j], w, att[j])
      BY <1>0, <2>1 DEF EndInv
    <3>2. att' = [att EXCEPT ![j] = att[j]]
      BY <1>0, <2>4
    <3>3. QED
      BY <1>2, <2>4, <3>1, <3>2
  <2>5. QED
    BY <1>4, <2>3, <2>4 DEF DeliverCancel, w
<1>5. CASE LoseAttempt(j)
  <2> DEFINE a == wf[j].phase
             n == wf[j].n
             g == a \in Closing
             w == [wf[j] EXCEPT !.gaveUp = g]
  <2>1. a \in Activities /\ n \in AttemptIds /\ n \in Nat \ {0}
    BY <1>0, <1>5, AttemptAssumption DEF LoseAttempt, Open, Workflow, Phases
  <2>2. w \in Workflow /\ w.out = wf[j].out /\ w.gaveUp = g
    <3>1. g \in BOOLEAN
      OBVIOUS
    <3> HIDE DEF g
    <3>2. QED
      BY <1>0, <3>1 DEF Workflow
  <2>3. CASE Enter(j, att[j], w, AfterError(a))
    <3>1. MayEnd(row[j], recorded[j], w, att[j], AfterError(a))
      <4>1. CASE a \in Closing
        <5>1. a = "fail" => att[j]["fail"][1] # "idle"
          BY <1>0 DEF EndInv
        <5>2. (/\ a = "settleCanceled" /\ wf[j].out # "none"
               /\ att[j]["fail"][1] = "idle") => recorded[j]
          BY <1>0 DEF EndInv
        <5> HIDE DEF w
        <5>3. QED
          BY <2>2, <4>1, <5>1, <5>2 DEF MayEnd, AfterError, Closing, Early
      <4>2. CASE a \notin Closing
        BY <4>2 DEF MayEnd, AfterError, Early
      <4>3. QED
        BY <4>1, <4>2
    <3>2. AfterError(a) \in Activities \cup {"closed"}
      BY DEF AfterError, Activities
    <3> HIDE DEF w
    <3>3. QED
      BY <1>3, <2>2, <2>3, <3>1, <3>2
  <2>4. CASE /\ ~(n >= MaxAttempts[a])
             /\ wf'  = [wf EXCEPT ![j].n = n + 1]
             /\ att' = [att EXCEPT ![j][a][n + 1] = "scheduled"]
    <3> DEFINE u == [wf[j] EXCEPT !.n = n + 1]
               z == [att[j] EXCEPT ![a][n + 1] = "scheduled"]
    <3>1. n + 1 \in AttemptIds
      <4>1. n + 1 \in 1 .. MaxAttempts[a]
        BY <2>1, <2>4, FirstAttempt
      <4>2. QED
        BY <2>1, <4>1, AttemptAssumption
    <3>2. u.phase = wf[j].phase /\ u.out = wf[j].out /\ u.gaveUp = wf[j].gaveUp
      BY <1>0 DEF Workflow
    <3>3. EndInv(row[j], recorded[j], wf[j], z)
      BY <1>0, <1>1, <2>1, <3>1, EndSlot DEF Attempt, Decided
    <3>4. wf' = [wf EXCEPT ![j] = u] /\ att' = [att EXCEPT ![j] = z]
      BY <2>4
    <3> HIDE DEF u, z
    <3>5. EndInv(row[j], recorded[j], u, z)
      BY <3>2, <3>3 DEF EndInv
    <3>6. QED
      BY <1>2, <3>4, <3>5
  <2>5. QED
    BY <1>5, <2>3, <2>4 DEF LoseAttempt
<1>6. QED
  BY <1>4, <1>5

(* A closing statement leaves a row that was there closed. *)
LEMMA SettleCloses ==
    ASSUME NEW r \in Rows, r.status # "absent", NEW status \in Outcomes, NEW usage \in BOOLEAN
    PROVE  Settle(r, status, usage).status \in Terminal
BY DEF Settle, Live, Rows, Statuses, LiveStatuses, Outcomes, Terminal

\* The steps of an activity keep every job's end consistent.
LEMMA WorkEnds ==
    ASSUME Inv, Ends, NEW j \in Jobs, NEW n \in AttemptIds, Work(j, n)
    PROVE  Ends'
<1> DEFINE R   == row'[j]
           Rec == recorded'[j]
<1>0. /\ row \in [Jobs -> Rows] /\ wf \in [Jobs -> Workflow] /\ att \in [Jobs -> Slots]
      /\ recorded \in [Jobs -> BOOLEAN]
      /\ EndInv(row[j], recorded[j], wf[j], att[j])
      /\ JobInv(row[j], wf[j], att[j], told[j], outputs[j])
      /\ TypeOK /\ [Next]_vars
  BY DEF Inv, TypeOK, Slots, Ends, Next
<1>a. Activities = {"prepare", "generate", "finalize", "fail", "settleCanceled"}
  BY DEF Activities
<1>1. \E a \in Activities : att[j][a][n] # "idle"
  BY <1>a DEF Work, PrepareMark, PrepareReturn, GenerateStart, GenerateCanceled, GenerateReturn,
     FinalizeCommit, FinalizeNotify, FinalizeReturn, FailSettle, FailReturn, SettleCanceled, Step
<1>2. row[j].status # "absent" /\ R.status # "absent"
  BY <1>0, <1>1, StepGrows DEF EndInv, Grows
<1>3. EndInv(R, Rec, wf[j], att[j])
  BY <1>0, StepGrows, EndRow DEF Grows
<1> HIDE DEF R, Rec
<1>4. SUFFICES /\ EndInv(R, Rec, wf'[j], att'[j])
               /\ \A k \in Jobs \ {j} : wf'[k] = wf[k] /\ att'[k] = att[k]
  BY <1>0, <1>4, QuietEnds DEF Ends, R, Rec
<1>5. ASSUME NEW a \in Activities, NEW v \in Attempt, v # "idle",
             v \in Decided => R.status \in Terminal /\ (a = "finalize" => Rec),
             wf' = wf, att' = [att EXCEPT ![j] = [att[j] EXCEPT ![a][n] = v]]
      PROVE  /\ EndInv(R, Rec, wf'[j], att'[j])
             /\ \A k \in Jobs \ {j} : wf'[k] = wf[k] /\ att'[k] = att[k]
  <2> DEFINE z == [att[j] EXCEPT ![a][n] = v]
  <2>1. EndInv(R, Rec, wf[j], z)
    BY <1>0, <1>2, <1>3, <1>5, EndSlot
  <2>2. wf' = wf /\ att' = [att EXCEPT ![j] = z]
    BY <1>5
  <2> HIDE DEF z
  <2>3. QED
    BY <1>0, <2>1, <2>2
<1>6. ASSUME NEW a \in Activities, NEW v \in Workflow, NEW next \in Activities \cup {"closed"},
             Current(j, a, n) => MayEnd(R, Rec, v, att[j], next),
             Report(j, a, n, v, next)
      PROVE  /\ EndInv(R, Rec, wf'[j], att'[j])
             /\ \A k \in Jobs \ {j} : wf'[k] = wf[k] /\ att'[k] = att[k]
  BY <1>0, <1>2, <1>3, <1>6, EndReport
<1>7. wf[j] \in Workflow
  BY <1>0
<1>8. CASE PrepareMark(j, n)
  <2>1. CASE Live(row[j])
    BY <1>5, <1>8, <2>1, <1>a DEF PrepareMark, Step, Attempt, Decided
  <2>2. CASE ~Live(row[j])
    <3>1. Report(j, "prepare", n, wf[j], "fail")
      BY <1>8, <2>2 DEF PrepareMark, AfterError, Closing
    <3>2. MayEnd(R, Rec, wf[j], att[j], "fail")
      BY DEF MayEnd, Early
    <3>3. QED
      BY <1>6, <1>7, <1>a, <3>1, <3>2
  <2>3. QED
    BY <2>1, <2>2
<1>9. CASE PrepareReturn(j, n)
  <2>1. Report(j, "prepare", n, wf[j], "generate")
    BY <1>9 DEF PrepareReturn
  <2>2. Current(j, "prepare", n) => MayEnd(R, Rec, wf[j], att[j], "generate")
    BY <1>0 DEF Current, EndInv, MayEnd, Early
  <2>3. QED
    BY <1>6, <1>7, <1>a, <2>1, <2>2
<1>10. CASE GenerateStart(j, n)
  BY <1>5, <1>10, <1>a DEF GenerateStart, Step, Attempt, Decided
<1>11. CASE GenerateCanceled(j, n)
  <2>1. Report(j, "generate", n, wf[j], "settleCanceled")
    BY <1>11 DEF GenerateCanceled
  <2>2. Current(j, "generate", n) => MayEnd(R, Rec, wf[j], att[j], "settleCanceled")
    BY <1>0 DEF Current, EndInv, MayEnd, Early
  <2>3. QED
    BY <1>6, <1>7, <1>a, <2>1, <2>2
<1>12. ASSUME NEW out \in Outcomes, GenerateReturn(j, n, out)
       PROVE  /\ EndInv(R, Rec, wf'[j], att'[j])
              /\ \A k \in Jobs \ {j} : wf'[k] = wf[k] /\ att'[k] = att[k]
  <2> DEFINE v == [wf[j] EXCEPT !.out = out]
  <2>1. Report(j, "generate", n, v, "finalize")
    BY <1>12 DEF GenerateReturn
  <2>2. v \in Workflow
    BY <1>7 DEF Workflow
  <2> HIDE DEF v
  <2>3. MayEnd(R, Rec, v, att[j], "finalize")
    BY DEF MayEnd, Early
  <2>4. QED
    BY <1>6, <1>a, <2>1, <2>2, <2>3
<1>13. CASE FinalizeCommit(j, n)
  <2> DEFINE to == IF Live(row[j]) THEN "settled" ELSE "blocked"
  <2>1. /\ wf' = wf /\ att' = [att EXCEPT ![j] = [att[j] EXCEPT !["finalize"][n] = to]]
        /\ row' = [row EXCEPT ![j] = Settle(row[j], wf[j].out, TRUE)]
        /\ recorded' = [recorded EXCEPT ![j] = TRUE]
        /\ att[j]["finalize"][n] = "scheduled"
    BY <1>13 DEF FinalizeCommit, Step
  <2>2. wf[j].out \in Outcomes
    BY <1>0, <2>1 DEF JobInv, Workflow
  <2>3. R.status \in Terminal /\ Rec
    BY <1>0, <1>2, <2>1, <2>2, SettleCloses DEF R, Rec
  <2>4. to \in Attempt /\ to # "idle"
    BY DEF Attempt
  <2> HIDE DEF to
  <2>5. QED
    BY <1>5, <1>a, <2>1, <2>3, <2>4
<1>14. CASE FinalizeNotify(j, n)
  <2>1. /\ wf' = wf /\ att' = [att EXCEPT ![j] = [att[j] EXCEPT !["finalize"][n] = "notified"]]
        /\ att[j]["finalize"][n] = "settled"
    BY <1>14 DEF FinalizeNotify, Step
  <2>2. R.status \in Terminal /\ Rec
    BY <1>3, <2>1 DEF EndInv, Decided
  <2>3. QED
    BY <1>5, <1>a, <2>1, <2>2 DEF Attempt
<1>15. CASE FinalizeReturn(j, n)
  <2> DEFINE next == IF wf[j].cancel = "requested" THEN "settleCanceled" ELSE "closed"
  <2>1. Report(j, "finalize", n, wf[j], next) /\ att[j]["finalize"][n] \in Decided
    BY <1>15 DEF FinalizeReturn, Decided
  <2>2. R.status \in Terminal /\ Rec
    BY <1>3, <2>1 DEF EndInv
  <2>3. next \in {"settleCanceled", "closed"}
    OBVIOUS
  <2> HIDE DEF next
  <2>4. MayEnd(R, Rec, wf[j], att[j], next)
    BY <2>2, <2>3 DEF MayEnd, Early
  <2>5. QED
    BY <1>6, <1>7, <1>a, <2>1, <2>3, <2>4
<1>16. CASE FailSettle(j, n)
  <2> DEFINE to == IF Live(row[j]) THEN "settled" ELSE "blocked"
  <2>1. /\ wf' = wf /\ att' = [att EXCEPT ![j] = [att[j] EXCEPT !["fail"][n] = to]]
        /\ row' = [row EXCEPT ![j] = Settle(row[j], "failed", FALSE)]
    BY <1>16 DEF FailSettle, Step
  <2>2. R.status \in Terminal
    BY <1>0, <1>2, <2>1, SettleCloses DEF R, Outcomes
  <2>3. to \in Attempt /\ to # "idle"
    BY DEF Attempt
  <2> HIDE DEF to
  <2>4. QED
    BY <1>5, <1>a, <2>1, <2>2, <2>3
<1>17. CASE FailReturn(j, n)
  <2>1. Report(j, "fail", n, wf[j], "closed") /\ att[j]["fail"][n] \in Decided
    BY <1>17 DEF FailReturn, Decided
  <2>2. R.status \in Terminal
    BY <1>3, <2>1 DEF EndInv
  <2>3. Current(j, "fail", n) => MayEnd(R, Rec, wf[j], att[j], "closed")
    BY <1>3, <2>2 DEF Current, EndInv, MayEnd, Early
  <2>4. QED
    BY <1>6, <1>7, <1>a, <2>1, <2>3
<1>18. CASE SettleCanceled(j, n)
  <2>1. /\ Report(j, "settleCanceled", n, wf[j], "closed")
        /\ row' = [row EXCEPT ![j] = Settle(row[j], "canceled", FALSE)]
    BY <1>18 DEF SettleCanceled
  <2>2. R.status \in Terminal
    BY <1>0, <1>2, <2>1, SettleCloses DEF R, Outcomes
  <2>3. Current(j, "settleCanceled", n) => MayEnd(R, Rec, wf[j], att[j], "closed")
    BY <1>3, <2>2 DEF Current, EndInv, MayEnd, Early
  <2>4. QED
    BY <1>6, <1>7, <1>a, <2>1, <2>3
<1>19. QED
  BY <1>8, <1>9, <1>10, <1>11, <1>12, <1>13, <1>14, <1>15, <1>16, <1>17, <1>18 DEF Work

\* Intake's promise and the consistency of ends hold in every state.
LEMMA EndsInvariance == Spec => [](IntakeInv /\ Ends)
<1>1. Init => IntakeInv /\ Ends
  <2> SUFFICES ASSUME Init PROVE Ends
    BY DEF Init, NoRow, IntakeInv, Answers, OneRowPerKey, Served
  <2>1. QED
    BY FirstAttempt DEF Init, Ends, EndInv, Decided, Activities, Early
<1>2. Inv /\ IntakeInv /\ Ends /\ [Next]_vars => Ends'
  <2> SUFFICES ASSUME Inv, IntakeInv, Ends, [Next]_vars PROVE Ends'
    OBVIOUS
  <2>1. CASE UNCHANGED vars
    BY <2>1 DEF vars, Ends
  <2>2. QED
    BY <2>1, ApiEnds, TemporalEnds, WorkEnds DEF Next
<1>3. QED
  BY <1>1, <1>2, IntakeStep, Invariance, PTL DEF Spec

(* Whatever fails, is lost or is cancelled on the way, a workflow that closed  *)
(* has closed its row, unless the closing activity ran out of attempts         *)
(* (jobs_workflows.py, AgentJobWorkflow).                                      *)
THEOREM ClosedWorkflowHasClosedRow == Spec => []ClosedWorkflowClosesRow
<1>1. Ends => ClosedWorkflowClosesRow
  BY DEF Ends, EndInv, ClosedWorkflowClosesRow
<1>2. QED
  BY <1>1, EndsInvariance, PTL

(* What a run that returned did is in the ledger before its workflow closes,   *)
(* also when a cancel closed the row first, unless finalize ran out of         *)
(* attempts (jobs_activities.py, JobActivities.finalize).                      *)
THEOREM TrajectoryReachesLedger == Spec => []TrajectoryKept
<1>1. Ends => TrajectoryKept
  BY DEF Ends, EndInv, TrajectoryKept
<1>2. QED
  BY <1>1, EndsInvariance, PTL

------------------------------------------------------------------------------
(* The life of a job.                                                          *)

(* A job's row r, announcements t and outputs o become q, u and p: what the    *)
(* reader of the jobs API sees of it takes one step of its lifecycle.          *)
SameView(r, t, o, q, u, p) ==
    /\ q.status = r.status
    /\ u \cap Terminal = t \cap Terminal
    /\ (p > 0) = (o > 0)

StatusMoves(r, t, o, q, u, p) ==
    /\ \/ r.status = "absent" /\ q.status = "pending"
       \/ r.status = "pending" /\ q.status = "running"
       \/ r.status \in LiveStatuses /\ q.status \in Terminal
    /\ u \cap Terminal = t \cap Terminal
    /\ (p > 0) = (o > 0)

Announces(r, t, o, q, u, p) ==
    /\ r.status \in Terminal /\ q.status = r.status
    /\ u \cap Terminal = {r.status}
    /\ (p > 0) = (o > 0)

Publishes(r, t, o, q, u, p) ==
    /\ t \cap Terminal = {"completed"} /\ q.status = r.status
    /\ u \cap Terminal = t \cap Terminal
    /\ o = 0 /\ p > 0

ViewMoves(r, t, o, q, u, p) ==
    \/ SameView(r, t, o, q, u, p)  \/ StatusMoves(r, t, o, q, u, p)
    \/ Announces(r, t, o, q, u, p) \/ Publishes(r, t, o, q, u, p)

JobMoves(j) ==
    /\ ViewMoves(row[j], told[j], outputs[j], row'[j], told'[j], outputs'[j])
    /\ \A k \in Jobs \ {j} : SameView(row[k], told[k], outputs[k], row'[k], told'[k], outputs'[k])

view == << [j \in Jobs |-> row[j].status],
           [j \in Jobs |-> told[j] \cap Terminal],
           [j \in Jobs |-> outputs[j] > 0] >>

(* A move of one job, the others left as they are, is a step of JobLifecycle. *)
LEMMA MoveIsStep ==
    ASSUME NEW j \in Jobs, JobMoves(j)
    PROVE  [Lifecycle!Next]_view
<1> DEFINE S(k) == row[k].status
           A(k) == told[k] \cap Terminal
           P(k) == outputs[k] > 0
<1> DEFINE SS == [k \in Jobs |-> S(k)]
           AA == [k \in Jobs |-> A(k)]
           PP == [k \in Jobs |-> P(k)]
<1>0. \A k \in Jobs \ {j} : S(k)' = S(k) /\ A(k)' = A(k) /\ P(k)' = P(k)
  BY DEF JobMoves, SameView
<1>a. Lifecycle!Terminal = Terminal /\ Lifecycle!Live = LiveStatuses
  BY DEF Lifecycle!Terminal, Lifecycle!Live, Terminal, LiveStatuses
<1>1. CASE SameView(row[j], told[j], outputs[j], row'[j], told'[j], outputs'[j])
  <2>1. \A k \in Jobs : S(k)' = S(k) /\ A(k)' = A(k) /\ P(k)' = P(k)
    BY <1>0, <1>1 DEF SameView
  <2>2. SS' = SS /\ AA' = AA /\ PP' = PP
    BY <2>1
  <2>3. view' = view
    BY <2>2 DEF view
  <2>4. QED
    BY <2>3
<1>2. CASE StatusMoves(row[j], told[j], outputs[j], row'[j], told'[j], outputs'[j])
  <2>1. \A k \in Jobs : A(k)' = A(k) /\ P(k)' = P(k)
    BY <1>0, <1>2 DEF StatusMoves
  <2>2. AA' = AA /\ PP' = PP
    BY <2>1
  <2>3. SS' = [SS EXCEPT ![j] = S(j)']
    BY <1>0
  <2>4. \/ S(j) = "absent" /\ S(j)' = "pending"
        \/ S(j) = "pending" /\ S(j)' = "running"
        \/ S(j) \in LiveStatuses /\ S(j)' \in Terminal
    BY <1>2 DEF StatusMoves
  <2>5. SS[j] = S(j)
    OBVIOUS
  <2>6. CASE S(j) = "absent" /\ S(j)' = "pending"
    BY <2>2, <2>3, <2>5, <2>6 DEF Lifecycle!Next, Lifecycle!Accept
  <2>7. CASE S(j) = "pending" /\ S(j)' = "running"
    BY <2>2, <2>3, <2>5, <2>7 DEF Lifecycle!Next, Lifecycle!Begin
  <2>8. CASE S(j) \in LiveStatuses /\ S(j)' \in Terminal
    BY <1>a, <2>2, <2>3, <2>5, <2>8 DEF Lifecycle!Next, Lifecycle!Close
  <2>9. QED
    BY <2>4, <2>6, <2>7, <2>8
<1>3. CASE Announces(row[j], told[j], outputs[j], row'[j], told'[j], outputs'[j])
  <2>1. \A k \in Jobs : S(k)' = S(k) /\ P(k)' = P(k)
    BY <1>0, <1>3 DEF Announces
  <2>2. SS' = SS /\ PP' = PP
    BY <2>1
  <2>3. AA' = [AA EXCEPT ![j] = {SS[j]}]
    BY <1>0, <1>3 DEF Announces
  <2>4. SS[j] \in Terminal
    BY <1>3 DEF Announces
  <2>5. QED
    BY <1>a, <2>2, <2>3, <2>4 DEF Lifecycle!Next, Lifecycle!Announce
<1>4. CASE Publishes(row[j], told[j], outputs[j], row'[j], told'[j], outputs'[j])
  <2>1. \A k \in Jobs : S(k)' = S(k) /\ A(k)' = A(k)
    BY <1>0, <1>4 DEF Publishes
  <2>2. SS' = SS /\ AA' = AA
    BY <2>1
  <2>3. P(j)' = TRUE /\ P(j) = FALSE
    BY <1>4 DEF Publishes
  <2>4. PP' = [PP EXCEPT ![j] = TRUE] /\ PP[j] = FALSE
    BY <1>0, <2>3
  <2>5. AA[j] = {"completed"}
    BY <1>4 DEF Publishes
  <2>6. QED
    BY <2>2, <2>4, <2>5 DEF Lifecycle!Next, Lifecycle!Publish
<1>5. QED
  BY <1>1, <1>2, <1>3, <1>4 DEF JobMoves, ViewMoves

(* What the ledger's methods do to the status a reader sees. *)
LEMMA LedgerMoves ==
    ASSUME NEW r \in Rows, NEW t, NEW o
    PROVE  /\ ViewMoves(r, t, o, MarkRunning(r), t, o)
           /\ ViewMoves(r, t, o, Cancel(r), t, o)
           /\ \A s \in Outcomes, u \in BOOLEAN : ViewMoves(r, t, o, Settle(r, s, u), t, o)
<1>1. CASE ~Live(r)
  BY <1>1 DEF MarkRunning, Cancel, Settle, ViewMoves, SameView
<1>2. CASE Live(r)
  <2>1. MarkRunning(r).status = "running" /\ Cancel(r).status = "canceled"
    BY <1>2 DEF MarkRunning, Cancel, Rows
  <2>2. \A s \in Outcomes, u \in BOOLEAN : Settle(r, s, u).status = s
    BY <1>2 DEF Settle, Rows
  <2>3. r.status \in {"pending", "running"}
    BY <1>2 DEF Live, LiveStatuses
  <2>4. Outcomes = Terminal /\ "canceled" \in Terminal
    BY DEF Outcomes, Terminal
  <2>5. ViewMoves(r, t, o, MarkRunning(r), t, o)
    BY <2>1, <2>3 DEF ViewMoves, StatusMoves, SameView
  <2>6. QED
    BY <2>1, <2>2, <2>3, <2>4, <2>5 DEF ViewMoves, StatusMoves, LiveStatuses
<1>3. QED
  BY <1>1, <1>2
------------------------------------------------------------------------------
\* The initial states are initial states of the lifecycle.
LEMMA InitView == Init => Lifecycle!Init
<1> SUFFICES ASSUME Init PROVE Lifecycle!Init
  OBVIOUS
<1>1. \A j \in Jobs : /\ row[j].status = "absent" /\ told[j] \cap Terminal = {}
                      /\ (outputs[j] > 0) = FALSE
  BY DEF Init, NoRow
<1>2. QED
  BY <1>1 DEF Lifecycle!Init

(* A step that leaves row, told and outputs alone shows nothing. *)
LEMMA HiddenStep ==
    ASSUME UNCHANGED <<row, told, outputs>>
    PROVE  UNCHANGED view
BY DEF view

(* A step that only moves the row of j. *)
LEMMA RowStep ==
    ASSUME TypeOK, NEW j \in Jobs, NEW q, row' = [row EXCEPT ![j] = q],
           ViewMoves(row[j], told[j], outputs[j], q, told[j], outputs[j]),
           UNCHANGED <<told, outputs>>
    PROVE  [Lifecycle!Next]_view
<1>1. row'[j] = q /\ \A k \in Jobs \ {j} : row'[k] = row[k]
  BY DEF TypeOK
<1>2. JobMoves(j)
  BY <1>1 DEF JobMoves, SameView
<1>3. QED
  BY <1>2, MoveIsStep

(* A step that announces a status of j. *)
LEMMA ToldStep ==
    ASSUME TypeOK, NEW j \in Jobs, NEW u, told' = [told EXCEPT ![j] = u],
           ViewMoves(row[j], told[j], outputs[j], row[j], u, outputs[j]),
           UNCHANGED <<row, outputs>>
    PROVE  [Lifecycle!Next]_view
<1>1. told'[j] = u /\ \A k \in Jobs \ {j} : told'[k] = told[k]
  BY DEF TypeOK
<1>2. JobMoves(j)
  BY <1>1 DEF JobMoves, SameView
<1>3. QED
  BY <1>2, MoveIsStep

\* A call of the API is a step of the lifecycle or changes none of it.
LEMMA ApiView == Inv /\ (Intake \/ CancelApi) => [Lifecycle!Next]_view
<1> SUFFICES ASSUME Inv, Intake \/ CancelApi PROVE [Lifecycle!Next]_view
  OBVIOUS
<1>0. TypeOK /\ \A j \in Jobs : row[j] \in Rows
  BY DEF Inv, TypeOK
<1>1. ASSUME NEW r \in Requests, ClaimNew(r) PROVE [Lifecycle!Next]_view
  <2>1. ViewMoves(row[r], told[r], outputs[r], Pending, told[r], outputs[r])
    BY <1>1 DEF ClaimNew, Pending, NoRow, ViewMoves, StatusMoves
  <2>2. QED
    BY <1>0, <1>1, <2>1, RowStep DEF ClaimNew, Jobs
<1>2. ASSUME NEW r \in Requests, ClaimReplay(r) \/ Start(r) \/ IntakeLost(r)
      PROVE  [Lifecycle!Next]_view
  BY <1>2, HiddenStep DEF ClaimReplay, Start, IntakeLost
<1>3. ASSUME NEW c \in Cancels, CancelLedger(c) PROVE [Lifecycle!Next]_view
  <2> DEFINE j == can[c].job
  <2>1. row' = [row EXCEPT ![j] = Cancel(row[j])] /\ UNCHANGED <<told, outputs>>
    BY <1>3 DEF CancelLedger
  <2>2. CASE j \in Jobs
    <3>1. ViewMoves(row[j], told[j], outputs[j], Cancel(row[j]), told[j], outputs[j])
      BY <1>0, <2>2, LedgerMoves
    <3>2. QED
      BY <1>0, <2>1, <2>2, <3>1, RowStep
  <2>3. CASE j \notin Jobs
    <3>1. row' = row
      BY <1>0, <2>1, <2>3 DEF TypeOK
    <3>2. QED
      BY <2>1, <3>1, HiddenStep
  <2>4. QED
    BY <2>2, <2>3
<1>4. ASSUME NEW c \in Cancels, CancelLost(c) \/ \E j \in Jobs : CancelDispatch(c, j)
      PROVE  [Lifecycle!Next]_view
  BY <1>4, HiddenStep DEF CancelLost, CancelDispatch
<1>5. QED
  BY <1>1, <1>2, <1>3, <1>4 DEF Intake, CancelApi

\* A step of Temporal is a step of the lifecycle or changes none of it.
LEMMA TemporalView == Inv /\ Temporal => [Lifecycle!Next]_view
BY HiddenStep DEF Temporal, DeliverCancel, LoseAttempt

\* A step of an activity is a step of the lifecycle or changes none of it.
LEMMA WorkView ==
    ASSUME Inv, NEW j \in Jobs, NEW n \in AttemptIds, Work(j, n)
    PROVE  [Lifecycle!Next]_view
<1>0. /\ TypeOK /\ JobInv(row[j], wf[j], att[j], told[j], outputs[j])
      /\ row[j] \in Rows /\ told[j] \in SUBSET Statuses /\ wf[j] \in Workflow
      /\ outputs[j] \in Nat
  BY DEF Inv, TypeOK
<1>1. CASE PrepareMark(j, n)
  BY <1>0, <1>1, LedgerMoves, RowStep DEF PrepareMark
<1>2. CASE PrepareReturn(j, n)
  <2> DEFINE u == told[j] \cup {"running"}
  <2>1. u \cap Terminal = told[j] \cap Terminal
    BY DEF Terminal
  <2>2. ViewMoves(row[j], told[j], outputs[j], row[j], u, outputs[j])
    BY <2>1 DEF ViewMoves, SameView
  <2>3. told' = [told EXCEPT ![j] = u] /\ UNCHANGED <<row, outputs>>
    BY <1>2 DEF PrepareReturn
  <2> HIDE DEF u
  <2>4. QED
    BY <1>0, <2>2, <2>3, ToldStep
<1>3. CASE GenerateStart(j, n) \/ GenerateCanceled(j, n)
           \/ \E out \in Outcomes : GenerateReturn(j, n, out)
  BY <1>3, HiddenStep DEF GenerateStart, GenerateCanceled, GenerateReturn
<1>4. CASE FinalizeCommit(j, n)
  <2>1. /\ row' = [row EXCEPT ![j] = Settle(row[j], wf[j].out, TRUE)]
        /\ UNCHANGED <<told, outputs>>
        /\ att[j]["finalize"][n] # "idle"
    BY <1>4 DEF FinalizeCommit, Step
  <2>2. wf[j].out \in Outcomes
    BY <1>0, <2>1 DEF JobInv, Workflow
  <2>3. ViewMoves(row[j], told[j], outputs[j], Settle(row[j], wf[j].out, TRUE), told[j], outputs[j])
    BY <1>0, <2>2, LedgerMoves
  <2>4. QED
    BY <1>0, <2>1, <2>3, RowStep
<1>5. CASE FinalizeNotify(j, n)
  <2> DEFINE u == told[j] \cup {wf[j].out}
  <2>1. told' = [told EXCEPT ![j] = u] /\ UNCHANGED <<row, outputs>>
        /\ att[j]["finalize"][n] = "settled"
    BY <1>5 DEF FinalizeNotify, Step
  <2>2. row[j].status = wf[j].out /\ wf[j].out \in Terminal
    BY <1>0, <2>1 DEF JobInv, Holding, Workflow, Outcomes, Terminal
  <2>3. u \cap Terminal = {row[j].status}
    BY <1>0, <2>2 DEF JobInv
  <2>4. ViewMoves(row[j], told[j], outputs[j], row[j], u, outputs[j])
    BY <2>2, <2>3 DEF ViewMoves, Announces
  <2> HIDE DEF u
  <2>5. QED
    BY <1>0, <2>1, <2>4, ToldStep
<1>6. CASE FinalizeReturn(j, n)
  <2>1. PICK written \in {0, 1} :
          /\ outputs' = [outputs EXCEPT ![j] = outputs[j] + written]
          /\ written = 1 => att[j]["finalize"][n] = "notified" /\ wf[j].out = "completed"
    <3> DEFINE first == att[j]["finalize"][n] = "notified" /\ wf[j].out = "completed"
    <3>1. \E written \in IF first THEN {0, 1} ELSE {0} :
             outputs' = [outputs EXCEPT ![j] = outputs[j] + written]
      BY <1>6 DEF FinalizeReturn
    <3>2. CASE first
      BY <3>1, <3>2
    <3>3. CASE ~first
      <4> HIDE DEF first
      <4>1. outputs' = [outputs EXCEPT ![j] = outputs[j] + 0]
        BY <3>1, <3>3
      <4>2. QED
        BY <4>1
    <3>4. QED
      BY <3>2, <3>3
  <2>2. UNCHANGED <<row, told>>
    BY <1>6 DEF FinalizeReturn
  <2>3. CASE written = 0
    <3>1. outputs' = outputs
      BY <1>0, <2>1, <2>3 DEF TypeOK
    <3>2. QED
      BY <2>2, <3>1, HiddenStep
  <2>4. CASE written = 1
    <3>1. /\ outputs[j] = 0 /\ wf[j].out = "completed" /\ row[j].status = "completed"
          /\ told[j] \cap Terminal \subseteq {"completed"} /\ "completed" \in told[j]
      BY <1>0, <2>1, <2>4 DEF JobInv, Holding
    <3>2. told[j] \cap Terminal = {"completed"}
      BY <3>1 DEF Terminal
    <3>3. outputs'[j] = 1 /\ \A k \in Jobs \ {j} : outputs'[k] = outputs[k]
      BY <1>0, <2>1, <2>4, <3>1 DEF TypeOK
    <3>4. JobMoves(j)
      BY <2>2, <3>1, <3>2, <3>3 DEF JobMoves, ViewMoves, Publishes, SameView
    <3>5. QED
      BY <3>4, MoveIsStep
  <2>5. QED
    BY <2>3, <2>4
<1>7. CASE FailSettle(j, n)
  BY <1>0, <1>7, LedgerMoves, RowStep DEF FailSettle, Outcomes
<1>8. CASE FailReturn(j, n)
  <2>1. CASE att[j]["fail"][n] = "settled"
    <3> DEFINE u == told[j] \cup {"failed"}
    <3>1. told' = [told EXCEPT ![j] = u] /\ UNCHANGED <<row, outputs>>
      BY <1>8, <2>1 DEF FailReturn
    <3>2. row[j].status = "failed"
      BY <1>0, <2>1 DEF JobInv
    <3>3. u \cap Terminal = {row[j].status} /\ row[j].status \in Terminal
      BY <1>0, <3>2 DEF JobInv, Terminal
    <3>4. ViewMoves(row[j], told[j], outputs[j], row[j], u, outputs[j])
      BY <3>3 DEF ViewMoves, Announces
    <3> HIDE DEF u
    <3>5. QED
      BY <1>0, <3>1, <3>4, ToldStep
  <2>2. CASE att[j]["fail"][n] # "settled"
    BY <1>8, <2>2, HiddenStep DEF FailReturn
  <2>3. QED
    BY <2>1, <2>2
<1>9. CASE SettleCanceled(j, n)
  <2>1. row' = [row EXCEPT ![j] = Settle(row[j], "canceled", FALSE)] /\ UNCHANGED <<told, outputs>>
    BY <1>9 DEF SettleCanceled
  <2>2. QED
    BY <1>0, <2>1, LedgerMoves, RowStep DEF Outcomes
<1>10. QED
  BY <1>1, <1>2, <1>3, <1>4, <1>5, <1>6, <1>7, <1>8, <1>9 DEF Work

\* Every step is a step of the lifecycle or changes none of it.
LEMMA NextView == Inv /\ [Next]_vars => [Lifecycle!Next]_view
<1>1. ASSUME UNCHANGED vars PROVE UNCHANGED view
  BY <1>1, HiddenStep DEF vars
<1>2. QED
  BY <1>1, ApiView, TemporalView, WorkView DEF Next

(* The jobs implement JobLifecycle for any set of calls, keys, retry policies  *)
(* and losses: nothing the intake, the cancel endpoint and the workers do can  *)
(* be seen as anything but one legal life of each job.                        *)
THEOREM JobsImplementLifecycle == Spec => ImplementsLifecycle
<1>1. Spec => Lifecycle!Init /\ [][Lifecycle!Next]_view
  BY InitView, NextView, Invariance, PTL DEF Spec
<1>2. ImplementsLifecycle <=> Lifecycle!Init /\ [][Lifecycle!Next]_view
  BY DEF ImplementsLifecycle, Lifecycle!Spec, view
<1>3. QED
  BY <1>1, <1>2, PTL
==============================================================================
