----------------------------- MODULE MCChatTurn ------------------------------
(* ChatTurn on small instances. *)
EXTENDS ChatTurn, TLC

CONSTANTS r1, r2, r3, r4, k1, k2, h1, h2, c1

(* r2 repeats the client request id and the input of r1, r4 the id alone; r3   *)
(* is another turn, older than the row of any of them.                        *)
MCKey       == [r \in Requests |-> IF r = r3 THEN k2 ELSE k1]
MCInputHash == [r \in Requests |-> IF r = r4 THEN h2 ELSE h1]
MCCreated   == [r \in Requests |-> IF r = r3 THEN 1 ELSE 2]
MCAttempts  == 1 .. 2
MCOneAttempt == 1 .. 1

Scene(requests, cancels, lost, errors, stale, restarts) ==
    [requests |-> requests, cancels |-> cancels,
     faults |-> [lost |-> lost, errors |-> errors, stale |-> stale, restarts |-> restarts]]

(* Racing and repeated POSTs, with an expired lease and a worker start.  Two    *)
(* turns, a cancel and an expired lease, with a lost attempt, and with a failed *)
(* attempt and a worker start.  One turn with every fault.                      *)
MCSafety == {Scene({r1, r2, r3, r4}, {}, 0, 0, 1, 1),
             Scene({r1, r3}, {c1}, 1, 0, 1, 0),
             Scene({r1, r3}, {c1}, 0, 1, 1, 1),
             Scene({r1}, {c1}, 1, 1, 1, 1)}

MCLiveness == {Scene({r1, r3}, {c1}, 1, 0, 0, 0)}   \* the loss is final: one attempt
MCContinue == {Scene({r1, r3}, {}, 0, 0, 0, 0)}     \* no fault, a child per run
MCPartial  == {Scene({r1}, {c1}, 0, 0, 0, 0)}       \* a cancel of a streaming turn
MCCancel   == {Scene({r1}, {c1}, 0, 1, 0, 0)}       \* its first attempt has failed
==============================================================================
