----------------------------- MODULE MCAgentJob ------------------------------
(* AgentJob on small instances. *)
EXTENDS AgentJob, TLC

CONSTANTS r1, r2, r3, k1, h1, h2

(* Two calls that repeat one POST and a third that reuses its key for other  *)
(* input.                                                                     *)
MCKey       == [r \in Requests |-> k1]
MCInputHash == [r \in Requests |-> IF r = r3 THEN h2 ELSE h1]

(* Contract values are 5, 3, 5, 5, 5: two attempts are the least at which a   *)
(* retry and an exhausted policy both happen.                                 *)
MCMaxAttempts == [a \in Activities |-> 2]
==============================================================================
