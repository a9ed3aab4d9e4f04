----------------------------- MODULE JobLifecycle ----------------------------
(* What a reader of the jobs API may rely on, whatever intake, cancel and     *)
(* workers do: a job is accepted once, may run, is closed once and for good,  *)
(* is announced as what it is, and publishes outputs once, only after it was  *)
(* announced as completed.                                                    *)
CONSTANT Jobs

VARIABLES status, announced, published

Live     == {"pending", "running"}
Terminal == {"completed", "failed", "canceled"}

Init ==
    /\ status    = [j \in Jobs |-> "absent"]
    /\ announced = [j \in Jobs |-> {}]
    /\ published = [j \in Jobs |-> FALSE]

Accept(j) ==
    /\ status[j] = "absent"
    /\ status' = [status EXCEPT ![j] = "pending"]
    /\ UNCHANGED <<announced, published>>

Begin(j) ==
    /\ status[j] = "pending"
    /\ status' = [status EXCEPT ![j] = "running"]
    /\ UNCHANGED <<announced, published>>

Close(j) ==
    /\ status[j] \in Live
    /\ \E s \in Terminal : status' = [status EXCEPT ![j] = s]
    /\ UNCHANGED <<announced, published>>

Announce(j) ==
    /\ status[j] \in Terminal
    /\ announced' = [announced EXCEPT ![j] = {status[j]}]
    /\ UNCHANGED <<status, published>>

Publish(j) ==
    /\ announced[j] = {"completed"}
    /\ ~published[j]
    /\ published' = [published EXCEPT ![j] = TRUE]
    /\ UNCHANGED <<status, announced>>

Next == \E j \in Jobs : Accept(j) \/ Begin(j) \/ Close(j) \/ Announce(j) \/ Publish(j)

Spec == Init /\ [][Next]_<<status, announced, published>>
==============================================================================
