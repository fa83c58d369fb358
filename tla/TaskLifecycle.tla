---------------------------- MODULE TaskLifecycle ----------------------------
(***************************************************************************)
(* What the clients of durable tasks are promised: a task is accepted once *)
(* and ends at most once, whoever ends it; a task whose cancellation was   *)
(* accepted does not complete; what ended stays as it ended until its time *)
(* to live is over and it is forgotten.                                    *)
(***************************************************************************)
CONSTANT Tasks

VARIABLES
  status,  \* of each task: "none", "working", how it ended, or "gone"
  cancel   \* whether its cancellation was accepted

Init == status = [t \in Tasks |-> "none"] /\ cancel = [t \in Tasks |-> FALSE]

Accept(t) ==
  /\ status[t] = "none"
  /\ status' = [status EXCEPT ![t] = "working"] /\ UNCHANGED cancel

AcceptCancel(t) ==
  /\ status[t] = "working"
  /\ cancel' = [cancel EXCEPT ![t] = TRUE]
  /\ status' \in {status, [status EXCEPT ![t] = "cancelled"]}

\* One step may end several tasks: a restart, or the recovery of dead workers.
End ==
  /\ status' \in [Tasks -> {"none", "working", "completed", "failed", "cancelled", "gone"}]
  /\ \A t \in Tasks : status'[t] # status[t] =>
       /\ status[t] = "working"
       /\ \/ status'[t] = "completed" /\ ~ cancel[t]
          \/ status'[t] = "cancelled" /\ cancel[t]
          \/ status'[t] = "failed"
  /\ UNCHANGED cancel

Forget ==
  /\ \E gone \in SUBSET {t \in Tasks : status[t] # "none"} :
       status' = [t \in Tasks |-> IF t \in gone THEN "gone" ELSE status[t]]
  /\ UNCHANGED cancel

Next == End \/ Forget \/ \E t \in Tasks : Accept(t) \/ AcceptCancel(t)

Spec == Init /\ [][Next]_<<status, cancel>>

=============================================================================
