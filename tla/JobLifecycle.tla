---------------------------- MODULE JobLifecycle ----------------------------
(***************************************************************************)
(* What the job queue promises to the one who submits a job, with no word  *)
(* of processes, leases or locks: a job waits, is worked on in numbered     *)
(* attempts, may go back to waiting any number of times, and ends once,     *)
(* with the outcome of its last attempt.                                    *)
(***************************************************************************)
EXTENDS Naturals

CONSTANT Jobs

VARIABLES status, attempt, writer

vars == <<status, attempt, writer>>

Init == /\ status = [j \in Jobs |-> "none"]
        /\ attempt = [j \in Jobs |-> 0]
        /\ writer = [j \in Jobs |-> 0]

Move(j, from, to) == /\ status[j] = from
                     /\ status' = [status EXCEPT ![j] = to]

Submit(j) == Move(j, "none", "queued") /\ UNCHANGED <<attempt, writer>>

Withdraw(j) == Move(j, "queued", "cancelled") /\ UNCHANGED <<attempt, writer>>

\* An attempt begins.
Start(j) == /\ Move(j, "queued", "running")
            /\ attempt' = [attempt EXCEPT ![j] = @ + 1]
            /\ UNCHANGED writer

\* An attempt begins and ends at once, for a job that cannot be read.
Refuse(j) == /\ Move(j, "queued", "failed")
             /\ attempt' = [attempt EXCEPT ![j] = @ + 1]
             /\ writer' = [writer EXCEPT ![j] = attempt[j] + 1]

\* The attempt under way gives the job its outcome.
Conclude(j, outcome) == /\ Move(j, "running", outcome)
                        /\ writer' = [writer EXCEPT ![j] = attempt[j]]
                        /\ UNCHANGED attempt

\* Attempts under way are given up, several at a time.
Requeue(S) == /\ \A j \in S : status[j] = "running"
              /\ status' = [j \in Jobs |-> IF j \in S THEN "queued"
                                                      ELSE status[j]]
              /\ UNCHANGED <<attempt, writer>>

Next == \/ \E j \in Jobs : Submit(j) \/ Withdraw(j) \/ Start(j) \/ Refuse(j)
        \/ \E j \in Jobs, outcome \in {"succeeded", "failed"} : Conclude(j, outcome)
        \/ \E S \in SUBSET Jobs : Requeue(S)

Spec == Init /\ [][Next]_vars
=============================================================================
