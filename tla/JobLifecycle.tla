---------------------------- MODULE JobLifecycle ----------------------------
(***************************************************************************)
(* What the cleanup queue promises its producers about one job, with no    *)
(* word about workers, batches or backends: a job is submitted at most     *)
(* once, it is started at most MaxAttempts times, each start is followed   *)
(* by exactly one of completion, retry and dead-lettering, and only a job  *)
(* that used up its attempts is dead-lettered.                             *)
(***************************************************************************)
EXTENDS Naturals

CONSTANTS Jobs,          \* dedupe keys
          MaxAttempts    \* settings.cleanup_job_max_attempts

VARIABLES status,        \* [Jobs -> state of the job's document]
          attempts       \* [Jobs -> number of starts]

vars == <<status, attempts>>

Init ==
    /\ status = [j \in Jobs |-> "absent"]
    /\ attempts = [j \in Jobs |-> 0]

Move(j, from, to) ==
    /\ status[j] = from
    /\ status' = [status EXCEPT ![j] = to]

Submit(j) == Move(j, "absent", "pending") /\ UNCHANGED attempts

Start(j) ==
    /\ Move(j, "pending", "running")
    /\ attempts[j] < MaxAttempts
    /\ attempts' = [attempts EXCEPT ![j] = @ + 1]

Complete(j) == Move(j, "running", "completed") /\ UNCHANGED attempts

Retry(j) ==
    /\ Move(j, "running", "pending")
    /\ attempts[j] < MaxAttempts
    /\ UNCHANGED attempts

DeadLetter(j) ==
    /\ Move(j, "running", "dead_letter")
    /\ attempts[j] = MaxAttempts
    /\ UNCHANGED attempts

Next == \E j \in Jobs :
    Submit(j) \/ Start(j) \/ Complete(j) \/ Retry(j) \/ DeadLetter(j)

Spec == Init /\ [][Next]_vars
=============================================================================
