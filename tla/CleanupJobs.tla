----------------------------- MODULE CleanupJobs -----------------------------
(***************************************************************************)
(* The asynchronous cleanup queue: the cleanup_jobs collection, the        *)
(* producers that enqueue into it and the workers (one asyncio task per    *)
(* application process) that drain it.  A worker step is the code between  *)
(* two awaits, so a worker can be overtaken, cancelled or hit by a         *)
(* database error at every await.                                          *)
(*                                                                         *)
(* A job is named by its dedupe key, which is unique.  The time stamps of  *)
(* a job are abstracted to `ready': the pending jobs whose available_at    *)
(* has come, in the order of run_once's sort.                              *)
(***************************************************************************)
EXTENDS Naturals, SequencesExt

CONSTANTS
    Jobs,            \* dedupe keys
    RoomJobs,        \* the jobs of type room_delete_cleanup
    Messages,        \* message ids
    Payload,         \* [Jobs -> the message_ids of the job's payload]
    Workers,         \* application processes
    MaxAttempts,     \* settings.cleanup_job_max_attempts
    Limit,           \* run_once's limit
    TypesenseOpen,   \* typesense.fail_policy = "open"
    AuthzOpen,       \* dragonfly.fail_policy.authz_cache = "open"
    MaxFaults        \* bound: database errors and worker shutdowns

ASSUME JobsAssumption ==
    /\ RoomJobs \subseteq Jobs
    /\ Payload \in [Jobs -> Seq(Messages)]
    /\ \A j \in Jobs \ RoomJobs : Len(Payload[j]) = 1
ASSUME BoundsAssumption ==
    /\ MaxAttempts \in Nat \ {0}
    /\ Limit \in Nat \ {0}
    /\ MaxFaults \in Nat
ASSUME PolicyAssumption == TypesenseOpen \in BOOLEAN /\ AuthzOpen \in BOOLEAN

VARIABLES
    jobs,         \* [Jobs -> the job's document: status and attempts]
    ready,        \* pending jobs that are due, ordered by (available_at, created_at)
    worker,       \* [Workers -> where the task is in run_once and _process_job]
    index,        \* messages with a Typesense document
    ownerCache,   \* messages with a cached owner
    accessCache,  \* room jobs whose room still has cached access decisions
    counters,     \* room jobs whose room still has unread counters
    faults        \* faults so far

vars == <<jobs, ready, worker, index, ownerCache, accessCache, counters, faults>>
stores == <<index, ownerCache, accessCache, counters>>

Statuses == {"absent", "pending", "running", "completed", "dead_letter"}

\* The awaits inside _process_job after the claim, in order.
Processing == {"refresh", "index", "owner", "access", "counters", "complete", "fail"}
PCs == {"idle", "stopped"} \cup Processing

\* A worker that executed nothing yet of the head of its batch.  An idle one
\* with an empty batch sleeps; with a batch it is in the loop of run_once.
At(pc, b) == [pc |-> pc, batch |-> b, attempts |-> 0, done |-> 0]
Idle(b) == At("idle", b)

Init ==
    /\ jobs = [j \in Jobs |-> [status |-> "absent", attempts |-> 0]]
    /\ ready = <<>>
    /\ worker = [w \in Workers |-> Idle(<<>>)]
    /\ index = Messages
    /\ ownerCache = Messages
    /\ accessCache = RoomJobs
    /\ counters = RoomJobs
    /\ faults = 0

-----------------------------------------------------------------------------
(* Producers and time *)

\* The job the worker is at is the head of its batch.
Job(w) == Head(worker[w].batch)
Pc(w) == worker[w].pc

\* _enqueue: the unique dedupe_key turns every later insert into a no-op that
\* returns the existing job, whatever its status.
Enqueue(j) ==
    /\ jobs[j].status = "absent"
    /\ jobs' = [jobs EXCEPT ![j].status = "pending"]
    /\ ready' = Append(ready, j)
    /\ UNCHANGED <<worker, stores, faults>>

\* The job's available_at, set by _handle_failure, is reached.
BackoffElapses(j) ==
    /\ jobs[j].status = "pending"
    /\ ~Contains(ready, j)
    /\ ready' = Append(ready, j)
    /\ UNCHANGED <<jobs, worker, stores, faults>>

-----------------------------------------------------------------------------
(* run_once and _process_job *)

\* run_once reads the due jobs; the batch is a snapshot.
Fetch(w) ==
    /\ Pc(w) = "idle" /\ worker[w].batch = <<>>
    /\ LET n == IF Len(ready) < Limit THEN Len(ready) ELSE Limit
       IN  worker' = [worker EXCEPT ![w] = Idle(SubSeq(ready, 1, n))]
    /\ UNCHANGED <<jobs, ready, stores, faults>>

\* j is no longer pending, so no later run_once finds it.
Dequeue(j) ==
    \/ \E i \in 1..Len(ready) : ready[i] = j /\ ready' = RemoveAt(ready, i)
    \/ ~Contains(ready, j) /\ UNCHANGED ready

\* Mutant: a claim that also takes over running jobs.
ClaimableTakeover(j) == jobs[j].status \in {"pending", "running"}

\* The conditional update looks at the status only: available_at is not
\* checked again.
Claimable(j) == jobs[j].status = "pending"

Claim(w) ==
    /\ Pc(w) = "idle" /\ worker[w].batch # <<>>
    /\ Claimable(Job(w))
    /\ jobs' = [jobs EXCEPT ![Job(w)] = [status |-> "running", attempts |-> @.attempts + 1]]
    /\ Dequeue(Job(w))
    /\ worker' = [worker EXCEPT ![w] = At("refresh", @.batch)]
    /\ UNCHANGED <<stores, faults>>

\* modified_count = 0: another worker has it, or had it.
Skip(w) ==
    /\ Pc(w) = "idle" /\ worker[w].batch # <<>>
    /\ ~Claimable(Job(w))
    /\ worker' = [worker EXCEPT ![w] = Idle(Tail(@.batch))]
    /\ UNCHANGED <<jobs, ready, stores, faults>>

\* Mutant: the loop over message_ids stops one short.
StepOneShort(j, n) ==
    IF n + 1 < Len(Payload[j]) THEN "index"
    ELSE IF j \in RoomJobs THEN "access" ELSE "complete"

\* Where _execute goes when n messages of j's payload are done.
Step(j, n) ==
    IF n < Len(Payload[j]) THEN "index"
    ELSE IF j \in RoomJobs THEN "access" ELSE "complete"

Refresh(w) ==
    /\ Pc(w) = "refresh"
    /\ worker' = [worker EXCEPT ![w].pc = Step(Job(w), 0),
                                ![w].attempts = jobs[Job(w)].attempts]
    /\ UNCHANGED <<jobs, ready, stores, faults>>

\* The message the loop of _execute is at.
Current(w) == Payload[Job(w)][worker[w].done + 1]

\* A backend call removes `gone' from its store and goes on, or fails: then
\* it may or may not have been applied, and the fail policy decides between
\* going on and raising the HTTPException that _process_job catches.
Call(w, at, to, store, gone, open) ==
    /\ Pc(w) = at
    /\ \E applied, ok \in BOOLEAN :
        /\ ok => applied
        /\ store' = IF applied THEN store \ {gone} ELSE store
        /\ worker' = [worker EXCEPT ![w].pc = IF ok \/ open THEN to ELSE "fail",
                                    ![w].done = IF at = "owner" THEN @ + 1 ELSE @]
    /\ UNCHANGED <<jobs, ready, faults>>

DeleteMessage(w) ==
    /\ Call(w, "index", "owner", index, Current(w), TypesenseOpen)
    /\ UNCHANGED <<ownerCache, accessCache, counters>>

InvalidateOwner(w) ==
    /\ Call(w, "owner", Step(Job(w), worker[w].done + 1),
            ownerCache, Current(w), AuthzOpen)
    /\ UNCHANGED <<index, accessCache, counters>>

InvalidateAccess(w) ==
    /\ Call(w, "access", "counters", accessCache, Job(w), AuthzOpen)
    /\ UNCHANGED <<index, ownerCache, counters>>

\* A database error here is not in _process_job's except clause: DatabaseError.
RemoveCounters(w) ==
    /\ Pc(w) = "counters"
    /\ counters' = counters \ {Job(w)}
    /\ worker' = [worker EXCEPT ![w].pc = "complete"]
    /\ UNCHANGED <<jobs, ready, index, ownerCache, accessCache, faults>>

\* Both final updates name the job by _id only.
Finish(w, s) ==
    /\ jobs' = [jobs EXCEPT ![Job(w)].status = s]
    /\ worker' = [worker EXCEPT ![w] = Idle(Tail(@.batch))]
    /\ UNCHANGED <<ready, stores, faults>>

Complete(w) == Pc(w) = "complete" /\ Finish(w, "completed")

\* Mutant: one attempt too many.
HandleFailureOffByOne(w) ==
    /\ Pc(w) = "fail"
    /\ Finish(w, IF worker[w].attempts > MaxAttempts THEN "dead_letter" ELSE "pending")

\* Mutant: dead-letters without regard to attempts.
HandleFailureNoRetry(w) == Pc(w) = "fail" /\ Finish(w, "dead_letter")

\* Mutant: the retried job is left in status running.
HandleFailureNoReset(w) ==
    /\ Pc(w) = "fail"
    /\ Finish(w, IF worker[w].attempts >= MaxAttempts THEN "dead_letter" ELSE "running")

\* _handle_failure: the retried job waits for BackoffElapses.
HandleFailure(w) ==
    /\ Pc(w) = "fail"
    /\ Finish(w, IF worker[w].attempts >= MaxAttempts THEN "dead_letter" ELSE "pending")

-----------------------------------------------------------------------------
(* Faults *)

\* PyMongoError out of a database call: _run logs it and starts over.
DatabaseError(w) ==
    /\ faults < MaxFaults
    /\ Pc(w) \in {"idle", "refresh", "counters", "complete", "fail"}
    /\ worker' = [worker EXCEPT ![w] = Idle(<<>>)]
    /\ faults' = faults + 1
    /\ UNCHANGED <<jobs, ready, stores>>

\* The task is cancelled at its await, by shutdown or with its process.
Shutdown(w) ==
    /\ faults < MaxFaults
    /\ Pc(w) # "stopped"
    /\ worker' = [worker EXCEPT ![w] = At("stopped", <<>>)]
    /\ faults' = faults + 1
    /\ UNCHANGED <<jobs, ready, stores>>

Startup(w) ==
    /\ Pc(w) = "stopped"
    /\ worker' = [worker EXCEPT ![w] = Idle(<<>>)]
    /\ UNCHANGED <<jobs, ready, stores, faults>>

-----------------------------------------------------------------------------
WorkerStep(w) ==
    \/ Fetch(w) \/ Claim(w) \/ Skip(w) \/ Refresh(w)
    \/ DeleteMessage(w) \/ InvalidateOwner(w) \/ InvalidateAccess(w)
    \/ RemoveCounters(w) \/ Complete(w) \/ HandleFailure(w) \/ Startup(w)

Next ==
    \/ \E j \in Jobs : Enqueue(j) \/ BackoffElapses(j)
    \/ \E w \in Workers : WorkerStep(w) \/ DatabaseError(w) \/ Shutdown(w)

Spec == Init /\ [][Next]_vars

\* Tasks of the event loop run, stopped processes are started again and the
\* clock advances; producers and backends owe nothing.
Fairness ==
    /\ \A w \in Workers : WF_vars(WorkerStep(w))
    /\ \A j \in Jobs : WF_vars(BackoffElapses(j))

FairSpec == Spec /\ Fairness

-----------------------------------------------------------------------------
\* The documents and the workers stay in their types: no job is started more
\* than max_attempts times.
TypeOK ==
    /\ jobs \in [Jobs -> [status : Statuses, attempts : 0..MaxAttempts]]
    /\ ready \in Seq(Jobs)
    /\ worker \in [Workers -> [pc : PCs, batch : Seq(Jobs), attempts : 0..MaxAttempts, done : Nat]]
    /\ index \subseteq Messages /\ ownerCache \subseteq Messages
    /\ accessCache \subseteq RoomJobs /\ counters \subseteq RoomJobs
    /\ faults \in 0..MaxFaults

IsProcessing(w) == Pc(w) \in Processing

\* Although several processes fetch overlapping batches, a job is executed by
\* at most one worker at a time: the claim in _process_job is exclusive, also
\* across retries and after a worker lost its job to a fault.
ExclusiveExecution ==
    \A v, w \in Workers :
        v # w /\ IsProcessing(v) /\ IsProcessing(w) => Job(v) # Job(w)

\* A completed job did its work: nothing of its payload is left in a store
\* whose fail policy does not allow to ignore errors, whatever attempts
\* failed or were cut off half way before the one that completed.
CompletedIsClean ==
    \A j \in Jobs : jobs[j].status = "completed" =>
        /\ ~TypesenseOpen => \A i \in DOMAIN Payload[j] : Payload[j][i] \notin index
        /\ ~AuthzOpen =>
            /\ \A i \in DOMAIN Payload[j] : Payload[j][i] \notin ownerCache
            /\ j \notin accessCache
        /\ j \notin counters

\* The queue keeps its promise to producers: the collection's documents
\* follow the life cycle of JobLifecycle, with stale batches, retries and
\* faults of any number of workers.
Lifecycle == INSTANCE JobLifecycle WITH
    status <- [j \in Jobs |-> jobs[j].status],
    attempts <- [j \in Jobs |-> jobs[j].attempts]
LifecycleSpec == Lifecycle!Spec

\* "retry/backoff and dead-letter" (README.md:85): every job enqueued for
\* cleanup is in the end completed or dead-lettered.
EveryJobSettles ==
    \A j \in Jobs : jobs[j].status = "pending"
                    ~> jobs[j].status \in {"completed", "dead_letter"}

\* A running job that no worker is processing after a fault, which struck
\* between the claim and the outcome: nothing fetches it again.
Abandoned(j) ==
    faults > 0 /\ jobs[j].status = "running" /\ ~\E w \in Workers : IsProcessing(w) /\ Job(w) = j

\* Whatever the backends, the backoff and the batches of other workers do, an
\* enqueued job is in the end completed or dead-lettered, unless a fault
\* leaves it running with nobody at work on it.
SettlesOrIsAbandoned ==
    \A j \in Jobs : jobs[j].status = "pending"
        ~> jobs[j].status \in {"completed", "dead_letter"} \/ Abandoned(j)
=============================================================================
