-------------------------- MODULE CleanupJobs_proofs --------------------------
(***************************************************************************)
(* Safety of the cleanup queue for any jobs, payloads, workers, attempts   *)
(* and fail policies, and any number of faults.                            *)
(***************************************************************************)
EXTENDS CleanupJobs, TLAPS

\* What a worker inside _process_job knows about its job.
Holds(w) ==
    /\ worker[w].batch # <<>>
    /\ jobs[Job(w)].status = "running"
    /\ jobs[Job(w)].attempts > 0
    /\ Pc(w) # "refresh" => worker[w].attempts = jobs[Job(w)].attempts

\* What _execute has done of j's payload when it is at pc with n messages done.
Done(j, pc, n) ==
    /\ pc = "refresh" => n = 0
    /\ pc \in {"index", "owner"} => n < Len(Payload[j])
    /\ pc \in {"access", "counters", "complete"} => n = Len(Payload[j])
    /\ pc \in {"access", "counters"} => j \in RoomJobs
    /\ ~TypesenseOpen =>
        /\ \A i \in 1..n : Payload[j][i] \notin index
        /\ pc = "owner" => Payload[j][n + 1] \notin index
    /\ ~AuthzOpen =>
        /\ \A i \in 1..n : Payload[j][i] \notin ownerCache
        /\ pc \in {"counters", "complete"} => j \notin accessCache
    /\ pc = "complete" => j \notin counters

Progress(w) == Done(Job(w), Pc(w), worker[w].done)

\* The attempts a job has used up, by status.
Accounted(j) ==
    /\ jobs[j].status = "absent" => jobs[j].attempts = 0
    /\ jobs[j].status = "pending" => jobs[j].attempts < MaxAttempts

HoldsAll == \A w \in Workers : IsProcessing(w) => Holds(w)
ProgressAll == \A w \in Workers : Pc(w) \in Processing \ {"fail"} => Progress(w)
AccountedAll == \A j \in Jobs : Accounted(j)

IInv ==
    /\ TypeOK
    /\ HoldsAll
    /\ ExclusiveExecution
    /\ AccountedAll
    /\ ProgressAll
    /\ CompletedIsClean

-----------------------------------------------------------------------------
(* Sequences *)

\* A queue with one entry removed is a queue.
LEMMA DropAt ==
    ASSUME NEW S, NEW s \in Seq(S), NEW i \in 1..Len(s)
    PROVE  RemoveAt(s, i) \in Seq(S)
BY DEF RemoveAt

\* What one fetch takes from the ready queue is a batch.
LEMMA Prefix ==
    ASSUME NEW S, NEW s \in Seq(S), NEW n \in Nat, n <= Len(s)
    PROVE  SubSeq(s, 1, n) \in Seq(S)
OBVIOUS

-----------------------------------------------------------------------------
(* Updates of one document and of one worker *)

JobDoc == [status : Statuses, attempts : 0..MaxAttempts]
WorkerState == [pc : PCs, batch : Seq(Jobs), attempts : 0..MaxAttempts, done : Nat]

\* Updating the status of a job leaves its attempts and the other jobs alone.
LEMMA SetStatus ==
    ASSUME NEW f \in [Jobs -> JobDoc], NEW j \in Jobs, NEW s \in Statuses
    PROVE  LET g == [f EXCEPT ![j].status = s]
           IN  /\ g \in [Jobs -> JobDoc]
               /\ g[j].status = s /\ g[j].attempts = f[j].attempts
               /\ \A k \in Jobs \ {j} : g[k] = f[k]
<1>1. f[j] \in JobDoc
  OBVIOUS
<1>2. [f[j] EXCEPT !.status = s] = [status |-> s, attempts |-> f[j].attempts]
  BY <1>1 DEF JobDoc
<1> QED BY <1>1, <1>2 DEF JobDoc

\* Moving one worker leaves the others where they are.
LEMMA SetWorker ==
    ASSUME TypeOK, NEW w \in Workers, NEW r \in WorkerState,
           worker' = [worker EXCEPT ![w] = r]
    PROVE  /\ worker' \in [Workers -> WorkerState]
           /\ worker'[w] = r
           /\ \A v \in Workers \ {w} : worker'[v] = worker[v]
BY DEF TypeOK, WorkerState

\* The step of _process_job that follows n handled messages.
LEMMA StepTo ==
    ASSUME NEW j \in Jobs, NEW n \in Nat, n <= Len(Payload[j])
    PROVE  \/ Step(j, n) = "index" /\ n < Len(Payload[j])
           \/ Step(j, n) = "access" /\ n = Len(Payload[j]) /\ j \in RoomJobs
           \/ Step(j, n) = "complete" /\ n = Len(Payload[j]) /\ j \notin RoomJobs
<1>1. Len(Payload[j]) \in Nat
  BY JobsAssumption
<1> QED BY <1>1 DEF Step

-----------------------------------------------------------------------------
\* The invariant holds before any job is enqueued.
LEMMA InitIInv == Init => IInv
BY JobsAssumption, BoundsAssumption
   DEF Init, IInv, TypeOK, HoldsAll, ExclusiveExecution, AccountedAll, Accounted,
       ProgressAll, CompletedIsClean, IsProcessing, Pc, Idle, At, PCs, Processing, Statuses

\* The actions after which w is outside _process_job and the documents and
\* stores are as before.
LEMMA Leaves ==
    ASSUME IInv, NEW w \in Workers, NEW b \in Seq(Jobs),
           NEW p \in {"idle", "stopped"},
           worker' = [worker EXCEPT ![w] = At(p, b)],
           UNCHANGED <<jobs, ready, stores>>,
           faults' \in 0..MaxFaults
    PROVE  IInv'
<1> USE DEF IInv
<1>0. worker'[w].pc \in {"idle", "stopped"} /\ \A v \in Workers \ {w} : worker'[v] = worker[v]
  BY DEF TypeOK, At
<1>1. TypeOK'
  BY BoundsAssumption DEF TypeOK, At, PCs, stores
<1>2. HoldsAll'
  BY <1>0 DEF HoldsAll, Holds, IsProcessing, Pc, Job, Processing
<1>3. ExclusiveExecution'
  BY <1>0 DEF ExclusiveExecution, IsProcessing, Pc, Job, Processing
<1>4. AccountedAll'
  BY DEF AccountedAll, Accounted
<1>5. ProgressAll'
  BY <1>0 DEF ProgressAll, Progress, Done, Pc, Job, Processing, stores
<1>6. CompletedIsClean'
  BY DEF CompletedIsClean, stores
<1> QED BY <1>1, <1>2, <1>3, <1>4, <1>5, <1>6

\* Taking a batch keeps the invariant: nothing is claimed yet.
LEMMA FetchIInv ==
    ASSUME IInv, NEW w \in Workers, Fetch(w)
    PROVE  IInv'
<1> DEFINE n == IF Len(ready) < Limit THEN Len(ready) ELSE Limit
<1>1. SubSeq(ready, 1, n) \in Seq(Jobs)
  BY Prefix, BoundsAssumption DEF IInv, TypeOK
<1>2. worker' = [worker EXCEPT ![w] = At("idle", SubSeq(ready, 1, n))]
  BY DEF Fetch, Idle
<1>3. UNCHANGED <<jobs, ready, stores>> /\ faults' \in 0..MaxFaults
  BY DEF Fetch, IInv, TypeOK
<1> QED BY <1>1, <1>2, <1>3, Leaves

\* Leaving a job, by skipping it or by stopping the worker, keeps the invariant.
LEMMA LeavingIInv ==
    ASSUME IInv, NEW w \in Workers,
           Skip(w) \/ Startup(w) \/ DatabaseError(w) \/ Shutdown(w)
    PROVE  IInv'
<1>1. CASE Skip(w)
  <2>1. Tail(worker[w].batch) \in Seq(Jobs)
    BY <1>1 DEF Skip, IInv, TypeOK
  <2>2. worker' = [worker EXCEPT ![w] = At("idle", Tail(worker[w].batch))]
    BY <1>1 DEF Skip, Idle
  <2>3. UNCHANGED <<jobs, ready, stores>> /\ faults' \in 0..MaxFaults
    BY <1>1 DEF Skip, IInv, TypeOK
  <2> QED BY <2>1, <2>2, <2>3, Leaves
<1>2. CASE Startup(w) \/ DatabaseError(w) \/ Shutdown(w)
  <2>1. <<>> \in Seq(Jobs)
    OBVIOUS
  <2>2. \E p \in {"idle", "stopped"} : worker' = [worker EXCEPT ![w] = At(p, <<>>)]
    BY <1>2 DEF Startup, DatabaseError, Shutdown, Idle
  <2>3. UNCHANGED <<jobs, ready, stores>> /\ faults' \in 0..MaxFaults
    BY <1>2, BoundsAssumption DEF Startup, DatabaseError, Shutdown, IInv, TypeOK
  <2> QED BY <2>1, <2>2, <2>3, Leaves
<1> QED BY <1>1, <1>2

\* A job that enters the ready queue, new or after its backoff, keeps the invariant.
LEMMA EnqueueIInv ==
    ASSUME IInv, NEW j \in Jobs, Enqueue(j) \/ BackoffElapses(j)
    PROVE  IInv'
<1> USE DEF IInv
<1>0. /\ UNCHANGED <<worker, stores, faults>>
      /\ ready' = Append(ready, j)
      /\ \/ jobs' = jobs
         \/ jobs[j].status = "absent" /\ jobs' = [jobs EXCEPT ![j].status = "pending"]
  BY DEF Enqueue, BackoffElapses
<1>a. /\ jobs' \in [Jobs -> JobDoc]
      /\ \/ jobs' = jobs
         \/ /\ jobs[j].status = "absent"
            /\ jobs'[j].status = "pending" /\ jobs'[j].attempts = jobs[j].attempts
            /\ \A k \in Jobs \ {j} : jobs'[k] = jobs[k]
  <2>1. jobs \in [Jobs -> JobDoc] /\ "pending" \in Statuses
    BY DEF TypeOK, JobDoc, Statuses
  <2>2. CASE jobs' = jobs
    BY <2>1, <2>2
  <2>3. CASE jobs[j].status = "absent" /\ jobs' = [jobs EXCEPT ![j].status = "pending"]
    BY <2>1, <2>3, SetStatus
  <2> QED BY <1>0, <2>2, <2>3
<1>1. TypeOK'
  BY <1>0, <1>a DEF TypeOK, JobDoc, stores
<1>2. HoldsAll'
  BY <1>0, SMTT(40) DEF HoldsAll, Holds, IsProcessing, Pc, Job, Processing, TypeOK
<1>3. ExclusiveExecution'
  BY <1>0 DEF ExclusiveExecution, IsProcessing, Pc, Job, Processing
<1>4. AccountedAll'
  <2>1. \A k \in Jobs : jobs'[k] = jobs[k] => Accounted(k)'
    BY DEF AccountedAll, Accounted
  <2>2. jobs[j].status = "absent" /\ jobs'[j].status = "pending" /\ jobs'[j].attempts = jobs[j].attempts
        => Accounted(j)'
    BY BoundsAssumption DEF AccountedAll, Accounted
  <2> QED BY <1>a, <2>1, <2>2 DEF AccountedAll
<1>5. ProgressAll'
  BY <1>0 DEF ProgressAll, Progress, Done, Pc, Job, Processing, stores
<1>6. CompletedIsClean'
  BY <1>0 DEF CompletedIsClean, stores, TypeOK
<1> QED BY <1>1, <1>2, <1>3, <1>4, <1>5, <1>6

\* The compare-and-set from pending to running keeps at most one worker on a job.
LEMMA ClaimIInv ==
    ASSUME IInv, NEW w \in Workers, Claim(w)
    PROVE  IInv'
<1> USE DEF IInv
<1> DEFINE j == Job(w)
<1>0. /\ j \in Jobs
      /\ worker[w].batch # <<>>
      /\ jobs[j].status = "pending"
      /\ jobs' = [jobs EXCEPT ![j] = [status |-> "running", attempts |-> jobs[j].attempts + 1]]
      /\ worker' = [worker EXCEPT ![w] = At("refresh", worker[w].batch)]
      /\ UNCHANGED <<stores, faults>>
  BY DEF Claim, Claimable, Job, TypeOK
<1>a. /\ worker' \in [Workers -> WorkerState]
      /\ worker'[w] = At("refresh", worker[w].batch)
      /\ \A v \in Workers \ {w} : worker'[v] = worker[v]
  <2>1. worker[w].batch \in Seq(Jobs)
    BY DEF TypeOK
  <2>2. At("refresh", worker[w].batch) \in WorkerState
    BY <2>1, BoundsAssumption DEF WorkerState, At, PCs, Processing
  <2> QED BY <1>0, <2>2, SetWorker
<1>b. ready' \in Seq(Jobs)
  BY DropAt DEF Claim, Dequeue, TypeOK
<1>c. jobs[j].attempts + 1 \in 1..MaxAttempts
  BY <1>0, BoundsAssumption DEF AccountedAll, Accounted, TypeOK
<1>d. \A v \in Workers \ {w} : IsProcessing(v) => Job(v) # j
  BY <1>0 DEF HoldsAll, Holds
<1> HIDE DEF j
<1>e. jobs' \in [Jobs -> JobDoc]
  <2>1. [status |-> "running", attempts |-> jobs[j].attempts + 1] \in JobDoc
    BY <1>c, BoundsAssumption DEF JobDoc, Statuses
  <2> QED BY <1>0, <2>1 DEF TypeOK, JobDoc
<1>1. TypeOK'
  BY <1>0, <1>a, <1>b, <1>e DEF TypeOK, JobDoc, stores, WorkerState
<1>2. HoldsAll'
  BY <1>0, <1>a, <1>c, <1>d, SMTT(40) DEF At, HoldsAll, Holds, IsProcessing, Pc, Job, Processing, TypeOK, j
<1>3. ExclusiveExecution'
  BY <1>0, <1>a, <1>d DEF At, ExclusiveExecution, IsProcessing, Pc, Job, Processing, TypeOK, j
<1>4. AccountedAll'
  BY <1>0 DEF AccountedAll, Accounted, TypeOK
<1>5. ProgressAll'
  BY <1>0, <1>a DEF At, ProgressAll, Progress, Done, Pc, Job, Processing, stores
<1>6. CompletedIsClean'
  BY <1>0 DEF CompletedIsClean, stores, TypeOK
<1> QED BY <1>1, <1>2, <1>3, <1>4, <1>5, <1>6

\* A step of _process_job that leaves the documents alone.  The stores only
\* shrink, so what other workers and completed jobs rely on stays; what is
\* left to show of such a step is what w itself knows after it.
LEMMA Advance ==
    ASSUME IInv, NEW w \in Workers, IsProcessing(w), NEW r \in WorkerState,
           worker' = [worker EXCEPT ![w] = r],
           r.pc \in Processing \ {"refresh"},
           r.batch = worker[w].batch,
           r.attempts = jobs[Job(w)].attempts,
           r.pc = "fail" \/ Progress(w)',
           UNCHANGED <<jobs, ready, faults>>,
           index' \subseteq index, ownerCache' \subseteq ownerCache,
           accessCache' \subseteq accessCache, counters' \subseteq counters
    PROVE  IInv'
<1> USE DEF IInv
<1>0. /\ worker' \in [Workers -> WorkerState]
      /\ worker'[w] = r
      /\ \A v \in Workers \ {w} : worker'[v] = worker[v]
  BY SetWorker
<1>1. TypeOK'
  BY <1>0 DEF TypeOK, WorkerState
<1>2. HoldsAll'
  BY <1>0 DEF HoldsAll, Holds, IsProcessing, Pc, Job
<1>3. ExclusiveExecution'
  BY <1>0 DEF ExclusiveExecution, IsProcessing, Pc, Job
<1>4. AccountedAll'
  BY DEF AccountedAll, Accounted
<1>5. ProgressAll'
  <2> SUFFICES ASSUME NEW v \in Workers, (Pc(v) \in Processing \ {"fail"})'
               PROVE  Progress(v)'
    BY DEF ProgressAll
  <2>1. CASE v = w
    BY <2>1, <1>0 DEF Pc
  <2>2. CASE v # w
    <3>1. worker'[v] = worker[v] /\ Progress(v)
      BY <1>0, <2>2 DEF ProgressAll, Pc
    <3> QED BY <3>1 DEF Progress, Done, Pc, Job
  <2> QED BY <2>1, <2>2
<1>6. CompletedIsClean'
  BY DEF CompletedIsClean
<1> QED BY <1>1, <1>2, <1>3, <1>4, <1>5, <1>6

\* Reloading the claimed job keeps the invariant: it is still this worker's.
LEMMA RefreshIInv ==
    ASSUME IInv, NEW w \in Workers, Refresh(w)
    PROVE  IInv'
<1> DEFINE j == Job(w)
           r == [worker[w] EXCEPT !.pc = Step(j, 0), !.attempts = jobs[j].attempts]
<1>1. IsProcessing(w) /\ Holds(w) /\ Progress(w) /\ worker[w].done = 0
  BY DEF IInv, HoldsAll, ProgressAll, Refresh, IsProcessing, Processing, Progress, Done
<1>2. j \in Jobs /\ Payload[j] \in Seq(Messages) /\ Len(Payload[j]) \in Nat
  BY <1>1, JobsAssumption DEF Holds, IInv, TypeOK, Job
<1>3. Step(j, 0) \in {"index", "access", "complete"}
  BY DEF Step
<1>4. /\ r \in WorkerState
      /\ r.pc = Step(j, 0) /\ r.batch = worker[w].batch
      /\ r.attempts = jobs[j].attempts /\ r.done = 0
  BY <1>1, <1>2, <1>3 DEF IInv, TypeOK, WorkerState, PCs, Processing
<1>5. worker' = [worker EXCEPT ![w] = r] /\ UNCHANGED <<jobs, ready, stores, faults>>
  BY DEF Refresh, IInv, TypeOK
<1>6. worker'[w] = r
  BY <1>5 DEF IInv, TypeOK
<1> HIDE DEF r
<1>7. Progress(w)'
  <2>1. Job(w)' = j /\ Pc(w)' = Step(j, 0) /\ worker'[w].done = 0
    BY <1>4, <1>6 DEF Job, Pc
  <2>2. \/ Step(j, 0) = "index" /\ 0 < Len(Payload[j])
        \/ Step(j, 0) = "access" /\ 0 = Len(Payload[j]) /\ j \in RoomJobs
        \/ Step(j, 0) = "complete" /\ 0 = Len(Payload[j]) /\ j \notin RoomJobs
    BY <1>2, StepTo
  <2>3. accessCache' \subseteq RoomJobs /\ counters' \subseteq RoomJobs
    BY <1>5 DEF IInv, TypeOK, stores
  <2> HIDE DEF j
  <2> QED BY <2>1, <2>2, <2>3 DEF Progress, Done
<1> QED BY <1>1, <1>3, <1>4, <1>5, <1>7, Advance DEF Processing, stores

\* The same for a worker that has read its job.
LEMMA AdvanceTo ==
    ASSUME IInv, NEW w \in Workers,
           Pc(w) \in Processing \ {"refresh"},
           NEW j, j = Job(w),
           NEW p \in Processing \ {"refresh"}, NEW n \in Nat,
           worker' = [worker EXCEPT ![w].pc = p, ![w].done = n],
           p = "fail" \/ Done(j, p, n)',
           UNCHANGED <<jobs, ready, faults>>,
           index' \subseteq index, ownerCache' \subseteq ownerCache,
           accessCache' \subseteq accessCache, counters' \subseteq counters
    PROVE  IInv'
<1> DEFINE r == [worker[w] EXCEPT !.pc = p, !.done = n]
<1>1. /\ r \in WorkerState
      /\ r.pc = p /\ r.batch = worker[w].batch
      /\ r.attempts = worker[w].attempts /\ r.done = n
  BY DEF IInv, TypeOK, WorkerState, PCs
<1>2. worker' = [worker EXCEPT ![w] = r] /\ worker'[w] = r
  BY DEF IInv, TypeOK
<1> HIDE DEF r
<1>3. IsProcessing(w) /\ r.attempts = jobs[Job(w)].attempts
  BY <1>1 DEF IInv, HoldsAll, Holds, IsProcessing, Pc
<1>4. r.pc = "fail" \/ Progress(w)'
  BY <1>1, <1>2 DEF Progress, Pc, Job
<1> QED BY <1>1, <1>2, <1>3, <1>4, Advance

\* What is known at an await of _execute before its call.
LEMMA Executing ==
    ASSUME IInv, NEW w \in Workers, Pc(w) \in Processing \ {"refresh", "fail"}
    PROVE  /\ Job(w) \in Jobs
           /\ Done(Job(w), Pc(w), worker[w].done)
           /\ worker[w].done \in Nat
           /\ Len(Payload[Job(w)]) \in Nat
           /\ worker[w] \in WorkerState
BY JobsAssumption
   DEF IInv, TypeOK, WorkerState, HoldsAll, Holds, ProgressAll, Progress, IsProcessing, Job

\* Removing a message from the index advances the progress by one message.
LEMMA DeleteMessageIInv ==
    ASSUME IInv, NEW w \in Workers, DeleteMessage(w)
    PROVE  IInv'
<1>1. PICK j, n : j = Job(w) /\ n = worker[w].done
  OBVIOUS
<1>2. Pc(w) = "index" /\ "index" \in Processing \ {"refresh", "fail"}
  BY DEF DeleteMessage, Call, Processing
<1>3. j \in Jobs /\ Done(j, "index", n) /\ n \in Nat /\ worker[w] \in WorkerState
  BY <1>1, <1>2, Executing
<1>4. PICK applied \in BOOLEAN, ok \in BOOLEAN :
        /\ ok => applied
        /\ index' = IF applied THEN index \ {Payload[j][n + 1]} ELSE index
        /\ worker' = [worker EXCEPT ![w].pc = IF ok \/ TypesenseOpen THEN "owner" ELSE "fail",
                                    ![w].done = n]
  BY <1>1 DEF DeleteMessage, Call, Current
<1>5. UNCHANGED <<jobs, ready, faults, ownerCache, accessCache, counters>>
  BY DEF DeleteMessage, Call
<1>6. (ok \/ TypesenseOpen) => Done(j, "owner", n)'
  BY <1>3, <1>4, <1>5 DEF Done
<1> DEFINE p == IF ok \/ TypesenseOpen THEN "owner" ELSE "fail"
<1>7. p \in Processing \ {"refresh"} /\ (p = "fail" \/ Done(j, p, n)')
  BY <1>6 DEF Processing
<1>8. worker' = [worker EXCEPT ![w].pc = p, ![w].done = n] /\ index' \subseteq index
  BY <1>4
<1> HIDE DEF p
<1> QED BY <1>1, <1>2, <1>3, <1>5, <1>7, <1>8, AdvanceTo

\* Invalidating the owner's cache entry keeps the recorded progress true.
LEMMA InvalidateOwnerIInv ==
    ASSUME IInv, NEW w \in Workers, InvalidateOwner(w)
    PROVE  IInv'
<1>1. PICK j, n : j = Job(w) /\ n = worker[w].done
  OBVIOUS
<1>2. Pc(w) = "owner" /\ "owner" \in Processing \ {"refresh", "fail"}
  BY DEF InvalidateOwner, Call, Processing
<1>3. /\ j \in Jobs /\ Done(j, "owner", n) /\ n \in Nat /\ worker[w] \in WorkerState
      /\ Len(Payload[j]) \in Nat
  BY <1>1, <1>2, Executing
<1>4. PICK applied \in BOOLEAN, ok \in BOOLEAN :
        /\ ok => applied
        /\ ownerCache' = IF applied THEN ownerCache \ {Payload[j][n + 1]} ELSE ownerCache
        /\ worker' = [worker EXCEPT ![w].pc = IF ok \/ AuthzOpen THEN Step(j, n + 1) ELSE "fail",
                                    ![w].done = n + 1]
  BY <1>1 DEF InvalidateOwner, Call, Current
<1>5. UNCHANGED <<jobs, ready, faults, index, accessCache, counters>>
  BY DEF InvalidateOwner, Call
<1>6. n + 1 \in Nat /\ n + 1 <= Len(Payload[j])
  BY <1>3 DEF Done
<1>7. \/ Step(j, n + 1) = "index" /\ n + 1 < Len(Payload[j])
      \/ Step(j, n + 1) = "access" /\ n + 1 = Len(Payload[j]) /\ j \in RoomJobs
      \/ Step(j, n + 1) = "complete" /\ n + 1 = Len(Payload[j]) /\ j \notin RoomJobs
  BY <1>3, <1>6, StepTo
<1>8. (ok \/ AuthzOpen) => Done(j, Step(j, n + 1), n + 1)'
  <2>1. accessCache' \subseteq RoomJobs /\ counters' \subseteq RoomJobs
    BY <1>5 DEF IInv, TypeOK
  <2>2. \A i \in 1..(n + 1) : i \in 1..n \/ i = n + 1
    BY <1>3
  <2>3. ~TypesenseOpen => \A i \in 1..(n + 1) : Payload[j][i] \notin index'
    BY <1>3, <1>5, <2>2 DEF Done
  <2>4. (ok \/ AuthzOpen) => (~AuthzOpen => \A i \in 1..(n + 1) : Payload[j][i] \notin ownerCache')
    BY <1>3, <1>4, <2>2 DEF Done
  <2> QED BY <1>7, <2>1, <2>3, <2>4 DEF Done
<1> DEFINE p == IF ok \/ AuthzOpen THEN Step(j, n + 1) ELSE "fail"
<1>9. p \in Processing \ {"refresh"} /\ (p = "fail" \/ Done(j, p, n + 1)')
  BY <1>7, <1>8 DEF Processing
<1>10. worker' = [worker EXCEPT ![w].pc = p, ![w].done = n + 1] /\ ownerCache' \subseteq ownerCache
  BY <1>4
<1> HIDE DEF p
<1> QED BY <1>1, <1>2, <1>5, <1>6, <1>9, <1>10, AdvanceTo

\* Invalidating the access cache keeps the recorded progress true.
LEMMA InvalidateAccessIInv ==
    ASSUME IInv, NEW w \in Workers, InvalidateAccess(w)
    PROVE  IInv'
<1>1. PICK j, n : j = Job(w) /\ n = worker[w].done
  OBVIOUS
<1>2. Pc(w) = "access" /\ "access" \in Processing \ {"refresh", "fail"}
  BY DEF InvalidateAccess, Call, Processing
<1>3. j \in Jobs /\ Done(j, "access", n) /\ n \in Nat /\ worker[w] \in WorkerState
  BY <1>1, <1>2, Executing
<1>4. PICK applied \in BOOLEAN, ok \in BOOLEAN :
        /\ ok => applied
        /\ accessCache' = IF applied THEN accessCache \ {j} ELSE accessCache
        /\ worker' = [worker EXCEPT ![w].pc = IF ok \/ AuthzOpen THEN "counters" ELSE "fail",
                                    ![w].done = n]
  BY <1>1 DEF InvalidateAccess, Call
<1>5. UNCHANGED <<jobs, ready, faults, index, ownerCache, counters>>
  BY DEF InvalidateAccess, Call
<1>6. (ok \/ AuthzOpen) => Done(j, "counters", n)'
  BY <1>3, <1>4, <1>5 DEF Done
<1> DEFINE p == IF ok \/ AuthzOpen THEN "counters" ELSE "fail"
<1>7. p \in Processing \ {"refresh"} /\ (p = "fail" \/ Done(j, p, n)')
  BY <1>6 DEF Processing
<1>8. worker' = [worker EXCEPT ![w].pc = p, ![w].done = n] /\ accessCache' \subseteq accessCache
  BY <1>4
<1> HIDE DEF p
<1> QED BY <1>1, <1>2, <1>3, <1>5, <1>7, <1>8, AdvanceTo

\* Removing the counters is the last thing the completion of a room job needs.
LEMMA RemoveCountersIInv ==
    ASSUME IInv, NEW w \in Workers, RemoveCounters(w)
    PROVE  IInv'
<1>1. PICK j, n : j = Job(w) /\ n = worker[w].done
  OBVIOUS
<1>2. Pc(w) = "counters" /\ "counters" \in Processing \ {"refresh", "fail"}
  BY DEF RemoveCounters, Processing
<1>3. j \in Jobs /\ Done(j, "counters", n) /\ n \in Nat /\ worker[w] \in WorkerState
  BY <1>1, <1>2, Executing
<1>4. /\ counters' = counters \ {j}
      /\ UNCHANGED <<jobs, ready, faults, index, ownerCache, accessCache>>
  BY <1>1 DEF RemoveCounters
<1>5. worker' = [worker EXCEPT ![w].pc = "complete", ![w].done = n]
  <2>1. [worker[w] EXCEPT !.pc = "complete"] = [worker[w] EXCEPT !.pc = "complete", !.done = n]
    BY <1>1, <1>3 DEF WorkerState
  <2> QED BY <2>1 DEF RemoveCounters, IInv, TypeOK
<1>6. Done(j, "complete", n)'
  BY <1>3, <1>4 DEF Done
<1>7. "complete" \in Processing \ {"refresh"}
  BY DEF Processing
<1> QED BY <1>1, <1>2, <1>3, <1>4, <1>5, <1>6, <1>7, AdvanceTo

\* Saving the outcome gives the job up: completed, retried or dead-lettered.
LEMMA FinishIInv ==
    ASSUME IInv, NEW w \in Workers, Complete(w) \/ HandleFailure(w)
    PROVE  IInv'
<1> USE DEF IInv
<1>1. PICK j : j = Job(w)
  OBVIOUS
<1>2. IsProcessing(w) /\ Pc(w) \in {"complete", "fail"} /\ Holds(w) /\ j \in Jobs
  BY <1>1 DEF Complete, HandleFailure, IsProcessing, Processing, HoldsAll, Holds, TypeOK, Job
<1>3. PICK s \in {"completed", "dead_letter", "pending"} :
        /\ Finish(w, s)
        /\ s = "pending" => worker[w].attempts < MaxAttempts
        /\ s = "completed" => Pc(w) = "complete"
  BY BoundsAssumption DEF Complete, HandleFailure, TypeOK
<1>4. /\ jobs' \in [Jobs -> JobDoc]
      /\ jobs'[j].status = s /\ jobs'[j].attempts = jobs[j].attempts
      /\ \A k \in Jobs \ {j} : jobs'[k] = jobs[k]
  <2>1. jobs \in [Jobs -> JobDoc] /\ s \in Statuses
    BY DEF TypeOK, JobDoc, Statuses
  <2> QED BY <1>1, <1>2, <1>3, <2>1, SetStatus DEF Finish
<1>5. /\ worker' \in [Workers -> WorkerState]
      /\ worker'[w].pc = "idle"
      /\ \A v \in Workers \ {w} : worker'[v] = worker[v]
  <2>1. Tail(worker[w].batch) \in Seq(Jobs)
    BY <1>2 DEF Holds, TypeOK
  <2>2. Idle(Tail(worker[w].batch)) \in WorkerState
    BY <2>1, BoundsAssumption DEF WorkerState, At, Idle, PCs
  <2> QED BY <1>3, <2>2, SetWorker DEF Finish, At, Idle
<1>6. UNCHANGED <<ready, index, ownerCache, accessCache, counters, faults>>
  BY <1>3 DEF Finish, stores
<1>7. \A v \in Workers \ {w} : IsProcessing(v) => Job(v) # j
  BY <1>1, <1>2 DEF ExclusiveExecution
<1>8. TypeOK'
  BY <1>4, <1>5, <1>6 DEF TypeOK, WorkerState, JobDoc
<1>9. HoldsAll'
  <2> SUFFICES ASSUME NEW v \in Workers, IsProcessing(v)' PROVE Holds(v)'
    BY DEF HoldsAll
  <2>1. v # w /\ worker'[v] = worker[v] /\ IsProcessing(v) /\ Holds(v)
    BY <1>5 DEF HoldsAll, IsProcessing, Pc, Processing
  <2>2. Job(v) \in Jobs \ {j}
    BY <1>7, <2>1 DEF Holds, TypeOK, Job
  <2>3. jobs'[Job(v)] = jobs[Job(v)]
    BY <1>4, <2>2
  <2> QED BY <2>1, <2>3 DEF Holds, Pc, Job
<1>10. ExclusiveExecution'
  BY <1>5 DEF ExclusiveExecution, IsProcessing, Pc, Job, Processing
<1>11. AccountedAll'
  <2>1. s = "pending" => jobs[j].attempts < MaxAttempts
    BY <1>1, <1>2, <1>3 DEF Holds, Complete, HandleFailure
  <2> QED BY <1>3, <1>4, <2>1 DEF AccountedAll, Accounted
<1>12. ProgressAll'
  BY <1>5, <1>6 DEF ProgressAll, Progress, Done, Pc, Job, Processing
<1>13. CompletedIsClean'
  <2>1. s = "completed" => Done(j, "complete", worker[w].done)
    BY <1>1, <1>3 DEF ProgressAll, Progress, Processing
  <2>2. DOMAIN Payload[j] = 1..Len(Payload[j])
    BY <1>2, JobsAssumption
  <2> QED BY <1>3, <1>4, <1>6, <2>1, <2>2 DEF CompletedIsClean, Done
<1> QED BY <1>8, <1>9, <1>10, <1>11, <1>12, <1>13

-----------------------------------------------------------------------------
\* Every step keeps the invariant.
LEMMA NextIInv == IInv /\ [Next]_vars => IInv'
<1> SUFFICES ASSUME IInv, [Next]_vars PROVE IInv'
  OBVIOUS
<1>1. CASE UNCHANGED vars
  BY <1>1 DEF vars, IInv, TypeOK, HoldsAll, Holds, ExclusiveExecution, AccountedAll, Accounted,
              ProgressAll, Progress, Done, CompletedIsClean, IsProcessing, Pc, Job
<1>2. ASSUME NEW j \in Jobs, Enqueue(j) \/ BackoffElapses(j) PROVE IInv'
  BY <1>2, EnqueueIInv
<1>3. ASSUME NEW w \in Workers, WorkerStep(w) \/ DatabaseError(w) \/ Shutdown(w) PROVE IInv'
  BY <1>3, FetchIInv, ClaimIInv, LeavingIInv, RefreshIInv, DeleteMessageIInv,
     InvalidateOwnerIInv, InvalidateAccessIInv, RemoveCountersIInv, FinishIInv
     DEF WorkerStep
<1> QED BY <1>1, <1>2, <1>3 DEF Next

\* The inductive invariant holds in every reachable state of the queue.
THEOREM Invariance == Spec => []IInv
BY InitIInv, NextIInv, PTL DEF Spec

\* Type correctness: in particular no job is ever attempted more than
\* max_attempts times.
THEOREM TypeCorrect == Spec => []TypeOK
<1>1. IInv => TypeOK
  BY DEF IInv
<1> QED BY <1>1, Invariance, PTL

\* The conditional update of _process_job makes execution exclusive, for any
\* number of processes, jobs, retries and faults.
THEOREM Exclusive == Spec => []ExclusiveExecution
<1>1. IInv => ExclusiveExecution
  BY DEF IInv
<1> QED BY <1>1, Invariance, PTL

\* A job marked completed by _process_job left nothing of its payload behind
\* in a store whose policy is fail-closed.
THEOREM CompletedClean == Spec => []CompletedIsClean
<1>1. IInv => CompletedIsClean
  BY DEF IInv
<1> QED BY <1>1, Invariance, PTL

-----------------------------------------------------------------------------
(* The queue implements JobLifecycle *)

Status == [j \in Jobs |-> jobs[j].status]
Attempts == [j \in Jobs |-> jobs[j].attempts]

\* A step that gives one document a new status is a Move of the abstract job.
LEMMA MoveRefines ==
    ASSUME NEW j \in Jobs, jobs'[j].status \in Statuses,
           \A k \in Jobs \ {j} : jobs'[k] = jobs[k]
    PROVE  /\ Status' = [Status EXCEPT ![j] = jobs'[j].status]
           /\ jobs'[j].attempts = jobs[j].attempts => Attempts' = Attempts
           /\ Attempts' = [Attempts EXCEPT ![j] = jobs'[j].attempts]
BY DEF Status, Attempts

\* Every step of the queue is a step of the job life cycle, or changes no job.
LEMMA StepRefines == IInv /\ [Next]_vars => [Lifecycle!Next]_(Lifecycle!vars)
<1> SUFFICES ASSUME IInv, [Next]_vars PROVE [Lifecycle!Next]_(Lifecycle!vars)
  OBVIOUS
<1> USE DEF Lifecycle!Next, Lifecycle!vars, Lifecycle!Move, Status, Attempts
<1>0. jobs \in [Jobs -> JobDoc]
  BY DEF IInv, TypeOK, JobDoc
<1>1. CASE UNCHANGED jobs
  BY <1>1
<1>2. ASSUME NEW j \in Jobs, Enqueue(j) PROVE Lifecycle!Submit(j)
  <2>1. /\ jobs[j].status = "absent"
        /\ jobs'[j].status = "pending" /\ jobs'[j].attempts = jobs[j].attempts
        /\ \A k \in Jobs \ {j} : jobs'[k] = jobs[k]
    BY <1>0, <1>2, SetStatus DEF Enqueue, Statuses
  <2> QED BY <2>1, MoveRefines DEF Lifecycle!Submit, Statuses
<1>3. ASSUME NEW w \in Workers, Claim(w) PROVE \E j \in Jobs : Lifecycle!Start(j)
  <2>1. PICK j : j = Job(w)
    OBVIOUS
  <2>2. /\ j \in Jobs /\ jobs[j].status = "pending" /\ jobs[j].attempts < MaxAttempts
        /\ jobs'[j].status = "running" /\ jobs'[j].attempts = jobs[j].attempts + 1
        /\ \A k \in Jobs \ {j} : jobs'[k] = jobs[k]
    BY <1>0, <1>3, <2>1 DEF Claim, Claimable, Job, IInv, TypeOK, AccountedAll, Accounted
  <2> QED BY <2>2, MoveRefines DEF Lifecycle!Start, Statuses
<1>4. ASSUME NEW w \in Workers, NEW s \in Statuses, Finish(w, s), IsProcessing(w)
      PROVE  /\ Job(w) \in Jobs
             /\ jobs[Job(w)].status = "running"
             /\ Status' = [Status EXCEPT ![Job(w)] = s]
             /\ Attempts' = Attempts
  <2>1. PICK j : j = Job(w)
    OBVIOUS
  <2>2. j \in Jobs /\ jobs[j].status = "running"
    BY <1>4, <2>1 DEF IInv, HoldsAll, Holds, TypeOK, Job
  <2>3. /\ jobs'[j].status = s /\ jobs'[j].attempts = jobs[j].attempts
        /\ \A k \in Jobs \ {j} : jobs'[k] = jobs[k]
    BY <1>0, <1>4, <2>1, <2>2, SetStatus DEF Finish
  <2> HIDE DEF Status, Attempts
  <2> QED BY <2>1, <2>2, <2>3, MoveRefines
<1>5. ASSUME NEW w \in Workers, Complete(w) PROVE \E j \in Jobs : Lifecycle!Complete(j)
  BY <1>4, <1>5 DEF Complete, IsProcessing, Processing, Statuses, Lifecycle!Complete
<1>6. ASSUME NEW w \in Workers, HandleFailure(w)
      PROVE  \E j \in Jobs : Lifecycle!Retry(j) \/ Lifecycle!DeadLetter(j)
  <2>1. IsProcessing(w) /\ Job(w) \in Jobs /\ worker[w].attempts = jobs[Job(w)].attempts
    BY <1>6 DEF HandleFailure, IsProcessing, Processing, IInv, HoldsAll, Holds, TypeOK, Job
  <2>2. worker[w].attempts \in 0..MaxAttempts
    BY DEF IInv, TypeOK
  <2>3. CASE worker[w].attempts >= MaxAttempts
    <3>1. Finish(w, "dead_letter") /\ jobs[Job(w)].attempts = MaxAttempts
      BY <1>6, <2>1, <2>2, <2>3, BoundsAssumption DEF HandleFailure
    <3> QED BY <1>4, <2>1, <3>1 DEF Statuses, Lifecycle!DeadLetter
  <2>4. CASE ~(worker[w].attempts >= MaxAttempts)
    <3>1. Finish(w, "pending") /\ jobs[Job(w)].attempts < MaxAttempts
      BY <1>6, <2>1, <2>2, <2>4, BoundsAssumption DEF HandleFailure
    <3> QED BY <1>4, <2>1, <3>1 DEF Statuses, Lifecycle!Retry
  <2> QED BY <2>3, <2>4
<1>7. ASSUME NEW w \in Workers,
             \/ Fetch(w) \/ Skip(w) \/ Refresh(w) \/ DeleteMessage(w) \/ InvalidateOwner(w)
             \/ InvalidateAccess(w) \/ RemoveCounters(w) \/ Startup(w)
             \/ DatabaseError(w) \/ Shutdown(w)
      PROVE  UNCHANGED jobs
  BY <1>7 DEF Fetch, Skip, Refresh, DeleteMessage, InvalidateOwner, InvalidateAccess, Call,
              RemoveCounters, Startup, DatabaseError, Shutdown
<1>8. ASSUME NEW j \in Jobs, BackoffElapses(j) PROVE UNCHANGED jobs
  BY <1>8 DEF BackoffElapses
<1>9. UNCHANGED vars => UNCHANGED jobs
  BY DEF vars
<1> QED BY <1>1, <1>2, <1>3, <1>5, <1>6, <1>7, <1>8, <1>9 DEF Next, WorkerStep

\* The collection of jobs, under any number of workers and faults, follows
\* the life cycle promised by JobLifecycle.
THEOREM Refinement == Spec => LifecycleSpec
<1>1. Init => Lifecycle!Init
  BY DEF Init, Lifecycle!Init
<1> QED BY <1>1, StepRefines, Invariance, PTL DEF Spec, LifecycleSpec, Lifecycle!Spec
=============================================================================
