------------------------------ MODULE Scheduler ------------------------------
(***************************************************************************)
(* Recurring cleanup: SchedulerService with its lease in Redis, the task   *)
(* queue it puts the prune on in each TASK_QUEUE_MODE, and the workers     *)
(* that take it off again.  What a prune does is MediaLifecycle's subject; *)
(* here it is a job that runs, or is lost.                                 *)
(*                                                                         *)
(* A step of time is one SCHEDULER_POLL_SECONDS.  A process may be slower  *)
(* than that anywhere, so a tick can outlive the lease it took.            *)
(***************************************************************************)
EXTENDS RedisHandle

CONSTANTS
  CommandOf,      \* what each process was started as: "app" or a CLI command
  AppScheduler,   \* APP_SCHEDULER_ENABLED
  WorkerQueues,   \* TASK_WORKER_QUEUES
  Interval,       \* CLEANUP_INTERVAL_SECONDS, in polls
  LeaseTime,      \* SCHEDULER_LEASE_SECONDS, in polls
  MaxJobs,        \* prunes waiting in one queue (bound)
  Nobody, Dead    \* no lease; a lease whose token died with its process

ASSUME SchedulerAssumption ==
  /\ AppScheduler \in BOOLEAN
  /\ Interval \in Nat \ {0} /\ LeaseTime \in Nat \ {0} /\ MaxJobs \in Nat \ {0}
  /\ Nobody \notin Procs /\ Dead \notin Procs /\ Nobody # Dead

VARIABLES
  mode,       \* TASK_QUEUE_MODE; never changes
  required,   \* REDIS_MODE=required; never changes
  life,       \* per process: up, stopping (draining its queue) or down
  pc,         \* per process: where its scheduler loop is
  due,        \* polls until _next_cleanup_at; below 0 inside a late tick
  lease,      \* Redis: the holder of the lease and the polls it has left (0: no expiry)
  queue,      \* Redis: prunes in queue:cleanup
  memory,     \* per process: prunes in its AsyncTaskQueue
  hand,       \* per process: a prune its Redis worker is running
  since, returned   \* history: polls since the lease was taken; its taker gave it back

vars == <<redis, mode, required, life, pc, due, lease, queue, memory, hand, since, returned>>

\* _effective_lease_seconds
Gap == IF LeaseTime > Interval THEN LeaseTime ELSE Interval

-----------------------------------------------------------------------------
(* The roles of a process and the queue it works with.                     *)

PruneQueue == "cleanup"

\* WORKER_COMMAND_QUEUES
QueuesFor ==
  [c \in {"retry-thumbnails", "run-worker", "run-worker-thumbnails", "run-worker-cleanup", "run-worker-default"} |->
    CASE c \in {"retry-thumbnails", "run-worker-thumbnails"} -> {"thumbnails"}
      [] c = "run-worker" -> WorkerQueues
      [] c = "run-worker-cleanup" -> {"cleanup"}
      [] c = "run-worker-default" -> {"default"}]

RoleOf(p) == CASE CommandOf[p] = "run-scheduler" -> "scheduler"
               [] CommandOf[p] \in DOMAIN QueuesFor -> "worker"
               [] OTHER -> "app"

Schedules(p) == RoleOf(p) = "scheduler" \/ (RoleOf(p) = "app" /\ AppScheduler)

\* Only a worker takes work off the shared queues, and only of its own ones.
Listens(p) == RoleOf(p) = "worker" /\ PruneQueue \in QueuesFor[CommandOf[p]]

QueueMode == IF mode = "redis" /\ ~enabled THEN "async" ELSE mode

Free == [by |-> Nobody, left |-> 0]

Init ==
  /\ HandleInit
  /\ mode \in {"redis", "async", "sync"}
  /\ required \in BOOLEAN /\ (required => enabled)
  /\ life = [p \in Procs |-> "up"]
  /\ pc = [p \in Procs |-> IF Schedules(p) THEN "tick" ELSE "none"]
  /\ due = [p \in Procs |-> 0]
  /\ lease = Free
  /\ queue = 0
  /\ memory = [p \in Procs |-> 0]
  /\ hand = [p \in Procs |-> FALSE]
  /\ since = Gap
  /\ returned = FALSE

fixed == <<mode, required>>

-----------------------------------------------------------------------------
(* SchedulerService.tick                                                   *)

\* A tick ends: the next one is due n polls after it began.
Sleep(p, n) ==
  /\ pc' = [pc EXCEPT ![p] = "asleep"]
  /\ due' = [due EXCEPT ![p] = IF @ + n > 0 THEN @ + n ELSE 0]

Goto(p, label) ==
  /\ pc' = [pc EXCEPT ![p] = label]
  /\ UNCHANGED due

NotDue(p) ==
  /\ pc[p] = "tick" /\ due[p] > 0
  /\ Goto(p, "asleep")
  /\ UNCHANGED <<redis, fixed, life, lease, queue, memory, hand, since, returned>>

\* Without Redis there is no lease and every scheduler goes ahead.
AcquireWithout(p) ==
  /\ pc[p] = "tick" /\ due[p] = 0 /\ ~enabled
  /\ Goto(p, "enqueue")
  /\ UNCHANGED <<redis, fixed, life, lease, queue, memory, hand, since, returned>>

\* Mutant: the lease is set without an expiry.
TakeForever(p) ==
  IF lease.by = Nobody
  THEN lease' = [by |-> p, left |-> 0] /\ since' = 0 /\ returned' = FALSE
  ELSE UNCHANGED <<lease, since, returned>>

\* SET NX EX
Take(p) ==
  IF lease.by = Nobody
  THEN lease' = [by |-> p, left |-> Gap] /\ since' = 0 /\ returned' = FALSE
  ELSE UNCHANGED <<lease, since, returned>>

Acquire(p, o) ==
  /\ pc[p] = "tick" /\ due[p] = 0 /\ enabled
  /\ Execute(p, o)
  /\ IF TookEffect(o) THEN Take(p) ELSE UNCHANGED <<lease, since, returned>>
  /\ IF o = "answered" /\ lease.by = Nobody THEN Goto(p, "enqueue") ELSE Sleep(p, 1)
  /\ UNCHANGED <<fixed, life, queue, memory, hand>>

\* RedisTaskQueue.enqueue: when Redis does not answer, the job goes to the
\* process's own queue, even if it is in Redis as well.
EnqueueRedis(p, o) ==
  /\ pc[p] = "enqueue" /\ QueueMode = "redis"
  /\ queue < MaxJobs /\ memory[p] < MaxJobs
  /\ Execute(p, o)
  /\ queue' = IF TookEffect(o) THEN queue + 1 ELSE queue
  /\ memory' = IF o = "answered" THEN memory ELSE [memory EXCEPT ![p] = @ + 1]
  /\ Sleep(p, Interval)
  /\ UNCHANGED <<fixed, life, lease, hand, since, returned>>

EnqueueAsync(p) ==
  /\ pc[p] = "enqueue" /\ QueueMode = "async"
  /\ memory[p] < MaxJobs
  /\ memory' = [memory EXCEPT ![p] = @ + 1]
  /\ Sleep(p, Interval)
  /\ UNCHANGED <<redis, fixed, life, lease, queue, hand, since, returned>>

\* SyncTaskQueue.enqueue runs the handler, and keeps what it raises to itself.
EnqueueSync(p) ==
  /\ pc[p] = "enqueue" /\ QueueMode = "sync"
  /\ Sleep(p, Interval)
  /\ UNCHANGED <<redis, fixed, life, lease, queue, memory, hand, since, returned>>

\* enqueue raises what is not RedisUnavailable.
EnqueueRaises(p) ==
  /\ pc[p] = "enqueue" /\ faults < MaxFaults
  /\ faults' = faults + 1
  /\ IF enabled THEN Goto(p, "release") ELSE Sleep(p, 1)
  /\ UNCHANGED <<enabled, blocked, fixed, life, lease, queue, memory, hand, since, returned>>

\* Mutant: the key is deleted whoever's token it holds.
ReleaseAnybodys(p, o) ==
  /\ pc[p] = "release"
  /\ Execute(p, o)
  /\ lease' = IF TookEffect(o) THEN Free ELSE lease
  /\ returned' = (returned \/ (TookEffect(o) /\ lease.by = p))
  /\ Sleep(p, 1)
  /\ UNCHANGED <<fixed, life, queue, memory, hand, since>>

\* _SCHEDULER_LEASE_RELEASE compares the token before it deletes the key.
Release(p, o) ==
  /\ pc[p] = "release"
  /\ Execute(p, o)
  /\ LET mine == TookEffect(o) /\ lease.by = p IN
       /\ lease' = IF mine THEN Free ELSE lease
       /\ returned' = (returned \/ mine)
  /\ Sleep(p, 1)
  /\ UNCHANGED <<fixed, life, queue, memory, hand, since>>

-----------------------------------------------------------------------------
(* Workers                                                                 *)

\* BLPOP: an answer that is lost takes the job with it.
Dequeue(p, o) ==
  /\ Listens(p) /\ QueueMode = "redis" /\ life[p] = "up" /\ ~hand[p] /\ queue > 0
  /\ Execute(p, o) /\ o # "unsent"
  /\ queue' = IF TookEffect(o) THEN queue - 1 ELSE queue
  /\ hand' = [hand EXCEPT ![p] = (o = "answered")]
  /\ UNCHANGED <<fixed, life, pc, due, lease, memory, since, returned>>

RunJob(p) ==
  /\ hand[p]
  /\ hand' = [hand EXCEPT ![p] = FALSE]
  /\ UNCHANGED <<redis, fixed, life, pc, due, lease, queue, memory, since, returned>>

\* AsyncTaskQueue._run_worker, which also works off what is left at a stop.
RunMemory(p) ==
  /\ memory[p] > 0 /\ life[p] # "down"
  /\ memory' = [memory EXCEPT ![p] = @ - 1]
  /\ UNCHANGED <<redis, fixed, life, pc, due, lease, queue, hand, since, returned>>

-----------------------------------------------------------------------------
(* Processes and time                                                      *)

\* The token of process p dies with it.
Orphaned(p) == IF lease.by = p THEN [lease EXCEPT !.by = Dead] ELSE lease

\* AppState.stop: the scheduler and the Redis worker are cancelled.
Stop(p) ==
  /\ life[p] = "up" /\ faults < MaxFaults
  /\ faults' = faults + 1
  /\ life' = [life EXCEPT ![p] = "stopping"]
  /\ pc' = [pc EXCEPT ![p] = "none"]
  /\ due' = [due EXCEPT ![p] = 0]
  /\ hand' = [hand EXCEPT ![p] = FALSE]
  /\ lease' = Orphaned(p)
  /\ UNCHANGED <<enabled, blocked, fixed, queue, memory, since, returned>>

Stopped(p) ==
  /\ life[p] = "stopping" /\ memory[p] = 0
  /\ life' = [life EXCEPT ![p] = "down"]
  /\ blocked' = [blocked EXCEPT ![p] = FALSE]
  /\ UNCHANGED <<enabled, faults, fixed, pc, due, lease, queue, memory, hand, since, returned>>

Crash(p) ==
  /\ life[p] # "down"
  /\ Restart(p)
  /\ life' = [life EXCEPT ![p] = "down"]
  /\ pc' = [pc EXCEPT ![p] = "none"]
  /\ due' = [due EXCEPT ![p] = 0]
  /\ hand' = [hand EXCEPT ![p] = FALSE]
  /\ memory' = [memory EXCEPT ![p] = 0]
  /\ lease' = Orphaned(p)
  /\ UNCHANGED <<fixed, queue, since, returned>>

\* AppState.start; ensure_startup_ready gives up only where Redis is required.
Boot(p, o) ==
  /\ life[p] = "down"
  /\ Execute(p, o)
  /\ IF required /\ o # "answered"
     THEN UNCHANGED <<life, pc>>
     ELSE /\ life' = [life EXCEPT ![p] = "up"]
          /\ pc' = [pc EXCEPT ![p] = IF Schedules(p) THEN "tick" ELSE "none"]
  /\ UNCHANGED <<fixed, due, lease, queue, memory, hand, since, returned>>

\* One poll passes: sleepers wake, the lease runs down.
Pass ==
  /\ due' = [p \in Procs |-> LET floor == IF pc[p] \in {"enqueue", "release"} THEN -Interval ELSE 0 IN
               IF due[p] > floor THEN due[p] - 1 ELSE floor]
  /\ pc' = [p \in Procs |-> IF pc[p] = "asleep" THEN "tick" ELSE pc[p]]
  /\ lease' = IF lease.left = 1 THEN Free ELSE [lease EXCEPT !.left = IF @ > 0 THEN @ - 1 ELSE 0]
  /\ since' = IF since < Gap THEN since + 1 ELSE Gap
  /\ UNCHANGED <<redis, fixed, life, queue, memory, hand, returned>>

Closes(p) ==
  /\ Cooldown(p)
  /\ UNCHANGED <<fixed, life, pc, due, lease, queue, memory, hand, since, returned>>

Step(p) ==
  \/ NotDue(p) \/ AcquireWithout(p)
  \/ EnqueueAsync(p) \/ EnqueueSync(p)
  \/ \E o \in Outcomes : Acquire(p, o) \/ EnqueueRedis(p, o) \/ Release(p, o)

Serve(p) == \E o \in Outcomes : Dequeue(p, o)

Life(p) == Stopped(p) \/ \E o \in Outcomes : Boot(p, o)

Next ==
  \/ Pass
  \/ \E p \in Procs :
       Step(p) \/ Serve(p) \/ RunJob(p) \/ RunMemory(p) \/ Life(p) \/ Closes(p)
       \/ EnqueueRaises(p) \/ Stop(p) \/ Crash(p)

\* Event loops and the clock go on; a stopped process is started again.
Fairness ==
  /\ WF_vars(Pass)
  /\ \A p \in Procs : WF_vars(Step(p)) /\ WF_vars(Serve(p)) /\ WF_vars(RunJob(p))
                        /\ WF_vars(RunMemory(p)) /\ WF_vars(Life(p)) /\ WF_vars(Closes(p))

Spec == Init /\ [][Next]_vars /\ Fairness

-----------------------------------------------------------------------------
(* Properties                                                              *)

TypeOK ==
  /\ HandleTypeOK
  /\ mode \in {"redis", "async", "sync"} /\ required \in BOOLEAN
  /\ life \in [Procs -> {"up", "stopping", "down"}]
  /\ pc \in [Procs -> {"none", "asleep", "tick", "enqueue", "release"}]
  /\ due \in [Procs -> -Interval .. Interval]
  /\ lease \in [by : Procs \cup {Nobody, Dead}, left : 0 .. Gap]
  /\ lease.by = Nobody <=> lease.left = 0
  /\ queue \in 0 .. MaxJobs
  /\ memory \in [Procs -> 0 .. MaxJobs]
  /\ hand \in [Procs -> BOOLEAN]
  /\ since \in 0 .. Gap /\ returned \in BOOLEAN

\* The lease spaces cleanups out over all schedulers: it is taken again only
\* a whole lease after it was last taken, unless its taker gave it back.  A
\* tick that outlives its lease, or a process that lost it in a crash, never
\* gives back the lease of another.
Spaced ==
  [][lease.by = Nobody /\ lease'.by # Nobody => since = Gap \/ returned]_vars

PruneRuns(p) == RunJob(p) \/ RunMemory(p) \/ EnqueueSync(p)

\* Whatever is lost, crashes or times out, a prune runs again later: a lease
\* nobody knows to hold, a job that died with its worker and a job two queues
\* hold are all overcome by the next interval.
PruneRecurs == []<><<\E p \in Procs : PruneRuns(p)>>_vars
=============================================================================
