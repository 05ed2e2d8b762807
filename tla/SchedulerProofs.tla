--------------------------- MODULE SchedulerProofs ---------------------------
(***************************************************************************)
(* Theorems about Scheduler: type correctness, and that the lease spaces   *)
(* cleanups out, for any number of schedulers, any interval, any lease     *)
(* time and any number of faults.                                          *)
(***************************************************************************)
EXTENDS Scheduler, TLAPS

\* A tick that holds the lease began when it was due.
DueInv == \A p \in Procs : pc[p] \in {"enqueue", "release"} => due[p] <= 0

\* The age of a lease and the time it has left make up its length; a free
\* lease has run out or was given back.
LeaseInv ==
  /\ lease.by # Nobody => since + lease.left = Gap
  /\ lease.by = Nobody => since = Gap \/ returned

SchedulerInv == TypeOK /\ DueInv /\ LeaseInv

-----------------------------------------------------------------------------
LEMMA GapType == Gap \in Nat /\ Gap > 0
BY SchedulerAssumption DEF Gap

\* A Redis command, whatever becomes of it, keeps the handle's types.
LEMMA CommandTypes ==
  ASSUME HandleTypeOK, NEW p \in Procs, NEW o, NEW first \in BOOLEAN,
         NEW last \in BOOLEAN, NEW guarded \in BOOLEAN, Command(p, first, last, guarded, o)
  PROVE  HandleTypeOK' /\ o \in Outcomes
<1>1. enabled' \in BOOLEAN
  BY DEF Command, HandleTypeOK
<1>2. faults' \in 0 .. MaxFaults /\ o \in Outcomes
  BY RedisAssumption DEF Command, HandleTypeOK, Available, Outcomes
<1>3. blocked' \in [Procs -> BOOLEAN]
  BY DEF Command, HandleTypeOK
<1> QED BY <1>1, <1>2, <1>3 DEF HandleTypeOK

LEMMA ExecuteTypes ==
  ASSUME HandleTypeOK, NEW p \in Procs, NEW o, Execute(p, o)
  PROVE  HandleTypeOK' /\ o \in Outcomes
BY CommandTypes DEF Execute

-----------------------------------------------------------------------------
(* How a tick moves and ends, and what becomes of the lease.               *)

\* A process that leaves its tick, or goes on in it when it was due, keeps
\* the types of pc and due.
LEMMA TickTypes ==
  ASSUME SchedulerInv, NEW p \in Procs
  PROVE  /\ \A n \in {1, Interval} :
              due[p] <= 0 /\ Sleep(p, n)
                => /\ pc' \in [Procs -> {"none", "asleep", "tick", "enqueue", "release"}]
                   /\ due' \in [Procs -> -Interval .. Interval]
                   /\ DueInv'
         /\ \A label \in {"asleep", "tick", "enqueue", "release"} :
              (label \in {"enqueue", "release"} => due[p] <= 0) /\ Goto(p, label)
                => /\ pc' \in [Procs -> {"none", "asleep", "tick", "enqueue", "release"}]
                   /\ due' \in [Procs -> -Interval .. Interval]
                   /\ DueInv'
<1> USE SchedulerAssumption DEF SchedulerInv, TypeOK, DueInv
<1>1. ASSUME NEW n \in {1, Interval}, due[p] <= 0, Sleep(p, n)
      PROVE  /\ pc' \in [Procs -> {"none", "asleep", "tick", "enqueue", "release"}]
             /\ due' \in [Procs -> -Interval .. Interval]
             /\ DueInv'
  <2>1. pc' \in [Procs -> {"none", "asleep", "tick", "enqueue", "release"}]
    BY <1>1 DEF Sleep
  <2>2. due' \in [Procs -> -Interval .. Interval]
    BY <1>1 DEF Sleep
  <2>3. DueInv'
    BY <1>1 DEF Sleep
  <2> QED BY <2>1, <2>2, <2>3
<1>2. ASSUME NEW label \in {"asleep", "tick", "enqueue", "release"},
             label \in {"enqueue", "release"} => due[p] <= 0, Goto(p, label)
      PROVE  /\ pc' \in [Procs -> {"none", "asleep", "tick", "enqueue", "release"}]
             /\ due' \in [Procs -> -Interval .. Interval]
             /\ DueInv'
  BY <1>2 DEF Goto
<1> QED BY <1>1, <1>2

\* What a process leaves behind is the lease, with or without a living holder.
LEMMA OrphanedType ==
  ASSUME SchedulerInv, NEW p \in Procs, lease' = Orphaned(p)
  PROVE  /\ lease' \in [by : Procs \cup {Nobody, Dead}, left : 0 .. Gap]
         /\ lease'.left = lease.left
         /\ lease'.by = Nobody <=> lease.by = Nobody
<1>1. CASE lease.by = p
  <2> DEFINE left == lease.left
  <2>1. lease' = [by |-> Dead, left |-> left]
    BY <1>1 DEF SchedulerInv, TypeOK, Orphaned
  <2> QED BY <1>1, <2>1, SchedulerAssumption DEF SchedulerInv, TypeOK
<1>2. CASE lease.by # p
  BY <1>2 DEF SchedulerInv, TypeOK, Orphaned
<1> QED BY <1>1, <1>2

\* Where the lease and its history stay, LeaseInv stays.
LEMMA LeaseStays ==
  ASSUME SchedulerInv, UNCHANGED <<lease, since, returned>>
  PROVE  LeaseInv'
BY DEF SchedulerInv, LeaseInv, Gap

-----------------------------------------------------------------------------
(* The invariant holds at first and every step keeps it.                   *)

LEMMA InitInv == Init => SchedulerInv
<1> SUFFICES ASSUME Init PROVE SchedulerInv
  OBVIOUS
<1> USE SchedulerAssumption, RedisAssumption, GapType DEF Init, HandleInit
<1>1. HandleTypeOK
  BY DEF HandleTypeOK
<1>2. pc \in [Procs -> {"none", "asleep", "tick", "enqueue", "release"}] /\ DueInv
  BY DEF DueInv
<1>3. TypeOK
  <2>1. mode \in {"redis", "async", "sync"} /\ queue \in 0 .. MaxJobs /\ since \in 0 .. Gap
    OBVIOUS
  <2>4. required \in BOOLEAN /\ returned \in BOOLEAN
    BY Zenon
  <2>2. /\ life \in [Procs -> {"up", "stopping", "down"}]
        /\ due \in [Procs -> -Interval .. Interval]
        /\ memory \in [Procs -> 0 .. MaxJobs]
        /\ hand \in [Procs -> BOOLEAN]
    OBVIOUS
  <2>3. /\ lease \in [by : Procs \cup {Nobody, Dead}, left : 0 .. Gap]
        /\ lease.by = Nobody <=> lease.left = 0
    BY DEF Free
  <2> QED BY <1>1, <1>2, <2>1, <2>2, <2>3, <2>4 DEF TypeOK
<1>4. LeaseInv
  BY DEF LeaseInv, Free
<1> QED BY <1>2, <1>3, <1>4 DEF SchedulerInv

LEMMA AcquireInv ==
  ASSUME SchedulerInv, NEW p \in Procs, NEW o \in Outcomes, Acquire(p, o)
  PROVE  SchedulerInv'
<1> USE SchedulerAssumption, GapType
<1>1. HandleTypeOK'
  BY ExecuteTypes DEF SchedulerInv, TypeOK, Acquire
<1>2. /\ pc' \in [Procs -> {"none", "asleep", "tick", "enqueue", "release"}]
      /\ due' \in [Procs -> -Interval .. Interval]
      /\ DueInv'
  BY TickTypes DEF Acquire
<1>3. /\ lease' \in [by : Procs \cup {Nobody, Dead}, left : 0 .. Gap]
      /\ lease'.by = Nobody <=> lease'.left = 0
      /\ since' \in 0 .. Gap /\ returned' \in BOOLEAN
      /\ LeaseInv'
  <2>1. CASE UNCHANGED <<lease, since, returned>>
    BY <2>1, LeaseStays DEF SchedulerInv, TypeOK
  <2>2. CASE lease' = [by |-> p, left |-> Gap] /\ since' = 0 /\ returned' = FALSE
    <3>1. lease'.by = p /\ lease'.left = Gap /\ p # Nobody
      BY <2>2
    <3>2. lease' \in [by : Procs \cup {Nobody, Dead}, left : 0 .. Gap]
      BY <2>2
    <3>3. LeaseInv'
      BY <2>2, <3>1 DEF LeaseInv, Gap
    <3>4. lease'.by = Nobody <=> lease'.left = 0
      BY <3>1
    <3>5. since' \in 0 .. Gap
      BY <2>2
    <3>6. returned' \in BOOLEAN
      BY <2>2, Zenon
    <3> QED BY <3>2, <3>3, <3>4, <3>5, <3>6
  <2> QED BY <2>1, <2>2 DEF Acquire, Take
<1> QED BY <1>1, <1>2, <1>3 DEF SchedulerInv, TypeOK, Acquire, fixed, Gap

LEMMA EnqueueRedisInv ==
  ASSUME SchedulerInv, NEW p \in Procs, NEW o \in Outcomes, EnqueueRedis(p, o)
  PROVE  SchedulerInv'
<1>1. HandleTypeOK'
  BY ExecuteTypes DEF SchedulerInv, TypeOK, EnqueueRedis
<1>2. /\ pc' \in [Procs -> {"none", "asleep", "tick", "enqueue", "release"}]
      /\ due' \in [Procs -> -Interval .. Interval]
      /\ DueInv'
  BY TickTypes DEF EnqueueRedis, SchedulerInv, DueInv
<1>3. queue' \in 0 .. MaxJobs /\ memory' \in [Procs -> 0 .. MaxJobs]
  BY SchedulerAssumption DEF EnqueueRedis, SchedulerInv, TypeOK
<1>4. LeaseInv'
  BY LeaseStays DEF EnqueueRedis
<1> QED BY <1>1, <1>2, <1>3, <1>4 DEF SchedulerInv, TypeOK, EnqueueRedis, fixed, Gap

LEMMA ReleaseInv ==
  ASSUME SchedulerInv, NEW p \in Procs, NEW o \in Outcomes, Release(p, o)
  PROVE  SchedulerInv'
<1> USE SchedulerAssumption, GapType
<1>1. HandleTypeOK'
  BY ExecuteTypes DEF SchedulerInv, TypeOK, Release
<1>2. /\ pc' \in [Procs -> {"none", "asleep", "tick", "enqueue", "release"}]
      /\ due' \in [Procs -> -Interval .. Interval]
      /\ DueInv'
  BY TickTypes DEF Release, SchedulerInv, DueInv
<1>3. /\ lease' = IF TookEffect(o) /\ lease.by = p THEN Free ELSE lease
      /\ returned' = (returned \/ (TookEffect(o) /\ lease.by = p))
  BY DEF Release
<1>4. /\ lease' \in [by : Procs \cup {Nobody, Dead}, left : 0 .. Gap]
      /\ lease'.by = Nobody <=> lease'.left = 0
  BY <1>3 DEF SchedulerInv, TypeOK, Free
<1>5. returned' \in BOOLEAN
  BY <1>3 DEF SchedulerInv, TypeOK
<1>6. LeaseInv'
  <2>1. CASE TookEffect(o) /\ lease.by = p
    BY <1>3, <2>1 DEF LeaseInv, Free
  <2>2. CASE ~(TookEffect(o) /\ lease.by = p)
    <3>1. lease' = lease /\ returned' = returned
      BY <1>3, <2>2 DEF SchedulerInv, TypeOK
    <3> QED BY <3>1, LeaseStays DEF Release
  <2> QED BY <2>1, <2>2
<1> QED BY <1>1, <1>2, <1>4, <1>5, <1>6 DEF SchedulerInv, TypeOK, Release, fixed, Gap

\* The actions of a scheduler's tick that send no command.
LEMMA TickInv ==
  ASSUME SchedulerInv, NEW p \in Procs,
         NotDue(p) \/ AcquireWithout(p) \/ EnqueueAsync(p) \/ EnqueueSync(p) \/ EnqueueRaises(p)
  PROVE  SchedulerInv'
<1> USE SchedulerAssumption, GapType
<1>1. /\ pc' \in [Procs -> {"none", "asleep", "tick", "enqueue", "release"}]
      /\ due' \in [Procs -> -Interval .. Interval]
      /\ DueInv'
  <2>1. CASE NotDue(p)
    BY <2>1, TickTypes DEF NotDue
  <2>2. CASE AcquireWithout(p)
    BY <2>2, TickTypes DEF AcquireWithout
  <2>3. CASE EnqueueAsync(p)
    BY <2>3, TickTypes DEF EnqueueAsync, SchedulerInv, DueInv
  <2>4. CASE EnqueueSync(p)
    BY <2>4, TickTypes DEF EnqueueSync, SchedulerInv, DueInv
  <2>5. CASE EnqueueRaises(p)
    BY <2>5, TickTypes DEF EnqueueRaises, SchedulerInv, DueInv
  <2> QED BY <2>1, <2>2, <2>3, <2>4, <2>5
<1>2. HandleTypeOK'
  BY RedisAssumption
  DEF SchedulerInv, TypeOK, HandleTypeOK, redis, NotDue, AcquireWithout, EnqueueAsync, EnqueueSync, EnqueueRaises
<1>3. memory' \in [Procs -> 0 .. MaxJobs]
  BY DEF SchedulerInv, TypeOK, NotDue, AcquireWithout, EnqueueAsync, EnqueueSync, EnqueueRaises
<1>4. UNCHANGED <<fixed, life, lease, queue, hand, since, returned>>
  BY DEF NotDue, AcquireWithout, EnqueueAsync, EnqueueSync, EnqueueRaises
<1>5. LeaseInv'
  BY <1>4, LeaseStays
<1> QED BY <1>1, <1>2, <1>3, <1>4, <1>5 DEF SchedulerInv, TypeOK, fixed, Gap

\* Workers and the in-process queue.
LEMMA WorkInv ==
  ASSUME SchedulerInv, NEW p \in Procs,
         Serve(p) \/ RunJob(p) \/ RunMemory(p)
  PROVE  SchedulerInv'
<1> USE SchedulerAssumption, GapType
<1>1. HandleTypeOK'
  <2>1. CASE Serve(p)
    BY <2>1, ExecuteTypes DEF Serve, Dequeue, SchedulerInv, TypeOK
  <2>2. CASE RunJob(p) \/ RunMemory(p)
    BY <2>2 DEF RunJob, RunMemory, redis, SchedulerInv, TypeOK, HandleTypeOK
  <2> QED BY <2>1, <2>2
<1>2. queue' \in 0 .. MaxJobs
  BY DEF Serve, Dequeue, RunJob, RunMemory, SchedulerInv, TypeOK
<1>3. memory' \in [Procs -> 0 .. MaxJobs]
  BY DEF Serve, Dequeue, RunJob, RunMemory, SchedulerInv, TypeOK
<1>4. hand' \in [Procs -> BOOLEAN]
  BY DEF Serve, Dequeue, RunJob, RunMemory, SchedulerInv, TypeOK
<1>5. UNCHANGED <<fixed, life, pc, due, lease, since, returned>>
  BY DEF Serve, Dequeue, RunJob, RunMemory
<1>6. LeaseInv' /\ DueInv'
  BY <1>5, LeaseStays DEF SchedulerInv, DueInv
<1> QED BY <1>1, <1>2, <1>3, <1>4, <1>5, <1>6 DEF SchedulerInv, TypeOK, fixed, Gap

\* Processes that stop, crash and start.
LEMMA LifeInv ==
  ASSUME SchedulerInv, NEW p \in Procs,
         Stop(p) \/ Crash(p) \/ Life(p) \/ Closes(p)
  PROVE  SchedulerInv'
<1> USE SchedulerAssumption, GapType
<1>1. HandleTypeOK'
  <2>1. CASE Stop(p) \/ Crash(p) \/ Stopped(p) \/ Closes(p)
    <3>1. enabled' \in BOOLEAN
      BY <2>1 DEF Stop, Crash, Restart, Stopped, Closes, Cooldown, SchedulerInv, TypeOK, HandleTypeOK
    <3>2. faults' \in 0 .. MaxFaults
      BY <2>1, RedisAssumption
      DEF Stop, Crash, Restart, Stopped, Closes, Cooldown, SchedulerInv, TypeOK, HandleTypeOK
    <3>3. blocked' \in [Procs -> BOOLEAN]
      BY <2>1 DEF Stop, Crash, Restart, Stopped, Closes, Cooldown, SchedulerInv, TypeOK, HandleTypeOK
    <3> QED BY <3>1, <3>2, <3>3 DEF HandleTypeOK
  <2>2. CASE \E o \in Outcomes : Boot(p, o)
    BY <2>2, ExecuteTypes DEF Boot, SchedulerInv, TypeOK
  <2> QED BY <2>1, <2>2 DEF Life
<1>2. /\ life' \in [Procs -> {"up", "stopping", "down"}]
      /\ pc' \in [Procs -> {"none", "asleep", "tick", "enqueue", "release"}]
      /\ due' \in [Procs -> -Interval .. Interval]
  <2>1. life' \in [Procs -> {"up", "stopping", "down"}]
    BY DEF Stop, Crash, Life, Stopped, Boot, Closes, SchedulerInv, TypeOK
  <2>2. pc' \in [Procs -> {"none", "asleep", "tick", "enqueue", "release"}]
    BY DEF Stop, Crash, Life, Stopped, Boot, Closes, SchedulerInv, TypeOK
  <2>3. due' \in [Procs -> -Interval .. Interval]
    BY DEF Stop, Crash, Life, Stopped, Boot, Closes, SchedulerInv, TypeOK
  <2> QED BY <2>1, <2>2, <2>3
<1>3. DueInv'
  <2>1. CASE UNCHANGED <<pc, due>>
    BY <2>1 DEF SchedulerInv, DueInv
  <2>2. CASE due' = [due EXCEPT ![p] = 0] /\ pc' = [pc EXCEPT ![p] = "none"]
    BY <2>2 DEF SchedulerInv, TypeOK, DueInv
  <2>3. CASE UNCHANGED due /\ pc' = [pc EXCEPT ![p] = IF Schedules(p) THEN "tick" ELSE "none"]
    BY <2>3 DEF SchedulerInv, TypeOK, DueInv
  <2>4. CASE Stop(p) \/ Crash(p)
    BY <2>2, <2>4 DEF Stop, Crash
  <2>5. CASE Stopped(p) \/ Closes(p)
    BY <2>1, <2>5 DEF Stopped, Closes
  <2>6. CASE \E o \in Outcomes : Boot(p, o)
    BY <2>1, <2>3, <2>6 DEF Boot
  <2> QED
    BY <2>4, <2>5, <2>6 DEF Life
<1>4. memory' \in [Procs -> 0 .. MaxJobs] /\ hand' \in [Procs -> BOOLEAN]
  <2>1. memory' \in [Procs -> 0 .. MaxJobs]
    BY DEF Stop, Crash, Life, Stopped, Boot, Closes, SchedulerInv, TypeOK
  <2>2. hand' \in [Procs -> BOOLEAN]
    BY DEF Stop, Crash, Life, Stopped, Boot, Closes, SchedulerInv, TypeOK
  <2> QED BY <2>1, <2>2
<1>5. /\ lease' \in [by : Procs \cup {Nobody, Dead}, left : 0 .. Gap]
      /\ lease'.by = Nobody <=> lease'.left = 0
      /\ lease'.left = lease.left
      /\ lease'.by = Nobody <=> lease.by = Nobody
  <2>1. CASE lease' = Orphaned(p)
    BY <2>1, OrphanedType DEF SchedulerInv, TypeOK
  <2>2. CASE lease' = lease
    BY <2>2 DEF SchedulerInv, TypeOK
  <2> QED BY <2>1, <2>2 DEF Stop, Crash, Life, Stopped, Boot, Closes
<1>6. UNCHANGED <<fixed, queue, since, returned>>
  BY DEF Stop, Crash, Life, Stopped, Boot, Closes
<1>7. LeaseInv'
  BY <1>5, <1>6 DEF SchedulerInv, LeaseInv, Gap
<1> QED BY <1>1, <1>2, <1>3, <1>4, <1>5, <1>6, <1>7 DEF SchedulerInv, TypeOK, fixed, Gap

LEMMA PassInv == SchedulerInv /\ Pass => SchedulerInv'
<1> SUFFICES ASSUME SchedulerInv, Pass PROVE SchedulerInv'
  OBVIOUS
<1> USE SchedulerAssumption, GapType
<1>1. /\ pc' \in [Procs -> {"none", "asleep", "tick", "enqueue", "release"}]
      /\ due' \in [Procs -> -Interval .. Interval]
      /\ DueInv'
  BY DEF Pass, SchedulerInv, TypeOK, DueInv
<1>2. /\ lease' \in [by : Procs \cup {Nobody, Dead}, left : 0 .. Gap]
      /\ lease'.by = Nobody <=> lease'.left = 0
      /\ since' \in 0 .. Gap
      /\ LeaseInv'
  <2>1. CASE lease.left = 1
    BY <2>1 DEF Pass, SchedulerInv, TypeOK, LeaseInv, Free, Gap
  <2>2. CASE lease.left # 1
    <3>1. lease' = [lease EXCEPT !.left = IF lease.left > 0 THEN lease.left - 1 ELSE 0]
      BY <2>2 DEF Pass
    <3> QED BY <2>2, <3>1 DEF Pass, SchedulerInv, TypeOK, LeaseInv, Gap
  <2> QED BY <2>1, <2>2
<1>3. HandleTypeOK'
  BY DEF Pass, redis, SchedulerInv, TypeOK, HandleTypeOK
<1> QED BY <1>1, <1>2, <1>3 DEF Pass, SchedulerInv, TypeOK, fixed, Gap

LEMMA StepInv == SchedulerInv /\ [Next]_vars => SchedulerInv'
<1> SUFFICES ASSUME SchedulerInv, [Next]_vars PROVE SchedulerInv'
  OBVIOUS
<1>1. CASE UNCHANGED vars
  BY <1>1 DEF vars, redis, SchedulerInv, TypeOK, HandleTypeOK, DueInv, LeaseInv, Gap
<1>2. CASE Pass
  BY <1>2, PassInv
<1>3. ASSUME NEW p \in Procs, Step(p) \/ EnqueueRaises(p)
      PROVE  SchedulerInv'
  BY <1>3, TickInv, AcquireInv, EnqueueRedisInv, ReleaseInv DEF Step
<1>4. ASSUME NEW p \in Procs, Serve(p) \/ RunJob(p) \/ RunMemory(p)
      PROVE  SchedulerInv'
  BY <1>4, WorkInv
<1>5. ASSUME NEW p \in Procs, Stop(p) \/ Crash(p) \/ Life(p) \/ Closes(p)
      PROVE  SchedulerInv'
  BY <1>5, LifeInv
<1> QED BY <1>1, <1>2, <1>3, <1>4, <1>5 DEF Next

-----------------------------------------------------------------------------
(* Theorems                                                                *)

\* Every process, queue and lease stays in its domain; the lease is free
\* exactly when no time is left of it.
THEOREM TypeCorrect == Spec => []TypeOK
<1>1. Init => SchedulerInv
  BY InitInv
<1>2. SchedulerInv /\ [Next]_vars => SchedulerInv'
  BY StepInv
<1>3. SchedulerInv => TypeOK
  BY DEF SchedulerInv
<1> QED BY <1>1, <1>2, <1>3, PTL DEF Spec

\* The lease is taken again only a whole lease after it was last taken,
\* unless its taker gave it back.
THEOREM LeaseSpaced == Spec => Spaced
<1>1. Init => SchedulerInv
  BY InitInv
<1>2. SchedulerInv /\ [Next]_vars => SchedulerInv'
  BY StepInv
<1>3. SchedulerInv => [lease.by = Nobody /\ lease'.by # Nobody => since = Gap \/ returned]_vars
  BY DEF SchedulerInv, LeaseInv
<1> QED BY <1>1, <1>2, <1>3, PTL DEF Spec, Spaced
=============================================================================
