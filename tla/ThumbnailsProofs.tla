-------------------------- MODULE ThumbnailsProofs --------------------------
(***************************************************************************)
(* Type correctness of Thumbnails; what is done has its thumbnail, nothing *)
(* unfinished is forgotten, and no thumbnail is left behind.               *)
(***************************************************************************)
EXTENDS Thumbnails, TLAPS

-----------------------------------------------------------------------------
(* The shape of the state.                                                 *)

\* A coroutine with a job has its item and a legal attempt, never a stale key,
\* and retries only while attempts are left.
Sane(h) ==
  /\ h.at = "idle" => h = Idle
  /\ h.at # "idle" => h.media \in Media /\ h.attempt \in 1 .. MaxAttempts
  /\ ~h.key
  /\ h.at = "tidy" /\ ~h.final => h.attempt < MaxAttempts
  /\ h.at \in {"again", "requeue"} => h.attempt < MaxAttempts

HandInv == \A x \in Runners : Sane(run[x])

\* What is worked on was uploaded, what is being removed was deleted, and a
\* row names a thumbnail only while it says done, or is gone.
RowInv ==
  /\ \A x \in Runners : run[x].at # "idle" => status[run[x].media] # "absent"
  /\ \A e \in leaving : status[e[1]] = "gone"
  /\ \A m \in Media : hasKey[m] => status[m] \in {"done", "gone"}

ShapeInv == TypeOK /\ HandInv /\ RowInv

-----------------------------------------------------------------------------
(* Helpers.                                                                *)

Statuses == {"absent", "pending", "processing", "done", "failed", "gone"}

LEMMA RunnerFacts ==
  \A x \in Runners : x[1] \in Procs /\ x[2] \in {"redis", "local"} /\ x = <<x[1], x[2]>>
BY DEF Runners, Procs

LEMMA IdleType == Idle \in Hand /\ Sane(Idle) /\ Idle.media \notin Media /\ ~Idle.wrote
BY ThumbnailAssumption DEF Idle, Hand, Steps, Sane

LEMMA PushType ==
  ASSUME TypeOK, NEW p \in Procs, NEW job \in Job, Push(p, job)
  PROVE  /\ queue' \in Seq(Job) /\ local' \in [Procs -> Seq(Job \cup {Sentinel})]
         /\ crashes' \in 0 .. MaxCrashes /\ glitches' \in 0 .. MaxGlitches
         /\ errors' \in 0 .. MaxErrors /\ cut' \in BOOLEAN
<1>1. Append(queue, job) \in Seq(Job)
  BY DEF TypeOK
<1>2. Append(local[p], job) \in Seq(Job \cup {Sentinel})
  <2>1. local[p] \in Seq(Job \cup {Sentinel})
    BY DEF TypeOK
  <2> QED BY <2>1
<1>3. [local EXCEPT ![p] = Append(@, job)] \in [Procs -> Seq(Job \cup {Sentinel})]
  BY <1>2 DEF TypeOK
<1>4. CASE queue' = Append(queue, job) /\ UNCHANGED <<local, bounds>>
  BY <1>1, <1>4 DEF TypeOK, bounds
<1>5. CASE /\ glitches < MaxGlitches /\ glitches' = glitches + 1
           /\ local' = [local EXCEPT ![p] = Append(@, job)]
           /\ queue' \in {queue, Append(queue, job)}
           /\ UNCHANGED <<crashes, errors, cut>>
  <2>1. queue' \in Seq(Job)
    BY <1>1, <1>5 DEF TypeOK
  <2>2. glitches' \in 0 .. MaxGlitches
    BY <1>5, ThumbnailAssumption DEF TypeOK
  <2> QED BY <1>3, <1>5, <2>1, <2>2 DEF TypeOK
<1> QED BY <1>4, <1>5 DEF Push

LEMMA ErrorType ==
  ASSUME TypeOK, Error
  PROVE  /\ crashes' \in 0 .. MaxCrashes /\ glitches' \in 0 .. MaxGlitches
         /\ errors' \in 0 .. MaxErrors /\ cut' \in BOOLEAN /\ errors' > 0
BY ThumbnailAssumption DEF Error, TypeOK

LEMMA WriteFacts ==
  ASSUME TypeOK, NEW m \in Media, NEW s \in Statuses, NEW k \in BOOLEAN, Write(m, s, k)
  PROVE  /\ status' \in [Media -> Statuses] /\ hasKey' \in [Media -> BOOLEAN]
         /\ status[m] \notin {"absent", "gone"} /\ status'[m] = s /\ hasKey'[m] = k
         /\ \A n \in Media \ {m} : status'[n] = status[n] /\ hasKey'[n] = hasKey[n]
BY DEF TypeOK, Write, Present, Statuses

\* One coroutine moves, the others stand still.
Others(x) == \A y \in Runners \ {x} : run'[y] = run[y]

LEMMA ToFacts ==
  ASSUME TypeOK, NEW x \in Runners, NEW s \in Steps, To(x, s)
  PROVE  /\ run' \in [Runners -> Hand] /\ Others(x)
         /\ run'[x].at = s /\ run'[x].media = run[x].media /\ run'[x].attempt = run[x].attempt
         /\ run'[x].key = run[x].key /\ run'[x].wrote = run[x].wrote
         /\ run'[x].final = run[x].final
BY DEF TypeOK, To, Others, Hand

LEMMA FreeFacts ==
  ASSUME TypeOK, NEW x \in Runners, Free(x)
  PROVE  run' \in [Runners -> Hand] /\ Others(x) /\ run'[x] = Idle
BY IdleType DEF TypeOK, Free, Others

LEMMA FailFacts ==
  ASSUME TypeOK, NEW x \in Runners, NEW b \in BOOLEAN, Fail(x, b)
  PROVE  /\ run' \in [Runners -> Hand] /\ Others(x)
         /\ run'[x].at = "tidy" /\ run'[x].media = run[x].media
         /\ run'[x].attempt = run[x].attempt
         /\ run'[x].key = run[x].key /\ run'[x].wrote = run[x].wrote
         /\ ~run'[x].final => b /\ ~(run[x].attempt >= MaxAttempts)
<1>1. PICK f \in BOOLEAN : f = (~b \/ run[x].attempt >= MaxAttempts)
  OBVIOUS
<1>2. run' = [run EXCEPT ![x].at = "tidy", ![x].final = f]
  BY <1>1 DEF Fail
<1>3. run[x] \in Hand /\ "tidy" \in Steps
  BY DEF TypeOK, Steps
<1>4. /\ run' \in [Runners -> Hand] /\ Others(x)
      /\ run'[x].at = "tidy" /\ run'[x].media = run[x].media
      /\ run'[x].attempt = run[x].attempt
      /\ run'[x].key = run[x].key /\ run'[x].wrote = run[x].wrote
      /\ run'[x].final = f
  BY <1>2, <1>3 DEF TypeOK, Others, Hand
<1> QED BY <1>1, <1>4

LEMMA StartedFacts ==
  ASSUME TypeOK, NEW job \in Job
  PROVE  /\ Started(job) \in Hand
         /\ \/ Started(job) = Idle /\ (~Present(job.media) \/ status[job.media] = "done")
            \/ /\ Started(job).at = "mark" /\ Started(job).media = job.media
               /\ Started(job).attempt = job.attempt /\ Started(job).key = hasKey[job.media]
               /\ ~Started(job).wrote /\ Present(job.media) /\ status[job.media] # "done"
<1>1. job.media \in Media /\ job.attempt \in 1 .. MaxAttempts /\ hasKey[job.media] \in BOOLEAN
  BY DEF TypeOK, Job
<1>2. CASE Present(job.media) /\ status[job.media] # "done"
  <2>1. Started(job) = [at |-> "mark", media |-> job.media, attempt |-> job.attempt,
                        key |-> hasKey[job.media], wrote |-> FALSE, final |-> FALSE]
    BY <1>2 DEF Started, Idle
  <2> QED BY <1>1, <1>2, <2>1, ThumbnailAssumption DEF Hand, Steps
<1>3. CASE ~(Present(job.media) /\ status[job.media] # "done")
  BY <1>3, IdleType DEF Started
<1> QED BY <1>2, <1>3

-----------------------------------------------------------------------------
(* A step of coroutine x keeps the shape if its own part is shown.         *)

Bounded ==
  /\ crashes \in 0 .. MaxCrashes /\ glitches \in 0 .. MaxGlitches
  /\ errors \in 0 .. MaxErrors /\ cut \in BOOLEAN

\* What every step does to a row: nothing comes back.
RowStep ==
  /\ status' \in [Media -> Statuses] /\ hasKey' \in [Media -> BOOLEAN]
  /\ \A m \in Media : /\ status[m] # "absent" => status'[m] # "absent"
                      /\ status[m] = "gone" => status'[m] = "gone"
                      /\ hasKey'[m] => status'[m] \in {"done", "gone"}

LEMMA ShapeKept ==
  ASSUME ShapeInv, NEW x \in Runners, run' \in [Runners -> Hand], Others(x), Sane(run'[x]),
         run'[x].at # "idle" => status'[run'[x].media] # "absent",
         RowStep, thumbs' \subseteq Media, UNCHANGED <<tiny, originals, outside>>,
         queue' \in Seq(Job), local' \in [Procs -> Seq(Job \cup {Sentinel})], Bounded'
  PROVE  ShapeInv'
<1>1. TypeOK'
  BY DEF ShapeInv, TypeOK, RowStep, Statuses, Bounded, outside, procs
<1>2. HandInv'
  BY DEF ShapeInv, HandInv, Others, Sane
<1>3. \A y \in Runners : run'[y].at # "idle" => status'[run'[y].media] # "absent"
  <2> TAKE y \in Runners
  <2>1. CASE y = x
    BY <2>1
  <2>2. CASE y # x
    <3>1. run'[y] = run[y] /\ (run[y].at # "idle" => run[y].media \in Media)
      BY <2>2 DEF ShapeInv, HandInv, Sane, Others
    <3> QED BY <3>1 DEF ShapeInv, RowInv, RowStep
  <2> QED BY <2>1, <2>2
<1>4. RowInv'
  BY <1>3 DEF ShapeInv, TypeOK, RowInv, RowStep, outside
<1> QED BY <1>1, <1>2, <1>4 DEF ShapeInv

LEMMA RowsStay == ASSUME ShapeInv, UNCHANGED rows PROVE RowStep
BY DEF ShapeInv, TypeOK, RowInv, RowStep, rows, Statuses

LEMMA WriteStep ==
  ASSUME ShapeInv, NEW m \in Media, NEW s \in Statuses \ {"absent", "gone"}, NEW k \in BOOLEAN,
         k => s = "done", Write(m, s, k)
  PROVE  RowStep
BY WriteFacts DEF ShapeInv, RowInv, RowStep, Statuses

LEMMA HandFacts ==
  ASSUME ShapeInv, NEW x \in Runners
  PROVE  /\ TypeOK /\ run[x] \in Hand /\ Sane(run[x]) /\ x[1] \in Procs
         /\ run[x].at # "idle" => run[x].media \in Media /\ status[run[x].media] # "absent"
         /\ queue \in Seq(Job) /\ local \in [Procs -> Seq(Job \cup {Sentinel})]
         /\ thumbs \subseteq Media /\ Bounded
BY RunnerFacts DEF ShapeInv, TypeOK, HandInv, RowInv, Sane, Bounded

LEMMA BoundsStay == ASSUME TypeOK, UNCHANGED bounds \/ Error PROVE Bounded'
BY ErrorType DEF TypeOK, Bounded, bounds

LEMMA TakeShape == ASSUME ShapeInv, NEW x \in Runners, Take(x) PROVE ShapeInv'
<1>1. PICK w : /\ w = IF x[2] = "redis" THEN queue ELSE local[x[1]]
               /\ w # <<>> /\ Head(w) # Sentinel
               /\ IF x[2] = "redis"
                  THEN queue' = Tail(queue) /\ UNCHANGED local
                  ELSE local' = [local EXCEPT ![x[1]] = Tail(@)] /\ UNCHANGED queue
               /\ \/ run' = [run EXCEPT ![x] = Started(Head(w))] /\ UNCHANGED bounds
                  \/ UNCHANGED run /\ Error
                  \/ /\ x[2] = "redis" /\ glitches < MaxGlitches
                     /\ glitches' = glitches + 1 /\ cut' = TRUE
                     /\ UNCHANGED <<run, crashes, errors>>
               /\ UNCHANGED <<rows, objects, outside>>
  BY DEF Take
<1>2. w \in Seq(Job \cup {Sentinel}) /\ (x[2] = "redis" => w \in Seq(Job))
  BY <1>1, HandFacts
<1>3. Head(w) \in Job /\ Tail(w) \in Seq(Job \cup {Sentinel}) /\ (x[2] = "redis" => Tail(w) \in Seq(Job))
  BY <1>1, <1>2
<1>4. queue' \in Seq(Job) /\ local' \in [Procs -> Seq(Job \cup {Sentinel})]
  BY <1>1, <1>3, HandFacts
<1>5. Bounded'
  <2>1. CASE UNCHANGED bounds \/ Error
    BY <2>1, BoundsStay, HandFacts
  <2>2. CASE glitches < MaxGlitches /\ glitches' = glitches + 1 /\ cut' = TRUE /\ UNCHANGED <<crashes, errors>>
    BY <2>2, HandFacts, ThumbnailAssumption DEF Bounded
  <2> QED BY <1>1, <2>1, <2>2
<1>6. RowStep
  BY <1>1, RowsStay
<1>7. CASE UNCHANGED run
  BY <1>1, <1>4, <1>5, <1>6, <1>7, HandFacts, ShapeKept DEF Others, objects, rows, TypeOK
<1>8. CASE run' = [run EXCEPT ![x] = Started(Head(w))]
  <2>1. PICK h \in Hand : h = Started(Head(w))
    BY <1>3, StartedFacts, HandFacts
  <2>2. run' \in [Runners -> Hand] /\ Others(x) /\ run'[x] = h
    BY <1>8, <2>1, HandFacts DEF TypeOK, Others
  <2>3. Sane(h) /\ (h.at # "idle" => status[h.media] # "absent")
    <3>1. Head(w).media \in Media /\ Head(w).attempt \in 1 .. MaxAttempts
      BY <1>3 DEF Job
    <3>2. h = Idle \/ (h.at = "mark" /\ h.media = Head(w).media /\ h.attempt = Head(w).attempt
                       /\ h.key = hasKey[h.media] /\ status[h.media] \notin {"absent", "gone", "done"})
      BY <1>3, <2>1, StartedFacts, HandFacts DEF Present
    <3>3. h # Idle => ~h.key
      BY <3>1, <3>2 DEF ShapeInv, RowInv
    <3> QED BY <3>1, <3>2, <3>3, IdleType DEF Sane, Idle
  <2> QED BY <1>1, <1>4, <1>5, <1>6, <2>2, <2>3, HandFacts, ShapeKept DEF objects, rows
<1> QED BY <1>1, <1>7, <1>8

\* The steps within a job: a row is written or not, the coroutine moves.
LEMMA MoveShape ==
  ASSUME ShapeInv, NEW x \in Runners, run[x].at # "idle", RowStep,
         \/ Free(x)
         \/ \E s \in Steps \ {"idle", "tidy", "again", "requeue"} : To(x, s)
         \/ \E b \in BOOLEAN : Fail(x, b),
         thumbs' \subseteq Media, UNCHANGED <<tiny, originals, jobs, outside>>,
         UNCHANGED bounds \/ Error
  PROVE  ShapeInv'
<1>1. Bounded'
  BY BoundsStay, HandFacts
<1>2. run[x].media \in Media /\ status'[run[x].media] # "absent" /\ Sane(run[x]) /\ run[x] \in Hand
  BY HandFacts DEF RowStep
<1> DEFINE Moved == /\ run' \in [Runners -> Hand] /\ Others(x) /\ Sane(run'[x])
                    /\ run'[x].at # "idle" => run'[x].media = run[x].media
<1>3. Moved
  <2>1. CASE Free(x)
    BY <2>1, FreeFacts, IdleType, HandFacts DEF Idle
  <2>2. ASSUME NEW s \in Steps \ {"idle", "tidy", "again", "requeue"}, To(x, s) PROVE Moved
    BY <1>2, <2>2, ToFacts, HandFacts DEF Sane
  <2>3. ASSUME NEW b \in BOOLEAN, Fail(x, b) PROVE Moved
    <3>1. /\ run' \in [Runners -> Hand] /\ Others(x)
          /\ run'[x].at = "tidy" /\ run'[x].media = run[x].media
          /\ run'[x].attempt = run[x].attempt /\ run'[x].key = run[x].key
          /\ ~run'[x].final => ~(run[x].attempt >= MaxAttempts)
      BY <2>3, FailFacts, HandFacts
    <3>2. ~run'[x].final => run[x].attempt < MaxAttempts
      BY <1>2, <3>1, ThumbnailAssumption DEF Sane
    <3> QED BY <1>2, <3>1, <3>2 DEF Sane
  <2> QED BY <2>1, <2>2, <2>3
<1> QED BY <1>1, <1>2, <1>3, HandFacts, ShapeKept DEF jobs

LEMMA MarkShape == ASSUME ShapeInv, NEW x \in Runners, Mark(x) PROVE ShapeInv'
<1>1. run[x].at # "idle" /\ run[x].media \in Media /\ run[x].key = FALSE
  BY HandFacts DEF Mark, Sane, Hand
<1>2. RowStep
  <2>1. CASE Write(run[x].media, "processing", run[x].key)
    BY <1>1, <2>1, WriteStep DEF Statuses
  <2>2. CASE UNCHANGED rows
    BY <2>2, RowsStay
  <2> QED BY <2>1, <2>2 DEF Mark
<1>3. To(x, "read") \/ Free(x)
  BY DEF Mark
<1> QED BY <1>1, <1>2, <1>3, MoveShape, HandFacts DEF Mark, objects, Steps

LEMMA RenderShape == ASSUME ShapeInv, NEW x \in Runners, Render(x) PROVE ShapeInv'
<1>1. To(x, "finish") \/ To(x, "put") \/ \E b \in BOOLEAN : Fail(x, b)
  BY DEF Render
<1> QED BY <1>1, MoveShape, RowsStay, HandFacts DEF Render, objects, Steps

LEMMA PutShape == ASSUME ShapeInv, NEW x \in Runners, Put(x) PROVE ShapeInv'
<1>1. run[x].at = "put" /\ run[x].media \in Media
  BY HandFacts DEF Put
<1>2. thumbs' \subseteq Media /\ RowStep
  BY <1>1, RowsStay, HandFacts DEF Put
<1>3. CASE run' = [run EXCEPT ![x].at = "finish", ![x].wrote = TRUE] /\ UNCHANGED bounds
  <2>1. /\ run' \in [Runners -> Hand] /\ Others(x)
        /\ run'[x].at = "finish" /\ run'[x].media = run[x].media
        /\ run'[x].attempt = run[x].attempt /\ run'[x].key = run[x].key
    BY <1>3, HandFacts DEF TypeOK, Others, Hand, Steps
  <2>2. Bounded'
    BY <1>3, BoundsStay, HandFacts
  <2>3. status'[run'[x].media] # "absent"
    BY <1>1, <1>2, <2>1, HandFacts DEF RowStep
  <2>4. Sane(run'[x])
    BY <1>1, <2>1, HandFacts DEF Sane
  <2> QED BY <1>2, <2>1, <2>2, <2>3, <2>4, ShapeKept, HandFacts DEF Put, jobs
<1>4. CASE Fail(x, TRUE) /\ Error
  BY <1>1, <1>2, <1>4, MoveShape DEF Put
<1> QED BY <1>3, <1>4 DEF Put

LEMMA FinishShape == ASSUME ShapeInv, NEW x \in Runners, Finish(x) PROVE ShapeInv'
<1>1. run[x].at # "idle" /\ run[x].media \in Media
  BY HandFacts DEF Finish
<1>2. RowStep
  <2>1. CASE Write(run[x].media, "done", run[x].media \notin tiny)
    BY <1>1, <2>1, WriteStep DEF Statuses
  <2>2. CASE UNCHANGED rows
    BY <2>2, RowsStay
  <2> QED BY <2>1, <2>2 DEF Finish
<1>3. Free(x) \/ Fail(x, TRUE)
  BY DEF Finish
<1> QED BY <1>1, <1>2, <1>3, MoveShape, HandFacts DEF Finish, objects

LEMMA GiveUpShape == ASSUME ShapeInv, NEW x \in Runners, GiveUp(x) PROVE ShapeInv'
<1>1. run[x].at # "idle" /\ run[x].media \in Media
  BY HandFacts DEF GiveUp
<1>2. RowStep
  <2>1. CASE Write(run[x].media, "failed", FALSE)
    BY <1>1, <2>1, WriteStep DEF Statuses
  <2>2. CASE UNCHANGED rows
    BY <2>2, RowsStay
  <2> QED BY <2>1, <2>2 DEF GiveUp
<1> QED BY <1>1, <1>2, MoveShape, HandFacts DEF GiveUp, objects

\* The steps of a retry.
LEMMA RetryShape ==
  ASSUME ShapeInv, NEW x \in Runners, run[x].at # "idle", run[x].attempt < MaxAttempts, RowStep,
         NEW s \in {"again", "requeue"}, To(x, s),
         thumbs' \subseteq Media, UNCHANGED <<tiny, originals, jobs, outside>>,
         UNCHANGED bounds \/ Error
  PROVE  ShapeInv'
<1>1. Bounded'
  BY BoundsStay, HandFacts
<1>2. run[x].media \in Media /\ status'[run[x].media] # "absent" /\ Sane(run[x])
  BY HandFacts DEF RowStep
<1>3. /\ run' \in [Runners -> Hand] /\ Others(x)
      /\ run'[x].at = s /\ run'[x].media = run[x].media /\ run'[x].attempt = run[x].attempt
      /\ run'[x].key = run[x].key
  BY ToFacts, HandFacts DEF Steps
<1>4. Sane(run'[x])
  BY <1>2, <1>3 DEF Sane
<1> QED BY <1>1, <1>2, <1>3, <1>4, HandFacts, ShapeKept DEF jobs

LEMMA TidyShape == ASSUME ShapeInv, NEW x \in Runners, Tidy(x) PROVE ShapeInv'
<1>1. run[x].at = "tidy" /\ run[x].media \in Media /\ Sane(run[x])
  BY HandFacts DEF Tidy
<1>2. thumbs' \subseteq Media /\ RowStep /\ (UNCHANGED bounds \/ Error)
  BY RowsStay, HandFacts DEF Tidy
<1>3. CASE run[x].final
  BY <1>1, <1>2, <1>3, MoveShape DEF Tidy, Steps
<1>4. CASE ~run[x].final
  BY <1>1, <1>2, <1>4, RetryShape DEF Tidy, Sane
<1> QED BY <1>3, <1>4

LEMMA AgainShape == ASSUME ShapeInv, NEW x \in Runners, Again(x) PROVE ShapeInv'
<1>1. run[x].at = "again" /\ run[x].media \in Media /\ Sane(run[x])
  BY HandFacts DEF Again
<1>2. RowStep
  <2>1. CASE Write(run[x].media, "pending", FALSE)
    BY <1>1, <2>1, WriteStep DEF Statuses
  <2>2. CASE UNCHANGED rows
    BY <2>2, RowsStay
  <2> QED BY <2>1, <2>2 DEF Again
<1>3. CASE To(x, "requeue")
  BY <1>1, <1>2, <1>3, RetryShape, HandFacts DEF Again, objects, Sane
<1>4. CASE Free(x)
  BY <1>1, <1>2, <1>4, MoveShape, HandFacts DEF Again, objects
<1> QED BY <1>3, <1>4 DEF Again

LEMMA RequeueShape == ASSUME ShapeInv, NEW x \in Runners, Requeue(x) PROVE ShapeInv'
<1>1. PICK job : /\ job = [media |-> run[x].media, attempt |-> run[x].attempt + 1]
                 /\ IF x[2] = "redis"
                    THEN Push(x[1], job)
                    ELSE local' = [local EXCEPT ![x[1]] = Append(@, job)] /\ UNCHANGED <<queue, bounds>>
  BY DEF Requeue
<1>2. job \in Job
  <2>1. run[x].at = "requeue" /\ run[x].media \in Media /\ Sane(run[x])
    BY HandFacts DEF Requeue
  <2> QED BY <1>1, <2>1, ThumbnailAssumption DEF Sane, Job
<1>3. queue' \in Seq(Job) /\ local' \in [Procs -> Seq(Job \cup {Sentinel})] /\ Bounded'
  <2>1. CASE x[2] = "redis"
    BY <1>1, <1>2, <2>1, PushType, HandFacts DEF Bounded
  <2>2. CASE x[2] # "redis"
    <3>1. local[x[1]] \in Seq(Job \cup {Sentinel})
      BY HandFacts
    <3>2. Append(local[x[1]], job) \in Seq(Job \cup {Sentinel})
      BY <1>2, <3>1
    <3> QED BY <1>1, <2>2, <3>2, BoundsStay, HandFacts
  <2> QED BY <2>1, <2>2
<1>4. run' \in [Runners -> Hand] /\ Others(x) /\ run'[x] = Idle
  BY FreeFacts, HandFacts DEF Requeue
<1>5. RowStep /\ UNCHANGED <<tiny, originals, thumbs, outside>>
  BY RowsStay DEF Requeue, objects
<1>6. Sane(run'[x]) /\ run'[x].at = "idle"
  BY <1>4, IdleType DEF Idle
<1> QED BY <1>3, <1>4, <1>5, <1>6, HandFacts, ShapeKept

-----------------------------------------------------------------------------
(* The steps around the coroutines.                                        *)

\* They leave the hands alone, or empty.
LEMMA AroundShape ==
  ASSUME ShapeInv, TypeOK', RowStep, \A x \in Runners : run'[x] = run[x] \/ run'[x] = Idle,
         \A e \in leaving' : e \in leaving \/ status'[e[1]] = "gone"
  PROVE  ShapeInv'
<1>1. HandInv'
  BY IdleType DEF ShapeInv, HandInv, Sane, Idle
<1>2. \A x \in Runners : run'[x].at # "idle" => status'[run'[x].media] # "absent"
  <2> TAKE x \in Runners
  <2>1. CASE run'[x] = run[x]
    BY <2>1, HandFacts DEF RowStep
  <2>2. CASE run'[x] = Idle
    BY <2>2 DEF Idle
  <2> QED BY <2>1, <2>2
<1>3. \A e \in leaving' : status'[e[1]] = "gone"
  BY DEF ShapeInv, TypeOK, RowInv, RowStep
<1> QED BY <1>1, <1>2, <1>3 DEF ShapeInv, RowInv, RowStep

LEMMA UploadShape == ASSUME ShapeInv, NEW m \in Media, Upload(m) PROVE ShapeInv'
<1>1. /\ status[m] = "absent" /\ status' = [status EXCEPT ![m] = "pending"]
      /\ originals' = originals \cup {m} /\ fresh' = fresh \cup {m}
      /\ UNCHANGED <<hasKey, tiny, thumbs, leaving, jobs, run, procs, bounds>>
  BY DEF Upload
<1>2. TypeOK'
  BY <1>1 DEF ShapeInv, TypeOK, jobs, procs, bounds
<1>3. RowStep
  BY <1>1 DEF ShapeInv, TypeOK, RowInv, RowStep, Statuses
<1> QED BY <1>1, <1>2, <1>3, AroundShape

LEMMA EnqueueShape == ASSUME ShapeInv, NEW m \in Media, Enqueue(m) PROVE ShapeInv'
<1>1. App \in Procs /\ First(m) \in Job /\ Push(App, First(m))
  BY ThumbnailAssumption DEF Procs, First, Job, Enqueue
<1>2. TypeOK'
  BY <1>1, PushType DEF ShapeInv, TypeOK, Enqueue, rows, objects, procs
<1> QED BY <1>2, RowsStay, AroundShape DEF Enqueue

LEMMA DeleteShape == ASSUME ShapeInv, NEW m \in Media, Delete(m) PROVE ShapeInv'
<1>1. /\ leaving' \subseteq leaving \cup {<<m, "original">>, <<m, "thumb">>}
      /\ <<m, "original">> \in Media \X {"original", "thumb"} /\ <<m, "original">>[1] = m
      /\ <<m, "thumb">> \in Media \X {"original", "thumb"} /\ <<m, "thumb">>[1] = m
  BY DEF Delete
<1>2. /\ Present(m) /\ status' = [status EXCEPT ![m] = "gone"]
      /\ UNCHANGED <<hasKey, objects, fresh, jobs, run, procs, bounds>>
  BY DEF Delete
<1>3. TypeOK'
  BY <1>1, <1>2 DEF ShapeInv, TypeOK, objects, jobs, procs, bounds
<1>4. RowStep
  BY <1>2 DEF ShapeInv, TypeOK, RowInv, RowStep, Statuses
<1>5. \A e \in leaving' : e \in leaving \/ status'[e[1]] = "gone"
  BY <1>1, <1>2 DEF ShapeInv, TypeOK
<1> QED BY <1>1, <1>2, <1>3, <1>4, <1>5, AroundShape

LEMMA RemoveObjectShape ==
  ASSUME ShapeInv, NEW m \in Media, NEW o \in {"original", "thumb"}, RemoveObject(m, o) PROVE ShapeInv'
<1>1. Bounded'
  BY BoundsStay DEF RemoveObject, ShapeInv
<1>2. TypeOK'
  BY <1>1 DEF RemoveObject, Bounded, ShapeInv, TypeOK, rows, jobs, procs
<1> QED BY <1>2, RowsStay, AroundShape DEF RemoveObject

LEMMA EntryType ==
  \A m \in Media : <<m, FALSE>> \in Media \X BOOLEAN /\ <<m, TRUE>> \in Media \X BOOLEAN
<1>1. \A m \in Media, b \in BOOLEAN : <<m, b>> \in Media \X BOOLEAN
  OBVIOUS
<1>2. TRUE \in BOOLEAN /\ FALSE \in BOOLEAN
  OBVIOUS
<1> QED BY <1>1, <1>2, Zenon

LEMMA StartShape == ASSUME ShapeInv, NEW p \in Workers \cup Tools, Start(p) PROVE ShapeInv'
<1>1. PICK S : /\ S = {<<m, FALSE>> : m \in Unfinished}
                        \cup (IF p \in Tools THEN {<<m, TRUE>> : m \in Failures} ELSE {})
               /\ sweep' = [sweep EXCEPT ![p] = S]
  BY DEF Start
<1>2. S \subseteq Media \X BOOLEAN
  <2>1. {<<m, FALSE>> : m \in Unfinished} \subseteq Media \X BOOLEAN
    BY EntryType DEF Unfinished
  <2>2. {<<m, TRUE>> : m \in Failures} \subseteq Media \X BOOLEAN
    BY EntryType DEF Failures
  <2> QED BY <1>1, <2>1, <2>2
<1>3. TypeOK'
  BY <1>1, <1>2 DEF Start, ShapeInv, TypeOK, Modes, rows, objects, jobs, bounds
<1> QED BY <1>3, RowsStay, AroundShape DEF Start

LEMMA ResetShape == ASSUME ShapeInv, NEW p \in Procs, NEW m \in Media, Reset(p, m) PROVE ShapeInv'
<1>1. RowStep
  <2>1. CASE Write(m, "pending", FALSE)
    BY <2>1, WriteStep DEF Statuses
  <2>2. CASE UNCHANGED rows
    BY <2>2, RowsStay
  <2> QED BY <2>1, <2>2 DEF Reset
<1>2. Bounded'
  BY BoundsStay DEF Reset, ShapeInv
<1>3. sweep' \in [Procs -> SUBSET (Media \X BOOLEAN)]
  <2>0. (sweep[p] \ {<<m, TRUE>>}) \cup {<<m, FALSE>>} \in SUBSET (Media \X BOOLEAN)
    BY EntryType DEF ShapeInv, TypeOK
  <2>1. PICK S \in SUBSET (Media \X BOOLEAN) : sweep' = [sweep EXCEPT ![p] = S]
    <3>1. CASE sweep' = [sweep EXCEPT ![p] = (@ \ {<<m, TRUE>>}) \cup {<<m, FALSE>>}]
      BY <2>0, <3>1
    <3>2. CASE sweep' = [sweep EXCEPT ![p] = {}]
      BY <3>2
    <3> QED BY <3>1, <3>2 DEF Reset
  <2> QED BY <2>1 DEF ShapeInv, TypeOK
<1>4. TypeOK'
  BY <1>1, <1>2, <1>3 DEF Reset, Bounded, ShapeInv, TypeOK, objects, jobs, RowStep, Statuses
<1> QED BY <1>1, <1>4, AroundShape DEF Reset

LEMMA SweepOneShape ==
  ASSUME ShapeInv, NEW p \in Procs, NEW m \in Media, SweepOne(p, m) PROVE ShapeInv'
<1>1. First(m) \in Job /\ Push(p, First(m))
  BY ThumbnailAssumption DEF First, Job, SweepOne
<1>2. sweep' \in [Procs -> SUBSET (Media \X BOOLEAN)]
  BY DEF SweepOne, ShapeInv, TypeOK
<1>3. TypeOK'
  BY <1>1, <1>2, PushType DEF ShapeInv, TypeOK, SweepOne, rows, objects
<1> QED BY <1>3, RowsStay, AroundShape DEF SweepOne

LEMMA CrashShape == ASSUME ShapeInv, NEW p \in Procs, Crash(p) PROVE ShapeInv'
<1>1. PICK q \in Modes : mode' = [mode EXCEPT ![p] = q]
  <2>1. (CASE p = App -> "up" [] p \in Workers -> "down" [] OTHER -> "over") \in Modes
    BY DEF Modes
  <2> QED BY <2>1 DEF Crash
<1>2. run' \in [Runners -> Hand] /\ \A x \in Runners : run'[x] = run[x] \/ run'[x] = Idle
  BY IdleType DEF Crash, ShapeInv, TypeOK
<1>3. <<>> \in Seq(Job \cup {Sentinel})
  OBVIOUS
<1>4. local' \in [Procs -> Seq(Job \cup {Sentinel})]
  BY <1>3 DEF Crash, ShapeInv, TypeOK
<1>5. crashes' \in 0 .. MaxCrashes /\ cut' \in BOOLEAN
  BY ThumbnailAssumption DEF Crash, ShapeInv, TypeOK
<1>6. fresh' \subseteq fresh /\ leaving' \subseteq leaving
  BY DEF Crash
<1>7. TypeOK'
  BY <1>1, <1>2, <1>4, <1>5, <1>6 DEF Crash, ShapeInv, TypeOK, rows, objects
<1> QED BY <1>2, <1>6, <1>7, RowsStay, AroundShape DEF Crash

LEMMA JoinShape == ASSUME ShapeInv, NEW p \in Tools, Join(p) PROVE ShapeInv'
<1>1. TypeOK'
  BY DEF Join, ShapeInv, TypeOK, Modes, rows, objects, jobs, bounds
<1> QED BY <1>1, RowsStay, AroundShape DEF Join

LEMMA StopShape == ASSUME ShapeInv, NEW p \in Tools, Stop(p) PROVE ShapeInv'
<1>1. <<p, "redis">> \in Runners /\ p \in Procs
  BY DEF Runners, Procs
<1>2. run' \in [Runners -> Hand] /\ \A x \in Runners : run'[x] = run[x] \/ run'[x] = Idle
  BY <1>1, FreeFacts DEF Stop, ShapeInv, Others
<1>3. local' \in [Procs -> Seq(Job \cup {Sentinel})]
  <2>1. local[p] \in Seq(Job \cup {Sentinel})
    BY <1>1 DEF ShapeInv, TypeOK
  <2>2. Append(local[p], Sentinel) \in Seq(Job \cup {Sentinel})
    BY <2>1
  <2> QED BY <2>2 DEF Stop, ShapeInv, TypeOK
<1>4. TypeOK'
  BY <1>2, <1>3 DEF Stop, ShapeInv, TypeOK, Modes, rows, objects
<1> QED BY <1>2, <1>4, RowsStay, AroundShape DEF Stop

LEMMA LeaveShape == ASSUME ShapeInv, NEW p \in Tools, Leave(p) PROVE ShapeInv'
<1>1. <<>> \in Seq(Job \cup {Sentinel})
  OBVIOUS
<1>2. local' \in [Procs -> Seq(Job \cup {Sentinel})] /\ cut' \in BOOLEAN
  BY <1>1 DEF Leave, ShapeInv, TypeOK
<1>3. TypeOK'
  BY <1>2 DEF Leave, ShapeInv, TypeOK, Modes, rows, objects
<1> QED BY <1>3, RowsStay, AroundShape DEF Leave

LEMMA ShapeInit == Init => ShapeInv
<1> SUFFICES ASSUME Init PROVE ShapeInv
  OBVIOUS
<1>1. <<>> \in Seq(Job) /\ <<>> \in Seq(Job \cup {Sentinel})
  OBVIOUS
<1>2. \A x \in Runners : run[x] = Idle /\ run[x].at = "idle"
  BY DEF Init, Idle
<1>3. mode \in [Procs -> Modes] /\ local \in [Procs -> Seq(Job \cup {Sentinel})]
  BY <1>1 DEF Init, Modes
<1>4. run \in [Runners -> Hand] /\ sweep \in [Procs -> SUBSET (Media \X BOOLEAN)]
  BY IdleType DEF Init
<1>5. crashes \in 0 .. MaxCrashes /\ glitches \in 0 .. MaxGlitches /\ errors \in 0 .. MaxErrors
  BY ThumbnailAssumption DEF Init
<1>6. TypeOK
  BY <1>1, <1>3, <1>4, <1>5 DEF Init, TypeOK
<1> QED BY <1>2, <1>6, IdleType DEF ShapeInv, HandInv, RowInv, Init

LEMMA ShapeStep == ShapeInv /\ [Next]_vars => ShapeInv'
<1> SUFFICES ASSUME ShapeInv, [Next]_vars PROVE ShapeInv'
  OBVIOUS
<1>1. ASSUME NEW m \in Media, Upload(m) \/ Enqueue(m) \/ Delete(m) PROVE ShapeInv'
  BY <1>1, UploadShape, EnqueueShape, DeleteShape
<1>2. ASSUME NEW m \in Media, NEW o \in {"original", "thumb"}, RemoveObject(m, o) PROVE ShapeInv'
  BY <1>2, RemoveObjectShape
<1>3. ASSUME NEW x \in Runners, Working(x) PROVE ShapeInv'
  BY <1>3, TakeShape, MarkShape, RenderShape, PutShape, FinishShape, TidyShape, AgainShape,
     RequeueShape, GiveUpShape DEF Working
<1>4. ASSUME NEW p \in Workers \cup Tools, Start(p) \/ Sweeping(p) PROVE ShapeInv'
  <2>1. p \in Procs
    BY DEF Procs
  <2> QED BY <1>4, <2>1, StartShape, ResetShape, SweepOneShape DEF Sweeping
<1>5. ASSUME NEW p \in Tools, Join(p) \/ Stop(p) \/ Leave(p) PROVE ShapeInv'
  BY <1>5, JoinShape, StopShape, LeaveShape
<1>6. ASSUME NEW p \in Procs, Crash(p) PROVE ShapeInv'
  BY <1>6, CrashShape
<1>7. CASE UNCHANGED vars
  BY <1>7 DEF vars, ShapeInv, TypeOK, HandInv, RowInv
<1> QED BY <1>1, <1>2, <1>3, <1>4, <1>5, <1>6, <1>7 DEF Next

\* The jobs, hands, sweeps and rows of generate_thumbnail, its queues and its
\* sweeps keep their shape: in particular no job has an attempt too many.
THEOREM TypeCorrect == Spec => []TypeOK
<1>1. ShapeInv => TypeOK
  BY DEF ShapeInv
<1> QED BY <1>1, ShapeInit, ShapeStep, PTL DEF Spec

-----------------------------------------------------------------------------
(* What is done has its thumbnail.                                         *)

\* A coroutine has written no thumbnail before it puts one; while nothing
\* fails, one about to finish has its thumbnail in place, and one that cleans
\* up behind itself does so because its item is gone.
Honest(h) ==
  /\ h.at \in {"mark", "read", "put"} => ~h.wrote
  /\ errors = 0 =>
       /\ h.at = "finish" /\ h.media \notin tiny => h.media \in thumbs \/ status[h.media] = "gone"
       /\ h.at = "tidy" /\ h.wrote => status[h.media] = "gone"

DoneInv == errors = 0 => \A m \in Media \ tiny : status[m] = "done" => m \in thumbs

PublishInv == DoneInv /\ \A x \in Runners : Honest(run[x])

\* Objects go only when their item is gone; what becomes done is published.
Published ==
  /\ RowStep /\ UNCHANGED tiny /\ errors <= errors'
  /\ errors' = 0 =>
       \A m \in Media : /\ m \in thumbs /\ m \notin thumbs' => status'[m] = "gone"
                        /\ status'[m] = "done" /\ m \notin tiny => status[m] = "done" \/ m \in thumbs'

LEMMA PublishKept ==
  ASSUME ShapeInv, PublishInv, Published,
         \A x \in Runners : run'[x] = run[x] \/ Honest(run[x])'
  PROVE  PublishInv'
<1>1. errors' = 0 => errors = 0
  BY DEF Published, ShapeInv, TypeOK
<1>2. DoneInv'
  BY <1>1 DEF Published, PublishInv, DoneInv
<1>3. ASSUME NEW x \in Runners PROVE Honest(run[x])'
  <2>1. CASE run'[x] # run[x]
    BY <2>1
  <2>2. CASE run'[x] = run[x]
    <3>1. PICK h : h = run[x] /\ h = run'[x]
      BY <2>2
    <3>2. Honest(h) /\ (h.at # "idle" => h.media \in Media)
      BY <3>1, HandFacts DEF PublishInv
    <3>3. Honest(h)'
      BY <1>1, <3>2 DEF Honest, Published, RowStep
    <3> QED BY <3>1, <3>3
  <2> QED BY <2>1, <2>2
<1> QED BY <1>2, <1>3 DEF PublishInv

LEMMA ErrorsGrow ==
  ASSUME TypeOK, UNCHANGED bounds \/ Error PROVE errors \in Nat /\ errors <= errors'
<1>1. errors \in Nat
  BY ThumbnailAssumption DEF TypeOK
<1> QED BY <1>1 DEF bounds, Error

\* An item that is not there is gone: a coroutine never has one that was not
\* uploaded.
LEMMA AwayIsGone ==
  ASSUME ShapeInv, NEW x \in Runners, run[x].at # "idle", ~Present(run[x].media)
  PROVE  status[run[x].media] = "gone"
BY HandFacts DEF Present

LEMMA TakePublish == ASSUME ShapeInv, PublishInv, NEW x \in Runners, Take(x) PROVE PublishInv'
<1>1. UNCHANGED <<rows, objects>> /\ errors <= errors'
  BY DEF Take, Error, bounds, ShapeInv, TypeOK
<1>2. Published
  BY <1>1, RowsStay DEF Published, rows, objects
<1>3. UNCHANGED run \/ \E job : run' = [run EXCEPT ![x] = Started(job)]
  BY DEF Take
<1>4. ASSUME NEW job, run' = [run EXCEPT ![x] = Started(job)] PROVE PublishInv'
  <2>1. PICK h : h = Started(job)
    OBVIOUS
  <2>2. h.at \in {"idle", "mark"} /\ ~h.wrote
    BY <2>1 DEF Started, Idle
  <2>3. run'[x] = h /\ Others(x)
    BY <1>4, <2>1 DEF ShapeInv, TypeOK, Others
  <2>4. Honest(h)'
    BY <2>2 DEF Honest
  <2> QED BY <1>2, <2>3, <2>4, PublishKept DEF Others
<1> QED BY <1>2, <1>3, <1>4, PublishKept

\* A step within a job that publishes nothing and takes nothing down.
LEMMA QuietPublish ==
  ASSUME ShapeInv, PublishInv, NEW x \in Runners, UNCHANGED objects, RowStep, errors <= errors',
         \A m \in Media : status'[m] = "done" => status[m] = "done",
         Others(x), run'[x].wrote => run[x].wrote,
         run'[x].at \notin {"finish", "tidy"},
         run'[x].at \in {"mark", "read", "put"} => run[x].at \in {"mark", "read", "put"}
  PROVE  PublishInv'
<1>1. Published
  BY DEF Published, objects
<1>2. PICK h : h = run'[x]
  OBVIOUS
<1>3. Honest(h)'
  BY <1>2 DEF PublishInv, Honest
<1> QED BY <1>1, <1>2, <1>3, PublishKept DEF Others

LEMMA MarkPublish == ASSUME ShapeInv, PublishInv, NEW x \in Runners, Mark(x) PROVE PublishInv'
<1>1. run[x].at = "mark" /\ run[x].media \in Media /\ run[x].key = FALSE
  BY HandFacts DEF Mark, Sane, Hand
<1>2. RowStep /\ \A m \in Media : status'[m] = "done" => status[m] = "done"
  <2>1. CASE Write(run[x].media, "processing", run[x].key)
    BY <1>1, <2>1, WriteStep, WriteFacts, HandFacts DEF Statuses
  <2>2. CASE UNCHANGED rows
    BY <2>2, RowsStay DEF rows
  <2> QED BY <2>1, <2>2 DEF Mark
<1>3. /\ Others(x) /\ (run'[x].wrote => run[x].wrote)
      /\ run'[x].at \in {"read", "idle"}
  BY ToFacts, FreeFacts, IdleType, HandFacts DEF Mark, Steps, Idle
<1>4. errors <= errors' /\ UNCHANGED objects
  BY ErrorsGrow, HandFacts DEF Mark
<1> QED BY <1>1, <1>2, <1>3, <1>4, QuietPublish

LEMMA RenderPublish == ASSUME ShapeInv, PublishInv, NEW x \in Runners, Render(x) PROVE PublishInv'
<1>1. run[x].at = "read" /\ UNCHANGED <<rows, objects, bounds>>
  BY DEF Render
<1>2. Published
  BY <1>1, RowsStay DEF Published, rows, objects, bounds, ShapeInv, TypeOK
<1>3. ~run[x].wrote
  BY <1>1 DEF PublishInv, Honest
<1>4. /\ Others(x) /\ run'[x].wrote = run[x].wrote /\ run'[x].media = run[x].media
      /\ \/ run'[x].at = "finish" /\ run[x].media \in tiny
         \/ run'[x].at \in {"put", "tidy"}
  BY ToFacts, FailFacts, HandFacts DEF Render, Steps
<1>5. PICK h : h = run'[x]
  OBVIOUS
<1>6. Honest(h)'
  BY <1>1, <1>3, <1>4, <1>5 DEF Honest, objects
<1> QED BY <1>2, <1>4, <1>5, <1>6, PublishKept DEF Others

LEMMA PutPublish == ASSUME ShapeInv, PublishInv, NEW x \in Runners, Put(x) PROVE PublishInv'
<1>1. /\ run[x].at = "put" /\ UNCHANGED <<rows, tiny>> /\ thumbs \subseteq thumbs'
      /\ errors <= errors' /\ errors \in Nat
  <2>1. UNCHANGED bounds \/ Error
    BY DEF Put
  <2> QED BY <2>1, ErrorsGrow, HandFacts DEF Put
<1>2. Published
  BY <1>1, RowsStay DEF Published, rows
<1>3. /\ Others(x) /\ run'[x].media = run[x].media
      /\ \/ run'[x].at = "finish" /\ run[x].media \in thumbs'
         \/ run'[x].at = "tidy" /\ errors' > 0
  <2>1. CASE run' = [run EXCEPT ![x].at = "finish", ![x].wrote = TRUE] /\ thumbs' = thumbs \cup {run[x].media}
    BY <2>1, HandFacts DEF TypeOK, Others, Hand
  <2>2. CASE Fail(x, TRUE) /\ Error
    <3>1. errors' > 0
      BY <2>2, ErrorType, HandFacts
    <3> QED BY <2>2, <3>1, FailFacts, HandFacts
  <2> QED BY <2>1, <2>2 DEF Put
<1>4. PICK h : h = run'[x]
  OBVIOUS
<1>5. Honest(h)'
  BY <1>1, <1>3, <1>4 DEF Honest
<1> QED BY <1>2, <1>3, <1>4, <1>5, PublishKept DEF Others

LEMMA FinishPublish == ASSUME ShapeInv, PublishInv, NEW x \in Runners, Finish(x) PROVE PublishInv'
<1>1. /\ run[x].at = "finish" /\ run[x].media \in Media /\ UNCHANGED objects
      /\ errors <= errors' /\ errors \in Nat
  <2>1. UNCHANGED bounds \/ Error
    BY DEF Finish
  <2> QED BY <2>1, ErrorsGrow, HandFacts DEF Finish
<1>2. PICK m \in Media : m = run[x].media
  BY <1>1
<1>3. /\ RowStep
      /\ \A n \in Media : status'[n] = "done" => status[n] = "done" \/ (n = m /\ status[m] # "gone")
  <2>1. CASE Write(m, "done", m \notin tiny)
    BY <1>1, <2>1, WriteStep, WriteFacts, HandFacts DEF Statuses
  <2>2. CASE UNCHANGED rows
    BY <2>2, RowsStay DEF rows
  <2> QED BY <1>2, <2>1, <2>2 DEF Finish
<1>4. errors = 0 /\ m \notin tiny /\ status[m] # "gone" => m \in thumbs
  BY <1>1, <1>2 DEF PublishInv, Honest
<1>5. Published
  BY <1>1, <1>3, <1>4 DEF Published, objects
<1>6. /\ Others(x)
      /\ \/ run'[x] = Idle
         \/ /\ run'[x].at = "tidy" /\ run'[x].media = m
            /\ (UNCHANGED rows /\ ~Present(m)) \/ errors' > 0
  <2>1. CASE Free(x)
    BY <2>1, FreeFacts, HandFacts
  <2>2. CASE Fail(x, TRUE) /\ UNCHANGED rows /\ ~Present(m)
    BY <1>2, <2>2, FailFacts, HandFacts
  <2>3. CASE Fail(x, TRUE) /\ Error
    <3>1. errors' > 0
      BY <2>3, ErrorType, HandFacts
    <3> QED BY <1>2, <2>3, <3>1, FailFacts, HandFacts
  <2> QED BY <1>2, <2>1, <2>2, <2>3 DEF Finish
<1>7. PICK h : h = run'[x]
  OBVIOUS
<1>8. UNCHANGED rows /\ ~Present(m) => status'[m] = "gone"
  BY <1>1, <1>2, AwayIsGone DEF rows
<1>9. Honest(h)'
  BY <1>1, <1>6, <1>7, <1>8 DEF Honest, Idle
<1> QED BY <1>5, <1>6, <1>7, <1>9, PublishKept DEF Others

LEMMA TidyPublish == ASSUME ShapeInv, PublishInv, NEW x \in Runners, Tidy(x) PROVE PublishInv'
<1>1. /\ run[x].at = "tidy" /\ UNCHANGED <<rows, tiny>> /\ errors <= errors' /\ errors \in Nat
      /\ \A m \in thumbs : m \in thumbs' \/ (m = run[x].media /\ run[x].wrote)
  BY ErrorsGrow, HandFacts DEF Tidy, TypeOK
<1>2. Published
  BY <1>1, RowsStay DEF Published, rows, PublishInv, Honest
<1>3. Others(x) /\ run'[x].at \in {"giveUp", "again"}
  BY ToFacts, HandFacts DEF Tidy, Steps
<1>4. PICK h : h = run'[x]
  OBVIOUS
<1>5. Honest(h)'
  BY <1>3, <1>4 DEF Honest
<1> QED BY <1>2, <1>3, <1>4, <1>5, PublishKept DEF Others

LEMMA AgainPublish == ASSUME ShapeInv, PublishInv, NEW x \in Runners, Again(x) PROVE PublishInv'
<1>1. run[x].at = "again" /\ run[x].media \in Media
  BY HandFacts DEF Again
<1>2. RowStep /\ \A m \in Media : status'[m] = "done" => status[m] = "done"
  <2>1. CASE Write(run[x].media, "pending", FALSE)
    BY <1>1, <2>1, WriteStep, WriteFacts, HandFacts DEF Statuses
  <2>2. CASE UNCHANGED rows
    BY <2>2, RowsStay DEF rows
  <2> QED BY <2>1, <2>2 DEF Again
<1>3. /\ Others(x) /\ (run'[x].wrote => run[x].wrote)
      /\ run'[x].at \in {"requeue", "idle"}
  <2>1. CASE To(x, "requeue")
    BY <2>1, ToFacts, HandFacts DEF Steps
  <2>2. CASE Free(x)
    BY <2>2, FreeFacts, IdleType, HandFacts DEF Idle
  <2> QED BY <2>1, <2>2 DEF Again
<1>4. errors <= errors' /\ UNCHANGED objects
  BY ErrorsGrow, HandFacts DEF Again
<1> QED BY <1>1, <1>2, <1>3, <1>4, QuietPublish

LEMMA RequeuePublish == ASSUME ShapeInv, PublishInv, NEW x \in Runners, Requeue(x) PROVE PublishInv'
<1>1. UNCHANGED <<rows, objects>> /\ errors <= errors'
  BY DEF Requeue, Push, bounds, ShapeInv, TypeOK
<1>2. Others(x) /\ run'[x] = Idle
  BY FreeFacts, HandFacts DEF Requeue
<1> QED BY <1>1, <1>2, RowsStay, QuietPublish, IdleType DEF rows, Idle

LEMMA GiveUpPublish == ASSUME ShapeInv, PublishInv, NEW x \in Runners, GiveUp(x) PROVE PublishInv'
<1>1. run[x].at = "giveUp" /\ run[x].media \in Media
  BY HandFacts DEF GiveUp
<1>2. RowStep /\ \A m \in Media : status'[m] = "done" => status[m] = "done"
  <2>1. CASE Write(run[x].media, "failed", FALSE)
    BY <1>1, <2>1, WriteStep, WriteFacts, HandFacts DEF Statuses
  <2>2. CASE UNCHANGED rows
    BY <2>2, RowsStay DEF rows
  <2> QED BY <2>1, <2>2 DEF GiveUp
<1>3. Others(x) /\ run'[x] = Idle
  BY FreeFacts, HandFacts DEF GiveUp
<1>4. errors <= errors' /\ UNCHANGED objects
  BY ErrorsGrow, HandFacts DEF GiveUp
<1> QED BY <1>1, <1>2, <1>3, <1>4, QuietPublish, IdleType DEF Idle

\* Around the coroutines, nothing becomes done and hands are only emptied.
LEMMA AroundPublish ==
  ASSUME ShapeInv, PublishInv, RowStep, UNCHANGED tiny, errors <= errors',
         \A m \in Media : status'[m] = "done" => status[m] = "done",
         \A m \in thumbs : m \in thumbs' \/ status[m] = "gone",
         \A x \in Runners : run'[x] = run[x] \/ run'[x] = Idle
  PROVE  PublishInv'
<1>1. Published
  BY DEF Published, RowStep, PublishInv, DoneInv
<1>2. ASSUME NEW x \in Runners PROVE run'[x] = run[x] \/ Honest(run[x])'
  BY DEF Honest, Idle
<1> QED BY <1>1, <1>2, PublishKept

LEMMA AroundStepPublish ==
  ASSUME ShapeInv, PublishInv,
         \/ \E m \in Media : Upload(m) \/ Enqueue(m) \/ Delete(m)
         \/ \E m \in Media, o \in {"original", "thumb"} : RemoveObject(m, o)
         \/ \E p \in Procs, m \in Media : Reset(p, m) \/ SweepOne(p, m)
         \/ \E p \in Procs : Start(p) \/ Crash(p)
         \/ \E p \in Tools : Join(p) \/ Stop(p) \/ Leave(p)
  PROVE  PublishInv'
<1> USE DEF rows, objects, bounds
<1>0. /\ errors \in Nat /\ (Error \/ UNCHANGED errors => errors <= errors')
      /\ status \in [Media -> Statuses] /\ TypeOK
  BY ThumbnailAssumption DEF ShapeInv, TypeOK, Statuses, Error
<1>1. ASSUME NEW m \in Media, Upload(m) PROVE PublishInv'
  <2>1. status' = [status EXCEPT ![m] = "pending"] /\ UNCHANGED <<hasKey, tiny, thumbs, run, bounds>>
        /\ status[m] = "absent"
    BY <1>1 DEF Upload
  <2>2. RowStep
    BY <2>1 DEF ShapeInv, TypeOK, RowInv, RowStep, Statuses
  <2> QED BY <1>0, <2>1, <2>2, AroundPublish
<1>2. ASSUME NEW m \in Media, Enqueue(m) PROVE PublishInv'
  BY <1>0, <1>2, RowsStay, AroundPublish DEF Enqueue, Push
<1>3. ASSUME NEW m \in Media, Delete(m) PROVE PublishInv'
  <2>1. /\ status' = [status EXCEPT ![m] = "gone"] /\ Present(m)
        /\ UNCHANGED <<hasKey, tiny, thumbs, run, bounds>>
    BY <1>3 DEF Delete
  <2>2. RowStep
    BY <2>1 DEF ShapeInv, TypeOK, RowInv, RowStep, Statuses
  <2> QED BY <1>0, <2>1, <2>2, AroundPublish
<1>4. ASSUME NEW m \in Media, NEW o \in {"original", "thumb"}, RemoveObject(m, o) PROVE PublishInv'
  <2>1. status[m] = "gone"
    <3>1. \A e \in leaving : status[e[1]] = "gone"
      BY DEF ShapeInv, RowInv
    <3>2. <<m, o>> \in leaving /\ <<m, o>>[1] = m
      BY <1>4 DEF RemoveObject
    <3> QED BY <3>1, <3>2
  <2>2. UNCHANGED <<rows, tiny, run>> /\ (Error \/ UNCHANGED errors)
        /\ \A n \in thumbs : n \in thumbs' \/ n = m
    BY <1>4 DEF RemoveObject
  <2> QED BY <1>0, <2>1, <2>2, RowsStay, AroundPublish
<1>5. ASSUME NEW p \in Procs, NEW m \in Media, Reset(p, m) PROVE PublishInv'
  <2>1. RowStep /\ \A n \in Media : status'[n] = "done" => status[n] = "done"
    <3>1. CASE Write(m, "pending", FALSE)
      BY <1>0, <3>1, WriteStep, WriteFacts DEF Statuses
    <3>2. CASE UNCHANGED rows
      BY <3>2, RowsStay
    <3> QED BY <1>5, <3>1, <3>2 DEF Reset
  <2>2. UNCHANGED <<objects, run>> /\ (Error \/ UNCHANGED errors)
    BY <1>5 DEF Reset
  <2> QED BY <1>0, <2>1, <2>2, AroundPublish
<1>6. ASSUME NEW p \in Procs, NEW m \in Media, SweepOne(p, m) PROVE PublishInv'
  BY <1>0, <1>6, RowsStay, AroundPublish DEF SweepOne, Push
<1>7. ASSUME NEW p \in Procs, Start(p) PROVE PublishInv'
  BY <1>0, <1>7, RowsStay, AroundPublish DEF Start
<1>8. ASSUME NEW p \in Procs, Crash(p) PROVE PublishInv'
  BY <1>0, <1>8, RowsStay, AroundPublish DEF Crash
<1>9. ASSUME NEW p \in Tools, Join(p) PROVE PublishInv'
  BY <1>0, <1>9, RowsStay, AroundPublish DEF Join
<1>10. ASSUME NEW p \in Tools, Stop(p) PROVE PublishInv'
  <2>1. <<p, "redis">> \in Runners
    BY DEF Runners
  <2>2. \A x \in Runners : run'[x] = run[x] \/ run'[x] = Idle
    BY <1>0, <1>10, <2>1, FreeFacts DEF Stop, Others
  <2>3. UNCHANGED <<rows, objects, errors>>
    BY <1>10 DEF Stop
  <2> QED BY <1>0, <2>2, <2>3, RowsStay, AroundPublish
<1>11. ASSUME NEW p \in Tools, Leave(p) PROVE PublishInv'
  BY <1>0, <1>11, RowsStay, AroundPublish DEF Leave
<1> QED BY <1>1, <1>2, <1>3, <1>4, <1>5, <1>6, <1>7, <1>8, <1>9, <1>10, <1>11

LEMMA PublishInit == Init => PublishInv
<1> SUFFICES ASSUME Init PROVE PublishInv
  OBVIOUS
<1>1. \A x \in Runners : Honest(run[x])
  BY DEF Init, Honest, Idle
<1> QED BY <1>1 DEF Init, PublishInv, DoneInv

LEMMA PublishStep == ShapeInv /\ PublishInv /\ [Next]_vars => PublishInv'
<1> SUFFICES ASSUME ShapeInv, PublishInv, [Next]_vars PROVE PublishInv'
  OBVIOUS
<1>1. ASSUME NEW x \in Runners, Working(x) PROVE PublishInv'
  BY <1>1, TakePublish, MarkPublish, RenderPublish, PutPublish, FinishPublish, TidyPublish,
     AgainPublish, RequeuePublish, GiveUpPublish DEF Working
<1>2. CASE UNCHANGED vars
  BY <1>2 DEF vars, PublishInv, DoneInv, Honest
<1>3. CASE Next /\ ~\E x \in Runners : Working(x)
  BY <1>3, AroundStepPublish DEF Next, Sweeping, Procs
<1> QED BY <1>1, <1>2, <1>3

\* However many jobs for one item run side by side, crash or overlap with its
\* deletion, none takes away what another has published.
THEOREM DonePublished == Spec => []DoneHasThumb
<1>1. ShapeInv /\ PublishInv => DoneHasThumb
  BY DEF ShapeInv, RowInv, PublishInv, DoneInv, DoneHasThumb
<1> QED BY <1>1, ShapeInit, ShapeStep, PublishInit, PublishStep, PTL DEF Spec

-----------------------------------------------------------------------------
(* Nothing unfinished is forgotten.                                        *)

Mentions(s, m) == \E i \in 1 .. Len(s) : s[i].media = m

\* InHand, but for the failed items a command has still to reset: one of those
\* that is unfinished again has somebody else at work on it.
Held(m) ==
  \/ m \in fresh
  \/ Mentions(queue, m)
  \/ \E p \in Procs : Mentions(local[p], m)
  \/ \E x \in Runners : run[x].media = m
  \/ \E p \in Procs : <<m, FALSE>> \in sweep[p]
  \/ \E p \in Workers : mode[p] = "down"

Open(m) == status[m] \in {"pending", "processing"}

KeptInv == errors = 0 /\ ~cut => \A m \in Media : Open(m) => Held(m)

LEMMA AppendMentions ==
  ASSUME NEW S, NEW s \in Seq(S), NEW j \in S, NEW m
  PROVE  Mentions(Append(s, j), m) <=> Mentions(s, m) \/ j.media = m
<1>1. /\ Len(Append(s, j)) = Len(s) + 1 /\ Len(s) \in Nat /\ Append(s, j)[Len(s) + 1] = j
      /\ \A i \in 1 .. Len(s) : Append(s, j)[i] = s[i]
  OBVIOUS
<1>2. ASSUME Mentions(s, m) PROVE Mentions(Append(s, j), m)
  BY <1>1, <1>2 DEF Mentions
<1>3. ASSUME j.media = m PROVE Mentions(Append(s, j), m)
  BY <1>1, <1>3 DEF Mentions
<1>4. ASSUME Mentions(Append(s, j), m) PROVE Mentions(s, m) \/ j.media = m
  <2>1. PICK i \in 1 .. Len(s) + 1 : Append(s, j)[i].media = m
    BY <1>1, <1>4 DEF Mentions
  <2>2. CASE i = Len(s) + 1
    BY <1>1, <2>1, <2>2
  <2>3. CASE i \in 1 .. Len(s)
    BY <1>1, <2>1, <2>3 DEF Mentions
  <2> QED BY <1>1, <2>2, <2>3
<1> QED BY <1>2, <1>3, <1>4

LEMMA TailMentions ==
  ASSUME NEW S, NEW s \in Seq(S), s # <<>>, NEW m, Mentions(s, m)
  PROVE  Head(s).media = m \/ Mentions(Tail(s), m)
<1>1. /\ Len(s) \in Nat \ {0} /\ Len(Tail(s)) = Len(s) - 1 /\ Head(s) = s[1]
      /\ \A i \in 1 .. Len(s) - 1 : Tail(s)[i] = s[i + 1]
  OBVIOUS
<1>2. PICK i \in 1 .. Len(s) : s[i].media = m
  BY DEF Mentions
<1>3. CASE i = 1
  BY <1>1, <1>2, <1>3
<1>4. CASE i # 1
  <2>1. i - 1 \in 1 .. Len(s) - 1 /\ Tail(s)[i - 1] = s[i]
    BY <1>1, <1>2, <1>4
  <2> QED BY <1>1, <1>2, <2>1 DEF Mentions
<1> QED BY <1>3, <1>4

LEMMA HeldKept ==
  ASSUME KeptInv,
         errors' = 0 /\ ~cut' =>
           /\ errors = 0 /\ ~cut
           /\ \A m \in Media : Open(m)' /\ (Open(m) => Held(m)) => Held(m)'
  PROVE  KeptInv'
BY DEF KeptInv

LEMMA BoundsGrow ==
  ASSUME TypeOK, UNCHANGED bounds \/ Error
  PROVE  errors' = 0 /\ ~cut' => errors = 0 /\ ~cut /\ UNCHANGED bounds
BY ErrorType DEF bounds, Error

\* What a coroutine does within its job.
LEMMA MoveKept ==
  ASSUME ShapeInv, KeptInv, NEW x \in Runners, run[x].at # "idle", Others(x),
         UNCHANGED <<jobs, outside>>, UNCHANGED bounds \/ Error,
         \A n \in Media \ {run[x].media} : status'[n] = status[n],
         \/ run'[x].media = run[x].media
         \/ errors' > 0
         \/ status'[run[x].media] \notin {"pending", "processing"}
  PROVE  KeptInv'
<1>1. SUFFICES ASSUME errors' = 0, ~cut', NEW m \in Media, Open(m)', Open(m) => Held(m) PROVE Held(m)'
  BY BoundsGrow, HeldKept DEF ShapeInv
<1>2. CASE run'[x].media = m
  BY <1>2 DEF Held
<1>3. CASE run'[x].media # m
  <2>1. m # run[x].media
    BY <1>1, <1>3 DEF Open
  <2>2. Held(m)
    BY <1>1, <2>1 DEF Open
  <2>3. UNCHANGED <<fresh, queue, local, sweep, mode>>
    BY DEF jobs, outside, procs
  <2>4. \A y \in Runners : run[y].media = m => run'[y].media = m
    BY <2>1 DEF Others
  <2> QED BY <2>2, <2>3, <2>4 DEF Held
<1> QED BY <1>2, <1>3

LEMMA WorkKept ==
  ASSUME ShapeInv, KeptInv, NEW x \in Runners,
         Mark(x) \/ Render(x) \/ Put(x) \/ Finish(x) \/ Tidy(x) \/ Again(x) \/ GiveUp(x)
  PROVE  KeptInv'
<1>1. PICK m : m = run[x].media
  OBVIOUS
<1>2. /\ run[x].at # "idle" /\ m \in Media /\ TypeOK
      /\ UNCHANGED <<jobs, outside>> /\ (UNCHANGED bounds \/ Error)
  BY <1>1, HandFacts DEF Mark, Render, Put, Finish, Tidy, Again, GiveUp
<1>3. \A n \in Media \ {m} : status'[n] = status[n]
  BY <1>1, <1>2 DEF Mark, Render, Put, Finish, Tidy, Again, GiveUp, Write, rows, TypeOK
<1>4. \/ \E s \in Steps : To(x, s)
      \/ \E b \in BOOLEAN : Fail(x, b)
      \/ run' = [run EXCEPT ![x].at = "finish", ![x].wrote = TRUE]
      \/ /\ Free(x)
         /\ \/ status'[m] \notin {"pending", "processing"}
            \/ Error
  <2>1. ~Present(m) /\ UNCHANGED rows => status'[m] \notin {"pending", "processing"}
    BY DEF Present, rows
  <2>2. \A s \in Statuses, k \in BOOLEAN : Write(m, s, k) => status'[m] = s
    BY <1>2, WriteFacts
  <2>3. CASE Mark(x)
    BY <1>1, <2>1, <2>3 DEF Mark, Steps
  <2>4. CASE Render(x)
    BY <2>4 DEF Render, Steps
  <2>5. CASE Put(x)
    BY <2>5 DEF Put
  <2>6. CASE Finish(x)
    BY <1>1, <1>2, <2>1, <2>2, <2>6 DEF Finish, Statuses
  <2>7. CASE Tidy(x)
    BY <2>7 DEF Tidy, Steps
  <2>8. CASE Again(x)
    BY <1>1, <2>1, <2>8 DEF Again, Steps
  <2>9. CASE GiveUp(x)
    BY <1>1, <1>2, <2>1, <2>2, <2>9 DEF GiveUp, Statuses
  <2> QED BY <2>3, <2>4, <2>5, <2>6, <2>7, <2>8, <2>9
<1>5. CASE \E s \in Steps : To(x, s)
  BY <1>1, <1>2, <1>3, <1>5, ToFacts, MoveKept
<1>6. CASE \E b \in BOOLEAN : Fail(x, b)
  BY <1>1, <1>2, <1>3, <1>6, FailFacts, MoveKept
<1>7. CASE run' = [run EXCEPT ![x].at = "finish", ![x].wrote = TRUE]
  <2>1. Others(x) /\ run'[x].media = m
    BY <1>1, <1>2, <1>7 DEF TypeOK, Others, Hand
  <2> QED BY <1>1, <1>2, <1>3, <2>1, MoveKept
<1>8. CASE Free(x) /\ (status'[m] \notin {"pending", "processing"} \/ Error)
  BY <1>1, <1>2, <1>3, <1>8, FreeFacts, ErrorType, MoveKept
<1> QED BY <1>4, <1>5, <1>6, <1>7, <1>8

\* A job that is pushed is on one of the two queues.
LEMMA PushHolds ==
  ASSUME TypeOK, NEW p \in Procs, NEW job \in Job, Push(p, job), NEW m
  PROVE  /\ Mentions(queue, m) => Mentions(queue', m)
         /\ \A q \in Procs : Mentions(local[q], m) => Mentions(local'[q], m)
         /\ job.media = m => Mentions(queue', m) \/ Mentions(local'[p], m)
         /\ errors' = errors /\ cut' = cut
<1>1. queue \in Seq(Job) /\ \A q \in Procs : local[q] \in Seq(Job \cup {Sentinel})
  BY DEF TypeOK
<1>2. Mentions(Append(queue, job), m) <=> Mentions(queue, m) \/ job.media = m
  BY <1>1, AppendMentions
<1>3. Mentions(Append(local[p], job), m) <=> Mentions(local[p], m) \/ job.media = m
  BY <1>1, AppendMentions
<1>4. CASE queue' = Append(queue, job) /\ UNCHANGED <<local, bounds>>
  BY <1>2, <1>4 DEF bounds
<1>5. CASE /\ local' = [local EXCEPT ![p] = Append(@, job)]
           /\ queue' \in {queue, Append(queue, job)} /\ UNCHANGED <<errors, cut>>
  <2>1. local'[p] = Append(local[p], job) /\ \A q \in Procs \ {p} : local'[q] = local[q]
    BY <1>5 DEF TypeOK
  <2> QED BY <1>2, <1>3, <1>5, <2>1
<1> QED BY <1>4, <1>5 DEF Push

LEMMA RequeueKept == ASSUME ShapeInv, KeptInv, NEW x \in Runners, Requeue(x) PROVE KeptInv'
<1>1. PICK job : /\ job = [media |-> run[x].media, attempt |-> run[x].attempt + 1]
                 /\ IF x[2] = "redis"
                    THEN Push(x[1], job)
                    ELSE local' = [local EXCEPT ![x[1]] = Append(@, job)] /\ UNCHANGED <<queue, bounds>>
  BY DEF Requeue
<1>2. job \in Job /\ job.media = run[x].media /\ x[1] \in Procs /\ TypeOK
  <2>1. run[x].at = "requeue" /\ run[x].media \in Media /\ Sane(run[x])
    BY HandFacts DEF Requeue
  <2> QED BY <1>1, <2>1, HandFacts, ThumbnailAssumption DEF Sane, Job
<1>3. ASSUME NEW m
      PROVE  /\ Mentions(queue, m) => Mentions(queue', m)
             /\ \A q \in Procs : Mentions(local[q], m) => Mentions(local'[q], m)
             /\ job.media = m => Mentions(queue', m) \/ Mentions(local'[x[1]], m)
             /\ errors' = errors /\ cut' = cut
  <2>1. CASE x[2] = "redis"
    BY <1>1, <1>2, <2>1, PushHolds
  <2>2. CASE x[2] # "redis"
    <3>1. local[x[1]] \in Seq(Job \cup {Sentinel})
      BY <1>2 DEF TypeOK
    <3>2. Mentions(Append(local[x[1]], job), m) <=> Mentions(local[x[1]], m) \/ job.media = m
      BY <1>2, <3>1, AppendMentions
    <3>3. /\ local'[x[1]] = Append(local[x[1]], job) /\ UNCHANGED <<queue, bounds>>
          /\ \A q \in Procs \ {x[1]} : local'[q] = local[q]
      BY <1>1, <1>2, <2>2 DEF TypeOK
    <3> QED BY <3>2, <3>3 DEF bounds
  <2> QED BY <2>1, <2>2
<1>4. Others(x) /\ UNCHANGED <<status, fresh, sweep, mode>>
  BY <1>2, FreeFacts DEF Requeue, rows, outside, procs
<1>5. SUFFICES ASSUME NEW m \in Media, Open(m)', Open(m) => Held(m) PROVE Held(m)'
  BY <1>3, HeldKept
<1>6. Held(m)
  BY <1>4, <1>5 DEF Open
<1> QED BY <1>2, <1>3, <1>4, <1>6 DEF Held, Others

LEMMA TakeKept == ASSUME ShapeInv, KeptInv, NEW x \in Runners, Take(x) PROVE KeptInv'
<1>1. PICK w : /\ w = (IF x[2] = "redis" THEN queue ELSE local[x[1]])
               /\ w # <<>> /\ Head(w) # Sentinel
               /\ IF x[2] = "redis"
                  THEN queue' = Tail(queue) /\ UNCHANGED local
                  ELSE local' = [local EXCEPT ![x[1]] = Tail(@)] /\ UNCHANGED queue
               /\ \/ run' = [run EXCEPT ![x] = Started(Head(w))] /\ UNCHANGED bounds
                  \/ UNCHANGED run /\ Error
                  \/ glitches' = glitches + 1 /\ cut' = TRUE
               /\ run[x].at = "idle" /\ UNCHANGED <<rows, outside>>
  BY DEF Take
<1>2. w \in Seq(Job \cup {Sentinel}) /\ TypeOK /\ x[1] \in Procs /\ run[x] = Idle
  <2>1. /\ TypeOK /\ x[1] \in Procs /\ run[x] = Idle
        /\ queue \in Seq(Job) /\ local[x[1]] \in Seq(Job \cup {Sentinel})
    BY <1>1, HandFacts DEF Sane, TypeOK
  <2>2. queue \in Seq(Job \cup {Sentinel})
    BY <2>1
  <2> QED BY <1>1, <2>1, <2>2
<1>3. Head(w) \in Job /\ Head(w) \in Job \cup {Sentinel}
  BY <1>1, <1>2
<1>4. ASSUME NEW m \in Media
      PROVE  /\ Mentions(queue, m) => Mentions(queue', m) \/ Head(w).media = m
             /\ \A q \in Procs : Mentions(local[q], m) => Mentions(local'[q], m) \/ Head(w).media = m
  <2>1. Mentions(w, m) => Mentions(Tail(w), m) \/ Head(w).media = m
    BY <1>1, <1>2, TailMentions
  <2>2. CASE x[2] = "redis"
    BY <1>1, <2>1, <2>2
  <2>3. CASE x[2] # "redis"
    <3>1. /\ local'[x[1]] = Tail(w) /\ w = local[x[1]] /\ UNCHANGED queue
          /\ \A q \in Procs \ {x[1]} : local'[q] = local[q]
      BY <1>1, <1>2, <2>3 DEF TypeOK
    <3> QED BY <2>1, <3>1
  <2> QED BY <2>2, <2>3
<1>5. errors' = 0 /\ ~cut' => /\ errors = 0 /\ ~cut
                              /\ run' = [run EXCEPT ![x] = Started(Head(w))]
  BY <1>1, <1>2, ErrorType DEF bounds
<1>6. SUFFICES ASSUME errors' = 0, ~cut', NEW m \in Media, Open(m)', Open(m) => Held(m) PROVE Held(m)'
  BY <1>5, HeldKept
<1>7. UNCHANGED <<status, fresh, sweep, mode>>
  BY <1>1 DEF rows, outside, procs
<1>8. Held(m) /\ status[m] \in {"pending", "processing"}
  BY <1>6, <1>7 DEF Open
<1>9. run'[x] = Started(Head(w)) /\ \A y \in Runners \ {x} : run'[y] = run[y]
  BY <1>2, <1>5, <1>6 DEF TypeOK
<1>10. CASE Head(w).media = m
  <2>1. run'[x].media = m
    BY <1>2, <1>3, <1>8, <1>9, <1>10, StartedFacts DEF Present
  <2> QED BY <2>1 DEF Held
<1>11. CASE Head(w).media # m
  <2>1. run[x].media # m
    BY <1>2, IdleType
  <2> QED BY <1>4, <1>7, <1>8, <1>9, <1>11, <2>1 DEF Held
<1> QED BY <1>10, <1>11

\* Everything but a coroutine's job: the items that are open stay held.
LEMMA AroundKept ==
  ASSUME ShapeInv, KeptInv,
         errors' = 0 /\ ~cut' =>
           /\ errors = 0 /\ ~cut
           /\ \A m \in Media : Open(m)' => Open(m) \/ Held(m)'
           /\ \A m \in Media : m \in fresh => Held(m)'
           /\ \A m \in Media : Mentions(queue, m) => Held(m)'
           /\ \A m \in Media, p \in Procs : Mentions(local[p], m) => Held(m)'
           /\ \A m \in Media, x \in Runners : run[x].media = m => Held(m)'
           /\ \A m \in Media, p \in Procs : <<m, FALSE>> \in sweep[p] => Held(m)'
           /\ \A m \in Media, p \in Workers : mode[p] = "down" /\ Open(m) => Held(m)'
  PROVE  KeptInv'
<1>1. SUFFICES ASSUME errors' = 0, ~cut', NEW m \in Media, Open(m)', Open(m) => Held(m) PROVE Held(m)'
  BY HeldKept
<1>2. CASE ~Open(m)
  BY <1>1, <1>2
<1>3. CASE Open(m)
  BY <1>1, <1>3 DEF Held
<1> QED BY <1>2, <1>3

LEMMA UploadKept == ASSUME ShapeInv, KeptInv, NEW u \in Media, Upload(u) PROVE KeptInv'
<1>1. \A m \in Media \ {u} : status'[m] = status[m]
  BY DEF Upload, ShapeInv, TypeOK
<1>2. u \in fresh' /\ fresh \subseteq fresh' /\ UNCHANGED <<queue, local, run, sweep, mode, errors, cut>>
  BY DEF Upload, jobs, procs, bounds
<1> QED BY <1>1, <1>2, AroundKept DEF Held, Open

LEMMA EnqueueKept == ASSUME ShapeInv, KeptInv, NEW u \in Media, Enqueue(u) PROVE KeptInv'
<1>1. First(u) \in Job /\ First(u).media = u /\ App \in Procs /\ TypeOK
  BY ThumbnailAssumption DEF First, Job, Procs, ShapeInv
<1>2. fresh' = fresh \ {u} /\ Push(App, First(u)) /\ UNCHANGED <<status, run, sweep, mode>>
  BY DEF Enqueue, rows, procs
<1>3. ASSUME NEW m
      PROVE  /\ Mentions(queue, m) => Mentions(queue', m)
             /\ \A q \in Procs : Mentions(local[q], m) => Mentions(local'[q], m)
             /\ m = u => Mentions(queue', m) \/ Mentions(local'[App], m)
             /\ errors' = errors /\ cut' = cut
  BY <1>1, <1>2, PushHolds
<1> QED BY <1>1, <1>2, <1>3, AroundKept DEF Held, Open

LEMMA DeleteKept == ASSUME ShapeInv, KeptInv, NEW u \in Media, Delete(u) PROVE KeptInv'
<1>1. status'[u] = "gone" /\ \A m \in Media \ {u} : status'[m] = status[m]
  BY DEF Delete, ShapeInv, TypeOK
<1>2. UNCHANGED <<fresh, queue, local, run, sweep, mode, errors, cut>>
  BY DEF Delete, jobs, procs, bounds
<1> QED BY <1>1, <1>2, AroundKept DEF Held, Open

LEMMA RemoveObjectKept ==
  ASSUME ShapeInv, KeptInv, NEW u \in Media, NEW o \in {"original", "thumb"}, RemoveObject(u, o)
  PROVE  KeptInv'
<1>1. UNCHANGED <<status, fresh, queue, local, run, sweep, mode>> /\ (UNCHANGED bounds \/ Error)
  BY DEF RemoveObject, rows, jobs, procs
<1>2. errors' = 0 /\ ~cut' => errors = 0 /\ ~cut
  BY <1>1, BoundsGrow DEF ShapeInv
<1> QED BY <1>1, <1>2, AroundKept DEF Held, Open

\* A starting process lists every unfinished item, so nothing else is needed.
LEMMA StartKept == ASSUME ShapeInv, KeptInv, NEW p \in Workers \cup Tools, Start(p) PROVE KeptInv'
<1>1. p \in Procs /\ \A m \in Unfinished : <<m, FALSE>> \in sweep'[p]
  BY DEF Start, Procs, ShapeInv, TypeOK
<1>2. UNCHANGED <<status, errors, cut>>
  BY DEF Start, rows, bounds
<1> QED BY <1>1, <1>2, HeldKept DEF Held, Open, Unfinished

LEMMA ResetKept ==
  ASSUME ShapeInv, KeptInv, NEW p \in Procs, NEW u \in Media, Reset(p, u)
  PROVE  KeptInv'
<1>1. /\ UNCHANGED <<fresh, queue, local, run, mode>> /\ (UNCHANGED bounds \/ Error)
      /\ \A q \in Procs \ {p} : sweep'[q] = sweep[q]
      /\ \A n \in Media : <<n, FALSE>> \notin sweep[p]
  BY DEF Reset, jobs, bounds, ShapeInv, TypeOK
<1>2. \A m \in Media : Open(m)' => Open(m) \/ <<m, FALSE>> \in sweep'[p]
  <2>1. CASE /\ Write(u, "pending", FALSE)
             /\ sweep' = [sweep EXCEPT ![p] = (@ \ {<<u, TRUE>>}) \cup {<<u, FALSE>>}]
    <3>1. <<u, FALSE>> \in sweep'[p]
      BY <2>1 DEF ShapeInv, TypeOK
    <3>2. \A m \in Media \ {u} : status'[m] = status[m]
      BY <2>1 DEF Write, ShapeInv, TypeOK
    <3> QED BY <3>1, <3>2 DEF Open
  <2>2. CASE UNCHANGED rows
    BY <2>2 DEF rows, Open
  <2> QED BY <2>1, <2>2 DEF Reset
<1>3. errors' = 0 /\ ~cut' => errors = 0 /\ ~cut
  BY <1>1, BoundsGrow DEF ShapeInv
<1> QED BY <1>1, <1>2, <1>3, AroundKept DEF Held

LEMMA SweepOneKept ==
  ASSUME ShapeInv, KeptInv, NEW p \in Procs, NEW u \in Media, SweepOne(p, u)
  PROVE  KeptInv'
<1>1. First(u) \in Job /\ First(u).media = u /\ TypeOK
  BY ThumbnailAssumption DEF First, Job, ShapeInv
<1>2. /\ Push(p, First(u)) /\ UNCHANGED <<status, fresh, run, mode>>
      /\ \A q \in Procs : sweep[q] \subseteq sweep'[q] \cup {<<u, FALSE>>}
  BY <1>1 DEF SweepOne, rows, TypeOK
<1>3. ASSUME NEW m
      PROVE  /\ Mentions(queue, m) => Mentions(queue', m)
             /\ \A q \in Procs : Mentions(local[q], m) => Mentions(local'[q], m)
             /\ m = u => Mentions(queue', m) \/ Mentions(local'[p], m)
             /\ errors' = errors /\ cut' = cut
  BY <1>1, <1>2, PushHolds
<1>4. \A m \in Media, q \in Procs : <<m, FALSE>> \in sweep[q] => <<m, FALSE>> \in sweep'[q] \/ m = u
  BY <1>2
<1> QED BY <1>2, <1>3, <1>4, AroundKept DEF Held, Open

\* A worker that crashed is down, and its restart sweeps; any other crash is cut.
LEMMA CrashKept == ASSUME ShapeInv, KeptInv, NEW p \in Procs, Crash(p) PROVE KeptInv'
<1>1. CASE p \notin Workers
  BY <1>1, HeldKept DEF Crash
<1>2. CASE p \in Workers
  <2>1. mode'[p] = "down"
    BY <1>2, ThumbnailAssumption DEF Crash, ShapeInv, TypeOK
  <2>2. UNCHANGED errors /\ (cut' <=> cut)
    BY <1>2 DEF Crash
  <2> QED BY <1>2, <2>1, <2>2, HeldKept DEF Held
<1> QED BY <1>1, <1>2

LEMMA JoinKept == ASSUME ShapeInv, KeptInv, NEW p \in Tools, Join(p) PROVE KeptInv'
<1>1. \A q \in Workers : mode'[q] = mode[q]
  BY ThumbnailAssumption DEF Join, ShapeInv, TypeOK, Procs
<1>2. UNCHANGED <<status, fresh, queue, local, run, sweep, errors, cut>>
  BY DEF Join, rows, jobs, bounds
<1> QED BY <1>1, <1>2, AroundKept DEF Held, Open

LEMMA StopKept == ASSUME ShapeInv, KeptInv, NEW p \in Tools, Stop(p) PROVE KeptInv'
<1>1. /\ \A q \in Workers : mode'[q] = mode[q]
      /\ p \in Procs /\ <<p, "redis">> \in Runners /\ TypeOK
  BY ThumbnailAssumption DEF Stop, ShapeInv, TypeOK, Procs, Runners
<1>2. UNCHANGED <<status, fresh, queue, sweep, errors>>
  BY DEF Stop, rows
<1>3. \A q \in Procs : \A m : Mentions(local[q], m) => Mentions(local'[q], m)
  <2>1. local[p] \in Seq(Job \cup {Sentinel})
    BY <1>1 DEF TypeOK
  <2>2. local'[p] = Append(local[p], Sentinel) /\ \A q \in Procs \ {p} : local'[q] = local[q]
    BY <1>1 DEF Stop, TypeOK
  <2>3. \A m : Mentions(Append(local[p], Sentinel), m) <=> Mentions(local[p], m) \/ Sentinel.media = m
    BY <2>1, AppendMentions
  <2> QED BY <2>2, <2>3
<1>4. ~cut' => ~cut /\ run[<<p, "redis">>].at = "idle"
  BY DEF Stop
<1>5. ASSUME ~cut', NEW m \in Media, NEW x \in Runners, run[x].media = m PROVE run'[x].media = m
  <2>1. x # <<p, "redis">>
    BY <1>1, <1>4, <1>5, HandFacts, IdleType DEF Sane
  <2> QED BY <1>1, <1>5, <2>1, FreeFacts DEF Stop, Others
<1> QED BY <1>1, <1>2, <1>3, <1>4, <1>5, AroundKept DEF Held, Open

LEMMA LeaveKept == ASSUME ShapeInv, KeptInv, NEW p \in Tools, Leave(p) PROVE KeptInv'
<1>1. /\ \A q \in Workers : mode'[q] = mode[q]
      /\ p \in Procs /\ local[p] \in Seq(Job \cup {Sentinel})
      /\ \A q \in Procs \ {p} : local'[q] = local[q]
  BY ThumbnailAssumption DEF Leave, ShapeInv, TypeOK, Procs
<1>2. UNCHANGED <<status, fresh, queue, run, sweep, errors>>
  BY DEF Leave, rows
<1>3. ~cut' => ~cut /\ ~(Len(local[p]) > 1) /\ Head(local[p]) = Sentinel
  BY DEF Leave
<1>4. ASSUME ~cut', NEW m \in Media PROVE ~Mentions(local[p], m)
  <2>1. SUFFICES ASSUME NEW i \in 1 .. Len(local[p]), local[p][i].media = m PROVE FALSE
    BY DEF Mentions
  <2>2. i = 1 /\ Head(local[p]) = local[p][1]
    BY <1>1, <1>3, <1>4, <2>1
  <2> QED BY <1>3, <1>4, <2>1, <2>2, ThumbnailAssumption DEF Sentinel
<1>5. \A m \in Media, q \in Procs : ~cut' /\ Mentions(local[q], m) => Mentions(local'[q], m)
  BY <1>1, <1>4
<1> QED BY <1>1, <1>2, <1>3, <1>5, AroundKept DEF Held, Open

LEMMA KeptInit == Init => KeptInv
BY DEF Init, KeptInv, Open

LEMMA KeptStep == ShapeInv /\ KeptInv /\ [Next]_vars => KeptInv'
<1> SUFFICES ASSUME ShapeInv, KeptInv, [Next]_vars PROVE KeptInv'
  OBVIOUS
<1>1. CASE \E m \in Media : Upload(m) \/ Enqueue(m) \/ Delete(m)
  BY <1>1, UploadKept, EnqueueKept, DeleteKept
<1>2. CASE \E m \in Media, o \in {"original", "thumb"} : RemoveObject(m, o)
  BY <1>2, RemoveObjectKept
<1>3. CASE \E x \in Runners : Working(x)
  BY <1>3, TakeKept, WorkKept, RequeueKept DEF Working
<1>4. CASE \E p \in Workers \cup Tools : Start(p) \/ Sweeping(p)
  BY <1>4, StartKept, ResetKept, SweepOneKept DEF Sweeping, Procs
<1>5. CASE \E p \in Tools : Join(p) \/ Stop(p) \/ Leave(p)
  BY <1>5, JoinKept, StopKept, LeaveKept
<1>6. CASE \E p \in Procs : Crash(p)
  BY <1>6, CrashKept
<1>7. CASE UNCHANGED vars
  BY <1>7, AroundKept DEF vars, Held, Open
<1> QED BY <1>1, <1>2, <1>3, <1>4, <1>5, <1>6, <1>7 DEF Next

\* As long as the database and the object store answer and no process but a
\* worker dies, every item that is pending or processing is with somebody who
\* will still come to it.
THEOREM NothingLost == Spec => []NothingForgotten
<1>1. KeptInv => NothingForgotten
  <2>1. ASSUME NEW m \in Media, Held(m) PROVE InHand(m)
    BY <2>1 DEF Held, InHand, Queued, Mentions
  <2> QED BY <2>1 DEF KeptInv, NothingForgotten, Unfinished, Open
<1> QED BY <1>1, ShapeInit, ShapeStep, KeptInit, KeptStep, PTL DEF Spec

-----------------------------------------------------------------------------
(* No thumbnail is left behind.                                            *)

\* Nothing has failed, and nobody sweeps.
Calm ==
  /\ crashes = 0 /\ glitches = 0 /\ errors = 0
  /\ \A p \in Tools : mode[p] = "ready"

\* A coroutine that wrote its item's thumbnail and has still to act on it.
Minding(h) == h.wrote /\ h.at \in {"finish", "tidy"}

\* Every open item has one job at most: with the request, on the queue or in hand.
Single ==
  /\ \A i, j \in 1 .. Len(queue) : queue[i].media = queue[j].media => i = j
  /\ \A x, y \in Runners : run[x].media \in Media /\ run[x].media = run[y].media => x = y
  /\ \A x \in Runners : run[x].media \in Media =>
       /\ run[x].media \notin fresh /\ ~Mentions(queue, run[x].media)
       /\ status[run[x].media] # "done"
  /\ \A m \in Media : m \in fresh => ~Mentions(queue, m) /\ status[m] \notin {"absent", "done"}
  /\ \A m \in Media : Mentions(queue, m) => status[m] \notin {"absent", "done"}

\* Every thumbnail is its row's, in the hands of its job, or on its way out.
Traced ==
  /\ \A x \in Runners : run[x].at = "put" \/ run[x].wrote => run[x].media \notin tiny
  /\ \A m \in thumbs : \/ status[m] = "done" /\ hasKey[m]
                       \/ \E x \in Runners : run[x].media = m /\ Minding(run[x])
                       \/ <<m, "thumb">> \in leaving

\* The in-process queues are not used, and no worker starts again.
Quiet ==
  /\ \A p \in Procs : local[p] = <<>> /\ sweep[p] = {}
  /\ \A p \in Workers : mode[p] = "up"
  /\ \A x \in Runners : x[2] = "local" => run[x] = Idle

Orderly == Quiet /\ Single /\ Traced

CalmInv == Calm => Orderly

\* A coroutine's step within its job.
LEMMA MoveOrderly ==
  ASSUME ShapeInv, Orderly, NEW x \in Runners, NEW m, m = run[x].media, run[x].at # "idle",
         Others(x), run'[x].media = m \/ run'[x] = Idle,
         UNCHANGED <<jobs, outside, tiny>>,
         \A n \in Media \ {m} : status'[n] = status[n] /\ hasKey'[n] = hasKey[n],
         status'[m] = "done" => run'[x] = Idle,
         run'[x].at = "put" \/ run'[x].wrote => m \notin tiny,
         \A n \in thumbs' : n # m => n \in thumbs,
         m \in thumbs' => \/ status'[m] = "done" /\ hasKey'[m]
                          \/ run'[x].media = m /\ Minding(run'[x])
                          \/ <<m, "thumb">> \in leaving
  PROVE  Orderly'
<1>1. /\ m \in Media /\ Idle.media \notin Media /\ ~Idle.wrote /\ Idle.at = "idle"
      /\ thumbs \subseteq Media
  BY HandFacts, IdleType DEF Idle
<1>2. UNCHANGED <<queue, local, fresh, leaving, sweep, mode>>
  BY DEF jobs, outside, procs
<1>3. x[2] # "local"
  BY DEF Orderly, Quiet, Idle
<1>4. Quiet'
  BY <1>2, <1>3 DEF Orderly, Quiet, Others
<1>5. m \notin fresh /\ ~Mentions(queue, m) /\ \A y \in Runners \ {x} : run[y].media # m
  BY <1>1 DEF Orderly, Single
<1>6. Single'
  <2>1. \A i, j \in 1 .. Len(queue') : queue'[i].media = queue'[j].media => i = j
    BY <1>2 DEF Orderly, Single
  <2>2. \A y, z \in Runners : run'[y].media \in Media /\ run'[y].media = run'[z].media => y = z
    BY <1>1, <1>5 DEF Orderly, Single, Others
  <2>3. ASSUME NEW y \in Runners, run'[y].media \in Media
        PROVE  /\ run'[y].media \notin fresh' /\ ~Mentions(queue', run'[y].media)
               /\ status'[run'[y].media] # "done"
    <3>1. CASE y = x
      BY <1>1, <1>2, <1>5, <2>3, <3>1
    <3>2. CASE y # x
      BY <1>2, <1>5, <2>3, <3>2 DEF Orderly, Single, Others
    <3> QED BY <3>1, <3>2
  <2>4. \A n \in Media : n \in fresh' => ~Mentions(queue', n) /\ status'[n] \notin {"absent", "done"}
    BY <1>2, <1>5 DEF Orderly, Single
  <2>5. \A n \in Media : Mentions(queue', n) => status'[n] \notin {"absent", "done"}
    BY <1>2, <1>5 DEF Orderly, Single
  <2> QED BY <2>1, <2>2, <2>3, <2>4, <2>5 DEF Single
<1>7. Traced'
  <2>1. ASSUME NEW y \in Runners, run'[y].at = "put" \/ run'[y].wrote PROVE run'[y].media \notin tiny'
    BY <1>1, <2>1 DEF Orderly, Traced, Others
  <2>2. ASSUME NEW n \in thumbs', n # m
        PROVE  \/ status'[n] = "done" /\ hasKey'[n]
               \/ \E y \in Runners : run'[y].media = n /\ Minding(run'[y])
               \/ <<n, "thumb">> \in leaving'
    <3>1. /\ n \in Media /\ n \in thumbs
          /\ \/ status[n] = "done" /\ hasKey[n]
             \/ \E y \in Runners : run[y].media = n /\ Minding(run[y])
             \/ <<n, "thumb">> \in leaving
      BY <1>1, <2>2 DEF Orderly, Traced
    <3>2. CASE \E y \in Runners : run[y].media = n /\ Minding(run[y])
      BY <2>2, <3>2 DEF Others
    <3> QED BY <1>2, <2>2, <3>1, <3>2
  <2> QED BY <1>2, <2>1, <2>2 DEF Traced, Minding
<1> QED BY <1>4, <1>6, <1>7 DEF Orderly

\* The thumbnail of an item in work was written by its own job, or is leaving.
LEMMA OwnThumb ==
  ASSUME ShapeInv, Orderly, NEW x \in Runners, run[x].at # "idle", run[x].media \in thumbs
  PROVE  Minding(run[x]) \/ <<run[x].media, "thumb">> \in leaving
BY HandFacts DEF Orderly, Single, Traced

LEMMA WorkOrderly ==
  ASSUME ShapeInv, Orderly, NEW x \in Runners, errors' = errors,
         Mark(x) \/ Render(x) \/ Put(x) \/ Finish(x) \/ Tidy(x) \/ Again(x) \/ GiveUp(x)
  PROVE  Orderly'
<1>1. PICK m : m = run[x].media
  OBVIOUS
<1>2. /\ run[x].at # "idle" /\ m \in Media /\ TypeOK /\ ~Error
      /\ UNCHANGED <<jobs, outside, tiny>>
  <2>1. run[x].at # "idle" /\ UNCHANGED <<jobs, outside, tiny>>
    BY DEF Mark, Render, Put, Finish, Tidy, Again, GiveUp, objects
  <2>2. ~Error
    BY DEF Error, ShapeInv, TypeOK
  <2> QED BY <1>1, <2>1, <2>2, HandFacts
<1>3. /\ \A n \in Media \ {m} : status'[n] = status[n] /\ hasKey'[n] = hasKey[n]
      /\ \A n \in thumbs' : n # m => n \in thumbs
  <2>1. rows' = rows \/ \E s \in Statuses, k \in BOOLEAN : Write(m, s, k)
    BY <1>1, <1>2, HandFacts DEF Mark, Render, Put, Finish, Tidy, Again, GiveUp, Statuses, Hand, TypeOK
  <2>2. \A n \in thumbs' : n # m => n \in thumbs
    BY <1>1, <1>2 DEF Mark, Render, Put, Finish, Tidy, Again, GiveUp, objects
  <2> QED BY <1>2, <2>1, <2>2, WriteFacts DEF rows
<1>4. status[m] # "done" /\ (run[x].at = "put" \/ run[x].wrote => m \notin tiny)
  BY <1>1, <1>2 DEF Orderly, Single, Traced
<1>5. m \in thumbs => Minding(run[x]) \/ <<m, "thumb">> \in leaving
  BY <1>1, <1>2, OwnThumb
<1>6. CASE Mark(x) \/ Again(x) \/ GiveUp(x)
  <2>1. /\ status'[m] # "done" /\ UNCHANGED thumbs
        /\ run[x].at \notin {"finish", "tidy"}
        /\ Free(x) \/ To(x, "read") \/ To(x, "requeue")
    BY <1>1, <1>2, <1>4, <1>6, WriteFacts, HandFacts
       DEF Mark, Again, GiveUp, rows, objects, Statuses, Hand
  <2>2. /\ Others(x)
        /\ \/ run'[x] = Idle
           \/ run'[x].media = m /\ run'[x].at # "put" /\ run'[x].wrote = run[x].wrote
    BY <1>1, <1>2, <2>1, FreeFacts, ToFacts DEF Steps
  <2>3. run'[x].at = "put" \/ run'[x].wrote => m \notin tiny
    BY <1>4, <2>2, IdleType DEF Idle
  <2> QED BY <1>1, <1>2, <1>3, <1>5, <2>1, <2>2, <2>3, MoveOrderly DEF Minding
<1>7. CASE Render(x)
  <2>1. status'[m] # "done" /\ UNCHANGED thumbs /\ ~Minding(run[x])
    BY <1>1, <1>4, <1>7 DEF Render, rows, objects, Minding
  <2>2. /\ Others(x) /\ run'[x].media = m /\ run'[x].wrote = run[x].wrote
        /\ run'[x].at = "put" => m \notin tiny
    BY <1>1, <1>2, <1>7, FailFacts, ToFacts DEF Render, Steps
  <2> QED BY <1>1, <1>2, <1>3, <1>4, <1>5, <2>1, <2>2, MoveOrderly
<1>8. CASE Put(x)
  <2>1. status'[m] # "done" /\ m \notin tiny
    BY <1>1, <1>4, <1>8 DEF Put, rows
  <2>2. Others(x) /\ run'[x].media = m /\ run'[x].at = "finish" /\ run'[x].wrote
    BY <1>1, <1>2, <1>8 DEF Put, TypeOK, Others, Hand
  <2> QED BY <1>1, <1>2, <1>3, <2>1, <2>2, MoveOrderly DEF Minding
<1>9. CASE Finish(x)
  <2>1. UNCHANGED thumbs
    BY <1>9 DEF Finish, objects
  <2>2. CASE Write(m, "done", m \notin tiny) /\ Free(x)
    <3>1. status'[m] = "done" /\ (m \notin tiny => hasKey'[m])
      BY <1>2, <2>2, WriteFacts DEF Statuses
    <3>2. Others(x) /\ run'[x] = Idle
      BY <1>2, <2>2, FreeFacts
    <3>3. run'[x].at # "put" /\ ~run'[x].wrote
      BY <3>2, IdleType DEF Idle
    <3>4. m \in thumbs' => m \notin tiny \/ <<m, "thumb">> \in leaving
      BY <1>4, <1>5, <2>1 DEF Minding
    <3> QED BY <1>1, <1>2, <1>3, <3>1, <3>2, <3>3, <3>4, MoveOrderly
  <2>3. CASE Fail(x, TRUE) /\ UNCHANGED rows
    <3>1. /\ Others(x) /\ run'[x].media = m /\ run'[x].wrote = run[x].wrote
          /\ run'[x].at = "tidy"
      BY <1>1, <1>2, <2>3, FailFacts
    <3> QED BY <1>1, <1>2, <1>3, <1>4, <1>5, <2>1, <2>3, <3>1, MoveOrderly DEF Minding, rows
  <2> QED BY <1>1, <1>2, <1>9, <2>2, <2>3 DEF Finish
<1>10. CASE Tidy(x)
  <2>1. /\ thumbs' = IF run[x].wrote THEN thumbs \ {m} ELSE thumbs
        /\ UNCHANGED rows
    BY <1>1, <1>2, <1>10 DEF Tidy
  <2>2. /\ Others(x) /\ run'[x].media = m /\ run'[x].wrote = run[x].wrote
        /\ run'[x].at \in {"giveUp", "again"}
    BY <1>1, <1>2, <1>10, ToFacts DEF Tidy, Steps
  <2> QED BY <1>1, <1>2, <1>3, <1>4, <1>5, <2>1, <2>2, MoveOrderly DEF Minding, rows
<1> QED BY <1>6, <1>7, <1>8, <1>9, <1>10

\* Without a fault a pushed job is on the Redis list, and a waiting one is taken.
LEMMA PushCalm ==
  ASSUME glitches' = glitches, TypeOK, NEW p \in Procs, NEW job, Push(p, job)
  PROVE  queue' = Append(queue, job) /\ UNCHANGED <<local, bounds>>
BY DEF Push, TypeOK

LEMMA AppendSingle ==
  ASSUME NEW s \in Seq(Job), NEW j \in Job, ~Mentions(s, j.media),
         \A i, k \in 1 .. Len(s) : s[i].media = s[k].media => i = k
  PROVE  LET t == Append(s, j) IN
           \A i, k \in 1 .. Len(t) : t[i].media = t[k].media => i = k
<1>1. /\ Len(Append(s, j)) = Len(s) + 1 /\ Len(s) \in Nat /\ Append(s, j)[Len(s) + 1] = j
      /\ \A i \in 1 .. Len(s) : Append(s, j)[i] = s[i]
  OBVIOUS
<1>2. \A i \in 1 .. Len(s) : s[i].media # j.media
  BY DEF Mentions
<1>3. SUFFICES ASSUME NEW i \in 1 .. Len(s) + 1, NEW k \in 1 .. Len(s) + 1,
                      Append(s, j)[i].media = Append(s, j)[k].media
               PROVE  i = k
  BY <1>1
<1>4. CASE i = Len(s) + 1
  BY <1>1, <1>2, <1>3, <1>4
<1>5. CASE k = Len(s) + 1
  BY <1>1, <1>2, <1>3, <1>5
<1>6. CASE i \in 1 .. Len(s) /\ k \in 1 .. Len(s)
  BY <1>1, <1>3, <1>6
<1> QED BY <1>1, <1>4, <1>5, <1>6

LEMMA TailSingle ==
  ASSUME NEW s \in Seq(Job), s # <<>>,
         \A i, k \in 1 .. Len(s) : s[i].media = s[k].media => i = k
  PROVE  /\ \A m : Mentions(Tail(s), m) => Mentions(s, m)
         /\ Mentions(s, Head(s).media) /\ ~Mentions(Tail(s), Head(s).media)
         /\ LET t == Tail(s) IN
              \A i, k \in 1 .. Len(t) : t[i].media = t[k].media => i = k
<1>1. /\ Len(s) \in Nat \ {0} /\ Len(Tail(s)) = Len(s) - 1 /\ Head(s) = s[1]
      /\ \A i \in 1 .. Len(s) - 1 : Tail(s)[i] = s[i + 1]
  OBVIOUS
<1>2. \A i \in 1 .. Len(s) - 1 : i + 1 \in 1 .. Len(s) /\ i + 1 # 1 /\ 1 \in 1 .. Len(s)
  BY <1>1
<1>3. ASSUME NEW m, Mentions(Tail(s), m) PROVE Mentions(s, m)
  BY <1>1, <1>2, <1>3 DEF Mentions
<1>4. Mentions(s, Head(s).media)
  <2>1. 1 \in 1 .. Len(s)
    BY <1>1
  <2> QED BY <1>1, <2>1 DEF Mentions
<1>5. ~Mentions(Tail(s), Head(s).media)
  BY <1>1, <1>2 DEF Mentions
<1>6. \A i, k \in 1 .. Len(s) - 1 : Tail(s)[i].media = Tail(s)[k].media => i = k
  <2>1. SUFFICES ASSUME NEW i \in 1 .. Len(s) - 1, NEW k \in 1 .. Len(s) - 1,
                        s[i + 1].media = s[k + 1].media
                 PROVE  i = k
    BY <1>1
  <2>2. i + 1 = k + 1
    BY <1>2, <2>1
  <2> QED BY <2>2
<1> QED BY <1>1, <1>3, <1>4, <1>5, <1>6

LEMMA TakeOrderly ==
  ASSUME ShapeInv, Orderly, NEW x \in Runners, errors' = errors, glitches' = glitches, Take(x)
  PROVE  Orderly'
<1>1. x[2] = "redis" /\ TypeOK /\ run[x] = Idle /\ x[1] \in Procs
  <2>1. x[2] = "local" => local[x[1]] = <<>>
    BY HandFacts DEF Orderly, Quiet
  <2> QED BY <2>1, HandFacts, RunnerFacts DEF Take, Sane
<1>2. /\ queue # <<>> /\ queue' = Tail(queue) /\ UNCHANGED local
      /\ run' = [run EXCEPT ![x] = Started(Head(queue))]
      /\ UNCHANGED <<rows, objects, outside>>
  BY <1>1 DEF Take, Error, TypeOK
<1>3. PICK job : job = Head(queue)
  OBVIOUS
<1>4. job \in Job /\ job.media \in Media
  <2>1. queue \in Seq(Job)
    BY <1>1 DEF TypeOK
  <2>2. job \in Job
    BY <1>2, <1>3, <2>1
  <2> QED BY <2>2 DEF Job
<1>5. Others(x) /\ run'[x] = Started(job)
  BY <1>1, <1>2, <1>3 DEF TypeOK, Others
<1>6. /\ ~run'[x].wrote /\ run'[x].at # "put"
      /\ run'[x].media \in Media => run'[x].media = job.media /\ status[job.media] # "done"
  BY <1>1, <1>4, <1>5, StartedFacts, IdleType DEF Idle
<1>7. /\ \A n : Mentions(queue', n) => Mentions(queue, n)
      /\ Mentions(queue, job.media) /\ ~Mentions(queue', job.media)
      /\ \A i, k \in 1 .. Len(queue') : queue'[i].media = queue'[k].media => i = k
  BY <1>1, <1>2, <1>3, TailSingle DEF TypeOK, Orderly, Single
<1>8. UNCHANGED <<status, hasKey, tiny, thumbs, local, fresh, leaving, sweep, mode>>
  BY <1>2 DEF rows, objects, outside, procs
<1>9. Quiet'
  BY <1>1, <1>5, <1>8 DEF Orderly, Quiet, Others
<1>10. Single'
  <2>1. job.media \notin fresh /\ \A y \in Runners : run[y].media # job.media
    BY <1>4, <1>7 DEF Orderly, Single
  <2>2. \A y, z \in Runners : run'[y].media \in Media /\ run'[y].media = run'[z].media => y = z
    BY <1>5, <1>6, <2>1 DEF Orderly, Single, Others
  <2>3. ASSUME NEW y \in Runners, run'[y].media \in Media
        PROVE  /\ run'[y].media \notin fresh' /\ ~Mentions(queue', run'[y].media)
               /\ status'[run'[y].media] # "done"
    <3>1. CASE y = x
      BY <1>6, <1>7, <1>8, <2>1, <2>3, <3>1
    <3>2. CASE y # x
      BY <1>5, <1>7, <1>8, <2>3, <3>2 DEF Orderly, Single, Others
    <3> QED BY <3>1, <3>2
  <2> QED BY <1>7, <1>8, <2>2, <2>3 DEF Orderly, Single
<1>11. Traced'
  <2>1. \A y \in Runners : Minding(run[y]) => y # x
    BY <1>1, IdleType DEF Minding
  <2>2. \A y \in Runners : run'[y].at = "put" \/ run'[y].wrote => run'[y].media \notin tiny
    BY <1>5, <1>6 DEF Orderly, Traced, Others
  <2>3. \A n \in Media : (\E y \in Runners : run[y].media = n /\ Minding(run[y]))
                            => \E y \in Runners : run'[y].media = n /\ Minding(run'[y])
    BY <1>5, <2>1 DEF Others
  <2> QED BY <1>1, <1>8, <2>2, <2>3 DEF Orderly, Traced, Minding, TypeOK
<1> QED BY <1>9, <1>10, <1>11 DEF Orderly

LEMMA RequeueOrderly ==
  ASSUME ShapeInv, Orderly, NEW x \in Runners, errors' = errors, glitches' = glitches, Requeue(x)
  PROVE  Orderly'
<1>1. PICK job : job = [media |-> run[x].media, attempt |-> run[x].attempt + 1]
  OBVIOUS
<1>2. /\ run[x].at = "requeue" /\ run[x].media \in Media /\ TypeOK /\ x[1] \in Procs
      /\ x[2] = "redis" /\ job \in Job /\ job.media = run[x].media
  <2>1. run[x].at = "requeue" /\ run[x].media \in Media /\ Sane(run[x]) /\ TypeOK /\ x[1] \in Procs
    BY HandFacts DEF Requeue
  <2>2. x[2] = "redis"
    BY <2>1, RunnerFacts DEF Orderly, Quiet, Idle
  <2> QED BY <1>1, <2>1, <2>2, ThumbnailAssumption DEF Sane, Job
<1>3. queue' = Append(queue, job) /\ UNCHANGED local
  BY <1>1, <1>2, PushCalm DEF Requeue
<1>4. Others(x) /\ run'[x] = Idle /\ Idle.media \notin Media /\ ~Idle.wrote /\ Idle.at # "put"
  BY <1>2, FreeFacts, IdleType DEF Requeue, Idle
<1>5. UNCHANGED <<status, hasKey, tiny, thumbs, local, fresh, leaving, sweep, mode>>
  BY <1>3 DEF Requeue, rows, objects, outside, procs
<1>6. /\ job.media \notin fresh /\ ~Mentions(queue, job.media)
      /\ status[job.media] \notin {"absent", "done"}
      /\ \A y \in Runners \ {x} : run[y].media # job.media
  BY <1>2, HandFacts DEF Orderly, Single
<1>7. /\ \A n : Mentions(queue', n) <=> Mentions(queue, n) \/ n = job.media
      /\ \A i, k \in 1 .. Len(queue') : queue'[i].media = queue'[k].media => i = k
  <2>1. \A n : Mentions(Append(queue, job), n) <=> Mentions(queue, n) \/ job.media = n
    BY <1>2, AppendMentions DEF TypeOK
  <2> QED BY <1>2, <1>3, <1>6, <2>1, AppendSingle DEF TypeOK, Orderly, Single
<1>8. Quiet'
  BY <1>2, <1>4, <1>5 DEF Orderly, Quiet, Others
<1>9. Single'
  <2>1. \A y, z \in Runners : run'[y].media \in Media /\ run'[y].media = run'[z].media => y = z
    BY <1>4 DEF Orderly, Single, Others
  <2>2. ASSUME NEW y \in Runners, run'[y].media \in Media
        PROVE  /\ run'[y].media \notin fresh' /\ ~Mentions(queue', run'[y].media)
               /\ status'[run'[y].media] # "done"
    BY <1>4, <1>5, <1>6, <1>7, <2>2 DEF Orderly, Single, Others
  <2> QED BY <1>5, <1>6, <1>7, <2>1, <2>2 DEF Orderly, Single
<1>10. Traced'
  <2>1. \A y \in Runners : Minding(run[y]) => y # x
    BY <1>2 DEF Minding
  <2>2. \A y \in Runners : run'[y].at = "put" \/ run'[y].wrote => run'[y].media \notin tiny
    BY <1>4 DEF Orderly, Traced, Others
  <2>3. \A n \in Media : (\E y \in Runners : run[y].media = n /\ Minding(run[y]))
                            => \E y \in Runners : run'[y].media = n /\ Minding(run'[y])
    BY <1>4, <2>1 DEF Others
  <2>4. /\ thumbs' = thumbs /\ thumbs \subseteq Media /\ leaving' = leaving
        /\ status' = status /\ hasKey' = hasKey /\ tiny' = tiny
    BY <1>2, <1>5 DEF TypeOK
  <2>5. \A n \in thumbs : \/ status[n] = "done" /\ hasKey[n]
                          \/ \E y \in Runners : run'[y].media = n /\ Minding(run'[y])
                          \/ <<n, "thumb">> \in leaving
    BY <2>3, <2>4 DEF Orderly, Traced
  <2> QED BY <2>2, <2>4, <2>5 DEF Traced, Minding
<1> QED BY <1>8, <1>9, <1>10 DEF Orderly

LEMMA UploadOrderly == ASSUME ShapeInv, Orderly, NEW u \in Media, Upload(u) PROVE Orderly'
<1>1. /\ status[u] = "absent" /\ status'[u] = "pending" /\ fresh' = fresh \cup {u}
      /\ \A m \in Media \ {u} : status'[m] = status[m]
      /\ thumbs \subseteq Media
  BY DEF Upload, ShapeInv, TypeOK
<1>2. UNCHANGED <<hasKey, tiny, thumbs, leaving, queue, local, run, mode, sweep>>
  BY DEF Upload, jobs, procs
<1>3. u \notin fresh /\ ~Mentions(queue, u) /\ \A x \in Runners : run[x].media # u
  BY <1>1, HandFacts, IdleType DEF Orderly, Single, Sane
<1>4. Quiet'
  BY <1>2 DEF Orderly, Quiet
<1>5. Single'
  BY <1>1, <1>2, <1>3 DEF Orderly, Single
<1>6. Traced'
  BY <1>1, <1>2 DEF Orderly, Traced
<1> QED BY <1>4, <1>5, <1>6 DEF Orderly

LEMMA EnqueueOrderly ==
  ASSUME ShapeInv, Orderly, NEW u \in Media, glitches' = glitches, Enqueue(u)
  PROVE  Orderly'
<1>1. First(u) \in Job /\ First(u).media = u /\ App \in Procs /\ TypeOK /\ queue \in Seq(Job)
  BY ThumbnailAssumption DEF First, Job, Procs, ShapeInv, TypeOK
<1>2. queue' = Append(queue, First(u)) /\ UNCHANGED local
  BY <1>1, PushCalm DEF Enqueue
<1>3. /\ u \in fresh /\ fresh' = fresh \ {u}
      /\ UNCHANGED <<status, hasKey, tiny, thumbs, leaving, local, run, mode, sweep>>
  BY <1>2 DEF Enqueue, rows, objects, procs
<1>4. ~Mentions(queue, u) /\ status[u] \notin {"absent", "done"} /\ \A x \in Runners : run[x].media # u
  BY <1>3 DEF Orderly, Single
<1>5. /\ \A n : Mentions(queue', n) <=> Mentions(queue, n) \/ n = u
      /\ \A i, k \in 1 .. Len(queue') : queue'[i].media = queue'[k].media => i = k
  <2>1. \A n : Mentions(Append(queue, First(u)), n) <=> Mentions(queue, n) \/ First(u).media = n
    BY <1>1, AppendMentions
  <2> QED BY <1>1, <1>2, <1>4, <2>1, AppendSingle DEF Orderly, Single
<1>6. Quiet'
  BY <1>3 DEF Orderly, Quiet
<1>7. Single'
  BY <1>3, <1>4, <1>5 DEF Orderly, Single
<1>8. Traced'
  BY <1>3 DEF Orderly, Traced
<1> QED BY <1>6, <1>7, <1>8 DEF Orderly

LEMMA DeleteOrderly == ASSUME ShapeInv, Orderly, NEW u \in Media, Delete(u) PROVE Orderly'
<1>1. /\ status'[u] = "gone" /\ \A m \in Media \ {u} : status'[m] = status[m]
      /\ hasKey[u] => <<u, "thumb">> \in leaving'
      /\ leaving \subseteq leaving' /\ thumbs \subseteq Media
  BY DEF Delete, ShapeInv, TypeOK
<1>2. UNCHANGED <<hasKey, tiny, thumbs, fresh, queue, local, run, mode, sweep>>
  BY DEF Delete, objects, jobs, procs
<1>3. Quiet'
  BY <1>2 DEF Orderly, Quiet
<1>4. Single'
  BY <1>1, <1>2, HandFacts DEF Orderly, Single
<1>5. Traced'
  BY <1>1, <1>2 DEF Orderly, Traced
<1> QED BY <1>3, <1>4, <1>5 DEF Orderly

LEMMA RemoveObjectOrderly ==
  ASSUME ShapeInv, Orderly, NEW u \in Media, NEW o \in {"original", "thumb"}, errors' = errors,
         RemoveObject(u, o)
  PROVE  Orderly'
<1>1. /\ UNCHANGED <<status, hasKey, tiny, fresh, queue, local, run, mode, sweep>>
      /\ thumbs' = (IF o = "original" THEN thumbs ELSE thumbs \ {u})
      /\ leaving' = leaving \ {<<u, o>>}
  BY DEF RemoveObject, rows, jobs, procs, Error, ShapeInv, TypeOK
<1>2. Quiet'
  BY <1>1 DEF Orderly, Quiet
<1>3. Single'
  BY <1>1 DEF Orderly, Single
<1>4. \A n \in thumbs' : n \in thumbs /\ (<<n, "thumb">> \in leaving => <<n, "thumb">> \in leaving')
  BY <1>1
<1>5. Traced'
  BY <1>1, <1>4 DEF Orderly, Traced
<1> QED BY <1>2, <1>3, <1>5 DEF Orderly

LEMMA CalmInit == Init => CalmInv
<1> SUFFICES ASSUME Init PROVE Orderly
  BY DEF CalmInv
<1>1. /\ queue = <<>> /\ fresh = {} /\ thumbs = {} /\ Idle.media \notin Media
      /\ \A x \in Runners : run[x] = Idle
      /\ Idle.at # "put" /\ ~Idle.wrote
  BY IdleType DEF Init, Idle
<1>2. Quiet
  BY ThumbnailAssumption DEF Init, Quiet, Procs
<1>3. Single
  BY <1>1 DEF Single, Mentions
<1>4. Traced
  BY <1>1 DEF Traced
<1> QED BY <1>2, <1>3, <1>4 DEF Orderly

\* Once a fault has happened or a command has started, it has for good.
LEMMA CalmBefore ==
  ASSUME ShapeInv, [Next]_vars, Calm'
  PROVE  /\ Calm /\ errors' = errors /\ glitches' = glitches /\ crashes' = crashes
         /\ \A p \in Tools : mode'[p] = mode[p]
<1>1. /\ TypeOK /\ errors' = 0 /\ glitches' = 0 /\ crashes' = 0
      /\ \A p \in Tools : mode'[p] = "ready" /\ p \in Procs
  BY DEF ShapeInv, Calm, Procs
<1>2. \/ UNCHANGED bounds
      \/ Error
      \/ glitches' = glitches + 1 /\ UNCHANGED <<crashes, errors>>
      \/ crashes' = crashes + 1
      \/ UNCHANGED <<crashes, glitches, errors>>
  BY DEF Next, vars, bounds, Working, Sweeping, Upload, Enqueue, Push, Delete, RemoveObject, Take,
         Mark, Render, Put, Finish, Tidy, Again, Requeue, GiveUp, Start, Reset, SweepOne, Join,
         Stop, Leave, Crash
<1>3. errors' = errors /\ glitches' = glitches /\ crashes' = crashes
  BY <1>1, <1>2 DEF Error, bounds, TypeOK
<1>4. \A p \in Tools : mode[p] = "ready"
  <2>1. SUFFICES ASSUME NEW p \in Tools, mode[p] # "ready" PROVE mode'[p] # "ready"
    BY <1>1
  <2>2. UNCHANGED mode \/ \E q \in Procs, s \in Modes \ {"ready"} : mode' = [mode EXCEPT ![q] = s]
    BY DEF Next, vars, procs, outside, Modes, Procs, Working, Sweeping, Upload, Enqueue, Delete,
           RemoveObject, Take, Mark, Render, Put, Finish, Tidy, Again, Requeue, GiveUp, Start, Reset,
           SweepOne, Join, Stop, Leave, Crash
  <2> QED BY <1>1, <2>1, <2>2 DEF TypeOK
<1> QED BY <1>1, <1>3, <1>4 DEF Calm

LEMMA CalmStep == ShapeInv /\ CalmInv /\ [Next]_vars => CalmInv'
<1> SUFFICES ASSUME ShapeInv, CalmInv, [Next]_vars, Calm' PROVE Orderly'
  BY DEF CalmInv
<1>1. /\ Orderly /\ errors' = errors /\ glitches' = glitches /\ crashes' = crashes /\ TypeOK
      /\ \A p \in Tools : mode'[p] = "ready" /\ mode[p] = "ready" /\ p \in Procs
  BY CalmBefore DEF CalmInv, Calm, ShapeInv, Procs
<1>2. CASE \E m \in Media : Upload(m) \/ Enqueue(m) \/ Delete(m)
  BY <1>1, <1>2, UploadOrderly, EnqueueOrderly, DeleteOrderly
<1>3. CASE \E m \in Media, o \in {"original", "thumb"} : RemoveObject(m, o)
  BY <1>1, <1>3, RemoveObjectOrderly
<1>4. CASE \E x \in Runners : Working(x)
  BY <1>1, <1>4, TakeOrderly, WorkOrderly, RequeueOrderly DEF Working
<1>5. CASE \E p \in Workers \cup Tools : Start(p) \/ Sweeping(p)
  <2>1. PICK p \in Workers \cup Tools : Start(p) \/ Sweeping(p)
    BY <1>5
  <2>2. ~Sweeping(p)
    BY <1>1 DEF Orderly, Quiet, Sweeping, Reset, SweepOne, Procs
  <2>3. CASE p \in Workers
    BY <1>1, <2>1, <2>2, <2>3 DEF Start, Orderly, Quiet
  <2>4. CASE p \in Tools
    BY <1>1, <2>1, <2>2, <2>4 DEF Start, TypeOK
  <2> QED BY <2>3, <2>4
<1>6. CASE \E p \in Tools : Join(p) \/ Stop(p) \/ Leave(p)
  BY <1>1, <1>6 DEF Join, Stop, Leave
<1>7. CASE \E p \in Procs : Crash(p)
  BY <1>1, <1>7 DEF Crash, TypeOK
<1>8. CASE UNCHANGED vars
  BY <1>1, <1>8 DEF vars, Orderly, Quiet, Single, Traced, Mentions, Minding
<1> QED BY <1>2, <1>3, <1>4, <1>5, <1>6, <1>7, <1>8 DEF Next

\* Where every upload has one job (no crash, no failed call, no extra sweep),
\* deleting an item in the middle of its job leaves no thumbnail behind.
THEOREM NothingLeftBehind == Spec => []NoLeakedThumb
<1>1. ShapeInv /\ CalmInv => NoLeakedThumb
  <2>1. SUFFICES ASSUME ShapeInv, CalmInv, crashes + glitches + errors = 0,
                        \A p \in Tools : mode[p] = "ready"
                 PROVE  \A m \in thumbs : \/ status[m] = "done"
                                          \/ \E x \in Runners : run[x].media = m /\ run[x].wrote
                                          \/ <<m, "thumb">> \in leaving
    BY DEF NoLeakedThumb
  <2>2. Calm
    BY <2>1, ThumbnailAssumption DEF ShapeInv, TypeOK, Calm
  <2> QED BY <2>1, <2>2 DEF CalmInv, Orderly, Traced, Minding
<1> QED BY <1>1, ShapeInit, ShapeStep, CalmInit, CalmStep, PTL DEF Spec
=============================================================================
