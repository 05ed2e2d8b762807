----------------------------- MODULE Thumbnails -----------------------------
(***************************************************************************)
(* The life of a thumbnail: the job that UploadService.generate_thumbnail  *)
(* runs, the queue that carries it and the sweeps that re-enqueue it, in   *)
(* the Redis deployment.                                                   *)
(*                                                                         *)
(* The application process enqueues a job per upload.  Worker processes    *)
(* pop the shared Redis list; every process also has an in-process queue,  *)
(* drained by a coroutine of its own, that takes over when Redis does not  *)
(* answer.  A worker sweeps unfinished items when it starts; the command   *)
(* retry-thumbnails is a worker that also sweeps the failed ones and then  *)
(* exits.  Nothing locks an item: two jobs for it may run side by side.    *)
(***************************************************************************)
EXTENDS Naturals, Sequences, FiniteSets

CONSTANTS
  Media,        \* uploads (bound)
  App,          \* the application process
  Workers,      \* run-worker-thumbnails processes
  Tools,        \* retry-thumbnails commands, each run once (bound)
  NoMedia,
  MaxAttempts,  \* GENERATE_THUMBNAIL_TASK.max_attempts
  MaxCrashes,   \* process crashes (bound)
  MaxGlitches,  \* Redis calls that fail (bound)
  MaxErrors     \* failed statements and failed storage calls (bound)

Procs == {App} \cup Workers \cup Tools

ASSUME ThumbnailAssumption ==
  /\ NoMedia \notin Media
  /\ App \notin Workers \cup Tools /\ Workers \cap Tools = {}
  /\ MaxAttempts \in Nat \ {0}
  /\ MaxCrashes \in Nat /\ MaxGlitches \in Nat /\ MaxErrors \in Nat

VARIABLES
  status,     \* media.thumb_status; "absent" before the INSERT, "gone" after the DELETE
  hasKey,     \* media.thumb_key IS NOT NULL
  tiny,       \* uploads small enough to be their own thumbnail (fixed)
  originals,  \* originals in the object store
  thumbs,     \* thumbnails in the object store
  fresh,      \* inserted, MediaUploaded not yet delivered to the queue
  leaving,    \* objects a finished DELETE has still to remove
  queue,      \* the Redis list
  local,      \* the in-process queue of each process
  run,        \* the job in the hands of each coroutine
  mode,       \* what each process is doing
  sweep,      \* items a starting process has still to enqueue
  crashes, glitches, errors,  \* so far
  cut         \* history: work was lost that no worker's restart makes good

vars == <<status, hasKey, tiny, originals, thumbs, fresh, leaving, queue, local, run,
          mode, sweep, crashes, glitches, errors, cut>>

Job == [media : Media, attempt : 1 .. MaxAttempts]

\* AsyncTaskQueue.stop puts a None behind the jobs that are waiting.
Sentinel == [media |-> NoMedia, attempt |-> 0]

\* A worker is up or down; a command is ready, up, past its join, stopping, over.
Modes == {"up", "down", "ready", "joined", "stopping", "over"}
Alive(p) == mode[p] \in {"up", "joined", "stopping"}

\* The coroutines: one pops Redis, one drains the process's own queue.
Runners == ((Workers \cup Tools) \X {"redis"}) \cup (Procs \X {"local"})

Steps == {"idle", "mark", "read", "put", "finish", "tidy", "again", "requeue", "giveUp"}

\* wrote: written_thumb_key is set; final: the failure will not be retried.
Hand == [at : Steps, media : Media \cup {NoMedia}, attempt : 0 .. MaxAttempts,
         key : BOOLEAN, wrote : BOOLEAN, final : BOOLEAN]

Idle == [at |-> "idle", media |-> NoMedia, attempt |-> 0,
         key |-> FALSE, wrote |-> FALSE, final |-> FALSE]

Present(m) == status[m] \notin {"absent", "gone"}
Unfinished == {m \in Media : status[m] \in {"pending", "processing"}}
Failures == {m \in Media : status[m] = "failed"}

Init ==
  /\ tiny \in SUBSET Media
  /\ status = [m \in Media |-> "absent"]
  /\ hasKey = [m \in Media |-> FALSE]
  /\ originals = {} /\ thumbs = {} /\ fresh = {} /\ leaving = {}
  /\ queue = <<>> /\ local = [p \in Procs |-> <<>>]
  /\ run = [x \in Runners |-> Idle]
  /\ mode = [p \in Procs |-> IF p \in Tools THEN "ready" ELSE "up"]
  /\ sweep = [p \in Procs |-> {}]
  /\ crashes = 0 /\ glitches = 0 /\ errors = 0 /\ cut = FALSE

-----------------------------------------------------------------------------
(* Shorthand.                                                              *)

rows == <<status, hasKey>>
objects == <<tiny, originals, thumbs>>
jobs == <<queue, local>>
bounds == <<crashes, glitches, errors, cut>>
procs == <<mode, sweep>>
outside == <<fresh, leaving, procs>>

\* An UPDATE of the thumbnail columns; only for a row that is there.
Write(m, s, k) ==
  /\ Present(m)
  /\ status' = [status EXCEPT ![m] = s]
  /\ hasKey' = [hasKey EXCEPT ![m] = k]

Error == errors < MaxErrors /\ errors' = errors + 1 /\ UNCHANGED <<crashes, glitches, cut>>

\* The coroutine moves on within its job, or is done with it.
To(x, s) == run' = [run EXCEPT ![x].at = s]
Free(x) == run' = [run EXCEPT ![x] = Idle]

\* RedisTaskQueue.enqueue: the list, or the process's own queue when the call
\* fails; a failed call may have pushed the job all the same.
Push(p, job) ==
  \/ queue' = Append(queue, job) /\ UNCHANGED <<local, bounds>>
  \/ /\ glitches < MaxGlitches
     /\ glitches' = glitches + 1
     /\ local' = [local EXCEPT ![p] = Append(@, job)]
     /\ queue' \in {queue, Append(queue, job)}
     /\ UNCHANGED <<crashes, errors, cut>>

First(m) == [media |-> m, attempt |-> 1]

-----------------------------------------------------------------------------
(* The application.                                                        *)

\* The row and the original are there before MediaUploaded is emitted.
Upload(m) ==
  /\ status[m] = "absent"
  /\ status' = [status EXCEPT ![m] = "pending"]
  /\ originals' = originals \cup {m}
  /\ fresh' = fresh \cup {m}
  /\ UNCHANGED <<hasKey, tiny, thumbs, leaving, jobs, run, procs, bounds>>

\* _enqueue_thumbnail
Enqueue(m) ==
  /\ m \in fresh
  /\ fresh' = fresh \ {m}
  /\ Push(App, First(m))
  /\ UNCHANGED <<rows, objects, leaving, run, procs>>

\* delete_media: the row, then the objects the returned row names.
Delete(m) ==
  /\ Present(m)
  /\ status' = [status EXCEPT ![m] = "gone"]
  /\ leaving' = leaving \cup {<<m, "original">>}
                        \cup (IF hasKey[m] THEN {<<m, "thumb">>} ELSE {})
  /\ UNCHANGED <<hasKey, objects, fresh, jobs, run, procs, bounds>>

\* Original first; a failed delete is logged and forgotten.
RemoveObject(m, o) ==
  /\ <<m, o>> \in leaving
  /\ o = "thumb" => <<m, "original">> \notin leaving
  /\ leaving' = leaving \ {<<m, o>>}
  /\ \/ /\ IF o = "original" THEN originals' = originals \ {m} /\ UNCHANGED thumbs
                             ELSE thumbs' = thumbs \ {m} /\ UNCHANGED originals
        /\ UNCHANGED bounds
     \/ Error /\ UNCHANGED <<originals, thumbs>>
  /\ UNCHANGED <<rows, tiny, fresh, jobs, run, procs>>

-----------------------------------------------------------------------------
(* generate_thumbnail, in the hands of coroutine x.                        *)

\* get_media: a job for a missing or finished item is skipped.
Started(job) ==
  IF Present(job.media) /\ status[job.media] # "done"
  THEN [Idle EXCEPT !.at = "mark", !.media = job.media, !.attempt = job.attempt,
                    !.key = hasKey[job.media]]
  ELSE Idle

\* An error loses the job: get_media raises, or BLPOP popped and did not answer.
Take(x) ==
  /\ run[x].at = "idle" /\ Alive(x[1])
  /\ x[2] = "redis" => mode[x[1]] # "stopping"
  /\ LET waiting == IF x[2] = "redis" THEN queue ELSE local[x[1]] IN
       /\ waiting # <<>> /\ Head(waiting) # Sentinel
       /\ IF x[2] = "redis"
          THEN queue' = Tail(queue) /\ UNCHANGED local
          ELSE local' = [local EXCEPT ![x[1]] = Tail(@)] /\ UNCHANGED queue
       /\ \/ run' = [run EXCEPT ![x] = Started(Head(waiting))] /\ UNCHANGED bounds
          \/ UNCHANGED run /\ Error
          \/ /\ x[2] = "redis" /\ glitches < MaxGlitches
             /\ glitches' = glitches + 1 /\ cut' = TRUE
             /\ UNCHANGED <<run, crashes, errors>>
  /\ UNCHANGED <<rows, objects, outside>>

\* The columns read a moment ago are written back with the new status.
Mark(x) ==
  /\ run[x].at = "mark"
  /\ \/ /\ Write(run[x].media, "processing", run[x].key)
        /\ To(x, "read")
        /\ UNCHANGED bounds
     \/ /\ ~Present(run[x].media)
        /\ Free(x) /\ UNCHANGED <<rows, bounds>>
     \/ /\ Error /\ Free(x)
        /\ Write(run[x].media, "processing", run[x].key) \/ UNCHANGED rows
  /\ UNCHANGED <<objects, jobs, outside>>

\* Mutant: one attempt too many.
FailOffByOne(x, retryable) ==
  run' = [run EXCEPT ![x].at = "tidy",
                     ![x].final = ~retryable \/ run[x].attempt > MaxAttempts]

\* The except clause: retry while attempts are left and the reason allows it.
Fail(x, retryable) ==
  run' = [run EXCEPT ![x].at = "tidy",
                     ![x].final = ~retryable \/ run[x].attempt >= MaxAttempts]

\* Read the original and render it; a bad file fails here, now or for good.
Render(x) ==
  /\ run[x].at = "read"
  /\ \/ run[x].media \in originals /\ To(x, IF run[x].media \in tiny THEN "finish" ELSE "put")
     \/ \E retryable \in BOOLEAN : Fail(x, retryable)
  /\ UNCHANGED <<rows, objects, jobs, outside, bounds>>

Put(x) ==
  /\ run[x].at = "put"
  /\ \/ /\ thumbs' = thumbs \cup {run[x].media}
        /\ run' = [run EXCEPT ![x].at = "finish", ![x].wrote = TRUE]
        /\ UNCHANGED bounds
     \/ Error /\ Fail(x, TRUE) /\ thumbs' \in {thumbs, thumbs \cup {run[x].media}}
  /\ UNCHANGED <<rows, tiny, originals, jobs, outside>>

\* status = done.  An error may hit before or after the commit.
Finish(x) ==
  /\ run[x].at = "finish"
  /\ LET m == run[x].media
         done == Write(m, "done", m \notin tiny) IN
       \/ done /\ Free(x) /\ UNCHANGED bounds
       \/ ~Present(m) /\ Fail(x, TRUE) /\ UNCHANGED <<rows, bounds>>
       \/ Error /\ Fail(x, TRUE) /\ (done \/ UNCHANGED rows)
  /\ UNCHANGED <<objects, jobs, outside>>

\* Mutant: the thumbnail is deleted whether or not this attempt wrote it.
TidyAlways(x) ==
  /\ run[x].at = "tidy"
  /\ thumbs' = thumbs \ {run[x].media}
  /\ To(x, IF run[x].final THEN "giveUp" ELSE "again")
  /\ UNCHANGED <<rows, tiny, originals, jobs, outside, bounds>>

\* Mutant: the thumbnail of the failed attempt is left in place.
TidyNever(x) ==
  /\ run[x].at = "tidy"
  /\ To(x, IF run[x].final THEN "giveUp" ELSE "again")
  /\ UNCHANGED <<rows, objects, jobs, outside, bounds>>

\* The failed attempt's own thumbnail is deleted, as well as can be.
Tidy(x) ==
  /\ run[x].at = "tidy"
  /\ \/ /\ thumbs' = IF run[x].wrote THEN thumbs \ {run[x].media} ELSE thumbs
        /\ UNCHANGED bounds
     \/ run[x].wrote /\ Error /\ UNCHANGED thumbs
  /\ To(x, IF run[x].final THEN "giveUp" ELSE "again")
  /\ UNCHANGED <<rows, tiny, originals, jobs, outside>>

\* Back to pending; if that write raises, the task ends here, unscheduled.
Again(x) ==
  /\ run[x].at = "again"
  /\ LET m == run[x].media
         pending == Write(m, "pending", FALSE) IN
       \/ pending /\ To(x, "requeue") /\ UNCHANGED bounds
       \/ ~Present(m) /\ Free(x) /\ UNCHANGED <<rows, bounds>>
       \/ Error /\ Free(x) /\ (pending \/ UNCHANGED rows)
  /\ UNCHANGED <<objects, jobs, outside>>

\* Mutant: the attempt is not counted.
RequeueSameAttempt(x) ==
  /\ run[x].at = "requeue"
  /\ Push(x[1], [media |-> run[x].media, attempt |-> run[x].attempt])
  /\ Free(x)
  /\ UNCHANGED <<rows, objects, outside>>

\* A coroutine puts the next attempt on the queue it works for.
Requeue(x) ==
  /\ run[x].at = "requeue"
  /\ LET job == [media |-> run[x].media, attempt |-> run[x].attempt + 1] IN
       IF x[2] = "redis"
       THEN Push(x[1], job)
       ELSE local' = [local EXCEPT ![x[1]] = Append(@, job)] /\ UNCHANGED <<queue, bounds>>
  /\ Free(x)
  /\ UNCHANGED <<rows, objects, outside>>

\* status = failed; an error here is recorded and swallowed.
GiveUp(x) ==
  /\ run[x].at = "giveUp"
  /\ LET failed == Write(run[x].media, "failed", FALSE) IN
       \/ failed /\ UNCHANGED bounds
       \/ ~Present(run[x].media) /\ UNCHANGED <<rows, bounds>>
       \/ Error /\ (failed \/ UNCHANGED rows)
  /\ Free(x)
  /\ UNCHANGED <<objects, jobs, outside>>

-----------------------------------------------------------------------------
(* Processes.                                                              *)

\* Mutant: items left in processing are not swept.
StartPendingOnly(p) ==
  /\ mode[p] \in {"down", "ready"}
  /\ mode' = [mode EXCEPT ![p] = "up"]
  /\ sweep' = [sweep EXCEPT ![p] = {<<m, FALSE>> : m \in {n \in Media : status[n] = "pending"}}]
  /\ UNCHANGED <<rows, objects, fresh, leaving, jobs, run, bounds>>

\* recover_thumbnails, called by a starting worker (include_failed = False)
\* and by retry-thumbnails (include_failed = True).
Start(p) ==
  /\ mode[p] \in {"down", "ready"}
  /\ mode' = [mode EXCEPT ![p] = "up"]
  /\ sweep' = [sweep EXCEPT ![p] =
       {<<m, FALSE>> : m \in Unfinished}
         \cup (IF p \in Tools THEN {<<m, TRUE>> : m \in Failures} ELSE {})]
  /\ UNCHANGED <<rows, objects, fresh, leaving, jobs, run, bounds>>

\* Mutant: a failed item is reset but not enqueued.
ResetOnly(p, m) ==
  /\ <<m, TRUE>> \in sweep[p]
  /\ \A n \in Media : <<n, FALSE>> \notin sweep[p]
  /\ Write(m, "pending", FALSE)
  /\ sweep' = [sweep EXCEPT ![p] = @ \ {<<m, TRUE>>}]
  /\ UNCHANGED <<objects, fresh, leaving, jobs, run, mode, bounds>>

\* The failed items come last.  Each first gets its whole row back as it was
\* read, but pending; if that raises (the row is gone) the command aborts.
Reset(p, m) ==
  /\ <<m, TRUE>> \in sweep[p]
  /\ \A n \in Media : <<n, FALSE>> \notin sweep[p]
  /\ \/ /\ Write(m, "pending", FALSE)
        /\ sweep' = [sweep EXCEPT ![p] = (@ \ {<<m, TRUE>>}) \cup {<<m, FALSE>>}]
        /\ UNCHANGED bounds
     \/ /\ sweep' = [sweep EXCEPT ![p] = {}]
        /\ UNCHANGED rows
        /\ Error \/ (~Present(m) /\ UNCHANGED bounds)
  /\ UNCHANGED <<objects, fresh, leaving, jobs, run, mode>>

SweepOne(p, m) ==
  /\ <<m, FALSE>> \in sweep[p]
  /\ Push(p, First(m))
  /\ sweep' = [sweep EXCEPT ![p] = @ \ {<<m, FALSE>>}]
  /\ UNCHANGED <<rows, objects, fresh, leaving, run, mode>>

\* What process p holds in memory is lost; the application comes back at
\* once, a worker by Start, a command not at all.
Crash(p) ==
  /\ Alive(p)
  /\ crashes < MaxCrashes /\ crashes' = crashes + 1
  /\ mode' = [mode EXCEPT ![p] = CASE p = App -> "up" [] p \in Workers -> "down"
                                                     [] OTHER -> "over"]
  /\ run' = [x \in Runners |-> IF x[1] = p THEN Idle ELSE run[x]]
  /\ local' = [local EXCEPT ![p] = <<>>]
  /\ sweep' = [sweep EXCEPT ![p] = {}]
  /\ IF p = App THEN fresh' = {} /\ leaving' = {} ELSE UNCHANGED <<fresh, leaving>>
  /\ cut' = (cut \/ p \notin Workers)
  /\ UNCHANGED <<rows, objects, queue, glitches, errors>>

\* retry-thumbnails, after its sweep: join waits for the in-process queue,
Join(p) ==
  /\ p \in Tools /\ mode[p] = "up"
  /\ sweep[p] = {} /\ local[p] = <<>> /\ run[<<p, "local">>].at = "idle"
  /\ mode' = [mode EXCEPT ![p] = "joined"]
  /\ UNCHANGED <<rows, objects, fresh, leaving, jobs, run, sweep, bounds>>

\* and then, but no longer than five seconds, for the Redis list.  stop cancels
\* the popping coroutine wherever it is and has the in-process queue drain
Stop(p) ==
  /\ mode[p] = "joined"
  /\ mode' = [mode EXCEPT ![p] = "stopping"]
  /\ cut' = (cut \/ run[<<p, "redis">>].at # "idle")
  /\ Free(<<p, "redis">>)
  /\ local' = [local EXCEPT ![p] = Append(@, Sentinel)]
  /\ UNCHANGED <<rows, objects, fresh, leaving, queue, sweep, crashes, glitches, errors>>

\* up to the None; a retry queued behind it is lost.
Leave(p) ==
  /\ mode[p] = "stopping"
  /\ run[<<p, "local">>].at = "idle" /\ Head(local[p]) = Sentinel
  /\ mode' = [mode EXCEPT ![p] = "over"]
  /\ cut' = (cut \/ Len(local[p]) > 1)
  /\ local' = [local EXCEPT ![p] = <<>>]
  /\ UNCHANGED <<rows, objects, fresh, leaving, queue, run, sweep, crashes, glitches, errors>>

-----------------------------------------------------------------------------
Working(x) ==
  \/ Take(x) \/ Mark(x) \/ Render(x) \/ Put(x) \/ Finish(x)
  \/ Tidy(x) \/ Again(x) \/ Requeue(x) \/ GiveUp(x)

Sweeping(p) == \E m \in Media : Reset(p, m) \/ SweepOne(p, m)

Next ==
  \/ \E m \in Media : Upload(m) \/ Enqueue(m) \/ Delete(m)
  \/ \E m \in Media, o \in {"original", "thumb"} : RemoveObject(m, o)
  \/ \E x \in Runners : Working(x)
  \/ \E p \in Workers \cup Tools : Start(p) \/ Sweeping(p)
  \/ \E p \in Tools : Join(p) \/ Stop(p) \/ Leave(p)
  \/ \E p \in Procs : Crash(p)

\* The event loop runs every coroutine that can go on; "restart:
\* unless-stopped" brings workers back.  Nobody has to upload or to delete.
Fairness ==
  /\ \A m \in Media : WF_vars(Enqueue(m))
  /\ \A x \in Runners : WF_vars(Working(x))
  /\ \A p \in Workers : WF_vars(Start(p))
  /\ \A p \in Workers \cup Tools : WF_vars(Sweeping(p))
  /\ \A p \in Tools : WF_vars(Join(p) \/ Stop(p) \/ Leave(p))

Spec == Init /\ [][Next]_vars /\ Fairness
-----------------------------------------------------------------------------
(* Properties.                                                             *)

TypeOK ==
  /\ tiny \subseteq Media
  /\ status \in [Media -> {"absent", "pending", "processing", "done", "failed", "gone"}]
  /\ hasKey \in [Media -> BOOLEAN]
  /\ originals \subseteq Media /\ thumbs \subseteq Media /\ fresh \subseteq Media
  /\ leaving \subseteq Media \X {"original", "thumb"}
  /\ queue \in Seq(Job) /\ local \in [Procs -> Seq(Job \cup {Sentinel})]
  /\ run \in [Runners -> Hand]
  /\ mode \in [Procs -> Modes]
  /\ sweep \in [Procs -> SUBSET (Media \X BOOLEAN)]
  /\ crashes \in 0 .. MaxCrashes /\ glitches \in 0 .. MaxGlitches
  /\ errors \in 0 .. MaxErrors /\ cut \in BOOLEAN

\* As long as the database and the object store answer, an item that says done
\* has its thumbnail, however many jobs for it run side by side, are killed or
\* overlap with its deletion: no job deletes what another one has published.
\* And whatever fails, a row names a thumbnail only while it says done (or is
\* gone): no stale copy of the row brings a withdrawn key back.
DoneHasThumb ==
  /\ errors = 0 => \A m \in Media \ tiny : status[m] = "done" => m \in thumbs
  /\ \A m \in Media : hasKey[m] => status[m] \in {"done", "gone"}

Queued(m) ==
  \/ \E i \in 1 .. Len(queue) : queue[i].media = m
  \/ \E p \in Procs : \E i \in 1 .. Len(local[p]) : local[p][i].media = m

\* Somebody will still come to m: the request that uploaded it, a queue, a
\* coroutine, a sweep, or a worker that is about to start.
InHand(m) ==
  \/ m \in fresh
  \/ Queued(m)
  \/ \E x \in Runners : run[x].media = m
  \/ \E p \in Procs, f \in BOOLEAN : <<m, f>> \in sweep[p]
  \/ \E p \in Workers : mode[p] = "down"

\* No unfinished item is forgotten: not by a worker's crash (its restart
\* sweeps), not by a Redis outage in the middle of a retry, not by two jobs
\* that overwrite each other's status.
NothingForgotten ==
  errors = 0 /\ ~cut => \A m \in Unfinished : InHand(m)

\* Where every upload has one job (no crash, no failed call, no extra sweep),
\* deleting an item in the middle of its job leaves no thumbnail behind.
NoLeakedThumb ==
  crashes + glitches + errors = 0 /\ (\A p \in Tools : mode[p] = "ready") =>
    \A m \in thumbs :
      \/ status[m] = "done"
      \/ \E x \in Runners : run[x].media = m /\ run[x].wrote
      \/ <<m, "thumb">> \in leaving

\* In the end every item is done, failed or deleted, and stays so.
EverythingSettles ==
  <>[](Unfinished = {} \/ errors > 0 \/ cut)

-----------------------------------------------------------------------------
(* What the design document says and the code does not do.                 *)

\* plan/DESIGN.md, thumbnail idempotency: a job that finds the item done skips
\* it entirely, and a second job is a no-op.
DoneIsFinal ==
  [][\A m \in Media : status[m] = "done" => status'[m] \in {"done", "gone"}]_vars

=============================================================================
