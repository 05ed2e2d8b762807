------------------------------- MODULE SignIn -------------------------------
(***************************************************************************)
(* Sessions and authentication limits while Redis comes and goes: login,   *)
(* registration, API-key and administrator requests, pages and logout in   *)
(* several processes.  RedisBackedSessionBackend keeps a record per        *)
(* session, RedisAuthRateLimiter counters and locks; both go through the   *)
(* process's RedisHandle, one command per step, and fall back to signed    *)
(* cookies and to counters in the process's memory.                        *)
(*                                                                         *)
(* There is one client address and one account; what the database says of  *)
(* a password, a key or an account is either answer (Accounts has it).     *)
(* Windows and locks end at any time; minutes pass one by one.             *)
(***************************************************************************)
EXTENDS RedisHandle

CONSTANTS
  Requests,    \* handler invocations at a time (bound)
  MaxBegun,    \* handler invocations in all (bound)
  MaxMinute,   \* minutes that may pass (bound)
  Tokens,      \* sessions that may be created
  NoToken,
  NoProc,
  Ops,         \* kinds of request
  Threshold,   \* failures that lock: auth_rate_limit_*_failures
  Rpm          \* attempts per minute: auth_rate_limit_*_rpm

ASSUME SignInAssumption ==
  /\ IsFiniteSet(Requests) /\ MaxBegun \in Nat /\ MaxMinute \in Nat
  /\ NoToken \notin Tokens /\ NoProc \notin Procs
  /\ Ops \subseteq {"login", "register", "apiKey", "admin", "page", "logout"}
  /\ Threshold \in Nat \ {0} /\ Rpm \in Nat \ {0}

Scopes == {"login", "apiKey", "admin"}    \* what is locked after failures
Metered == {"login", "register"}          \* what is counted per minute

VARIABLES
  failClosed,  \* SESSION_REDIS_FAIL_CLOSED; never changes
  fails,       \* Redis: failure counters, and whether they have an expiry
  locks,       \* Redis: locks
  reqs,        \* Redis: attempts in this minute
  mem,         \* per process: the in-memory limiter
  records,     \* Redis: session records
  store,       \* the tokens browsers hold: where their session is kept
  pc, loc, begun, minute,
  guesses,     \* history: login failures since a window or lock ended, a success or a crash
  admitted,    \* history: attempts of this minute let through, since a crash
  late,        \* history: attempts of an earlier minute let through in this one
  ended,       \* history: sessions logged out or expired
  revived      \* history: of those, the ones accepted again

counters == <<fails, locks, reqs>>          \* what Redis counts
limits == <<counters, mem>>
sessions == <<records, store>>
history == <<guesses, admitted, late, ended, revived>>
vars == <<redis, failClosed, limits, sessions, pc, loc, begun, minute, history>>

NoCount == [n |-> 0, ttl |-> FALSE]
NoneYet == [old |-> 0, new |-> 0]        \* attempts stamped before this minute, and in it
Forgotten == [fails |-> [s \in Scopes |-> 0], locks |-> {}, reqs |-> [c \in Metered |-> NoneYet]]
Blank == [op |-> "none", proc |-> NoProc, tok |-> NoToken, min |-> 0, n |-> 0]

Init ==
  /\ HandleInit
  /\ failClosed \in BOOLEAN
  /\ fails = [s \in Scopes |-> NoCount] /\ locks = {} /\ reqs = [c \in Metered |-> 0]
  /\ mem = [p \in Procs |-> Forgotten]
  /\ records = {} /\ store = [t \in Tokens |-> "none"]
  /\ pc = [r \in Requests |-> "idle"] /\ loc = [r \in Requests |-> Blank]
  /\ begun = 0 /\ minute = 0
  /\ guesses = 0 /\ admitted = [c \in Metered |-> 0] /\ late = 0 /\ ended = {} /\ revived = {}

-----------------------------------------------------------------------------
(* Shorthand.                                                              *)

Go(r, p, l) ==
  /\ pc' = [pc EXCEPT ![r] = p]
  /\ loc' = [loc EXCEPT ![r] = l]
  /\ UNCHANGED <<failClosed, begun, minute>>

Done(r) == Go(r, "idle", Blank)

Proc(r) == loc[r].proc
Op(r) == loc[r].op

\* What follows a passed check.
Passed(op) == CASE op \in {"login", "apiKey"} -> "verify"
                [] op = "register" -> "store"
                [] op = "admin" -> "resolve"

Pass(r) == Go(r, Passed(Op(r)), [loc[r] EXCEPT !.min = 0])

\* The attempt is let through that took the time in minute m.
Admit(op, m) ==
  /\ admitted' = IF op \in Metered /\ m = minute THEN [admitted EXCEPT ![op] = @ + 1] ELSE admitted
  /\ late' = IF op \in Metered /\ m # minute THEN late + 1 ELSE late

\* A counter or lock of the account is dropped because of a success.
Forgive(r) == guesses' = IF Op(r) = "login" THEN 0 ELSE guesses

-----------------------------------------------------------------------------
(* InMemoryAuthRateLimiter: its own limiter without Redis, the fallback    *)
(* with it.  It takes the time, then reads its settings from the database, *)
(* and counts with the time it took.                                       *)

\* enforce_*_attempt up to its settings: the time, and _check_lock.
MemEnforce(r) ==
  IF Op(r) \in mem[Proc(r)].locks THEN Done(r)
  ELSE IF Op(r) \in Metered THEN Go(r, "memory", [loc[r] EXCEPT !.min = minute])
  ELSE Pass(r)

\* _enforce_attempt_counter and add.  The window is the minute before the time
\* that was taken: attempts of earlier minutes may have left it or not.
MemCount(r) ==
  /\ pc[r] = "memory"
  /\ LET p == Proc(r)
         w == mem[p].reqs[Op(r)]
         one == IF loc[r].min = minute THEN 1 ELSE 0 IN
     \E kept \in 0 .. w.old :
       IF kept + w.new >= Rpm
       THEN /\ mem' = [mem EXCEPT ![p].reqs[Op(r)] = [old |-> kept, new |-> w.new]]
            /\ Done(r) /\ UNCHANGED <<admitted, late>>
       ELSE /\ mem' = [mem EXCEPT ![p].reqs[Op(r)] = [old |-> kept + (1 - one), new |-> w.new + one]]
            /\ Pass(r) /\ Admit(Op(r), loc[r].min)
  /\ UNCHANGED <<redis, counters, sessions, guesses, ended, revived>>

\* record_*_failure: the settings are read before the failure is counted.
MemFailure(r) ==
  /\ pc[r] = "memFail"
  /\ LET p == Proc(r)
         n == mem[p].fails[Op(r)] + 1 IN
     mem' = [mem EXCEPT ![p].fails[Op(r)] = n,
                        ![p].locks = IF n >= Threshold THEN @ \cup {Op(r)} ELSE @]
  /\ Done(r)
  /\ UNCHANGED <<redis, counters, sessions, history>>

MemSuccess(r) ==
  mem' = [mem EXCEPT ![Proc(r)].fails[Op(r)] = 0, ![Proc(r)].locks = @ \ {Op(r)}]

-----------------------------------------------------------------------------
(* enforce_*_attempt                                                       *)

Arrive(r) ==
  /\ pc[r] = "idle" /\ begun < MaxBegun
  /\ begun' = begun + 1
  /\ \E op \in Ops, p \in Procs, t \in Tokens \cup {NoToken} :
       /\ IF op \in {"admin", "page", "logout"} THEN t # NoToken /\ store[t] # "none" ELSE t = NoToken
       /\ pc' = [pc EXCEPT ![r] = CASE op \in Scopes -> "lock" [] op = "register" -> "count" [] OTHER -> "resolve"]
       /\ loc' = [loc EXCEPT ![r] = [Blank EXCEPT !.op = op, !.proc = p, !.tok = t, !.min = IF op = "register" THEN minute ELSE 0]]
  /\ UNCHANGED <<redis, failClosed, minute, limits, sessions, history>>

\* _raise_if_locked: GET
CheckLock(r) ==
  /\ pc[r] = "lock"
  /\ \E o \in Outcomes :
       /\ Command(Proc(r), TRUE, Op(r) # "login" /\ Op(r) \notin locks, TRUE, o)
       /\ CASE o # "answered" -> MemEnforce(r)
            [] o = "answered" /\ Op(r) \in locks -> Done(r)
            [] o = "answered" /\ Op(r) = "login" /\ Op(r) \notin locks -> Go(r, "count", [loc[r] EXCEPT !.min = minute])
            [] OTHER -> Pass(r)
  /\ UNCHANGED <<limits, sessions, history>>

\* Mutant: the limit itself may be passed.
CountBeyond(r) ==
  /\ pc[r] = "count"
  /\ \E o \in Outcomes :
       /\ Command(Proc(r), Op(r) = "register", FALSE, TRUE, o)
       /\ IF o # "answered" THEN MemEnforce(r)
          ELSE \E m \in loc[r].min .. minute :
                 \/ (m = minute => reqs[Op(r)] > Rpm) /\ Done(r)
                 \/ (m = minute => reqs[Op(r)] <= Rpm) /\ Go(r, "bump", [loc[r] EXCEPT !.min = m])
  /\ UNCHANGED <<limits, sessions, history>>

\* _enforce_rpm_counter: GET of the counter of the minute it was when the limit
\* had been read.  That of an earlier minute may be at its limit, or gone.
Count(r) ==
  /\ pc[r] = "count"
  /\ \E o \in Outcomes :
       /\ Command(Proc(r), Op(r) = "register", FALSE, TRUE, o)
       /\ IF o # "answered" THEN MemEnforce(r)
          ELSE \E m \in loc[r].min .. minute :
                 \/ (m = minute => reqs[Op(r)] >= Rpm) /\ Done(r)
                 \/ (m = minute => reqs[Op(r)] < Rpm) /\ Go(r, "bump", [loc[r] EXCEPT !.min = m])
  /\ UNCHANGED <<limits, sessions, history>>

\* INCR of the counter of the minute the GET was in.
Bump(r) ==
  /\ pc[r] = "bump"
  /\ LET op == Op(r)
         now == loc[r].min = minute IN
     \E o \in Outcomes, first \in IF now THEN {reqs[op] = 0} ELSE BOOLEAN :
       /\ Command(Proc(r), FALSE, ~first, TRUE, o)
       /\ reqs' = IF now /\ TookEffect(o) THEN [reqs EXCEPT ![op] = @ + 1] ELSE reqs
       /\ CASE o # "answered" -> MemEnforce(r) /\ UNCHANGED <<admitted, late>>
            [] o = "answered" /\ first -> Go(r, "expireCount", loc[r]) /\ UNCHANGED <<admitted, late>>
            [] OTHER -> Pass(r) /\ Admit(op, loc[r].min)
  /\ UNCHANGED <<fails, locks, mem, sessions, guesses, ended, revived>>

\* EXPIRE of that counter: a counter outlives its minute.
ExpireCount(r) ==
  /\ pc[r] = "expireCount"
  /\ \E o \in Outcomes :
       /\ Command(Proc(r), FALSE, TRUE, TRUE, o)
       /\ IF o # "answered" THEN MemEnforce(r) /\ UNCHANGED <<admitted, late>>
          ELSE Pass(r) /\ Admit(Op(r), loc[r].min)
  /\ UNCHANGED <<limits, sessions, guesses, ended, revived>>

-----------------------------------------------------------------------------
(* The verdict, and what is recorded of it                                 *)

\* authenticate_local_user, or the key and its user: right or not.
Verify(r) ==
  /\ pc[r] = "verify"
  /\ \/ /\ Go(r, "clearFails", loc[r])
        /\ MemSuccess(r)
        /\ Forgive(r)
     \/ /\ Go(r, "fail", loc[r])
        /\ guesses' = IF Op(r) = "login" THEN guesses + 1 ELSE guesses
        /\ UNCHANGED mem
  /\ UNCHANGED <<redis, counters, sessions, admitted, late, ended, revived>>

\* Mutant: the expiry is set when the threshold is reached.
FailLateExpiry(r) ==
  /\ pc[r] = "fail"
  /\ LET n == fails[Op(r)].n + 1 IN
     \E o \in Outcomes :
       /\ Command(Proc(r), TRUE, n < Threshold, TRUE, o)
       /\ fails' = IF TookEffect(o) THEN [fails EXCEPT ![Op(r)].n = n] ELSE fails
       /\ CASE o # "answered" -> Go(r, "memFail", loc[r])
            [] o = "answered" /\ n >= Threshold -> Go(r, "expireFails", [loc[r] EXCEPT !.n = n])
            [] OTHER -> Done(r)
  /\ UNCHANGED <<locks, reqs, mem, sessions, history>>

\* _record_failure_counter: INCR
Fail(r) ==
  /\ pc[r] = "fail"
  /\ LET n == fails[Op(r)].n + 1 IN
     \E o \in Outcomes :
       /\ Command(Proc(r), TRUE, n > 1 /\ n < Threshold, TRUE, o)
       /\ fails' = IF TookEffect(o) THEN [fails EXCEPT ![Op(r)].n = n] ELSE fails
       /\ CASE o # "answered" -> Go(r, "memFail", loc[r])
            [] o = "answered" /\ n = 1 -> Go(r, "expireFails", [loc[r] EXCEPT !.n = n])
            [] o = "answered" /\ n > 1 /\ n >= Threshold -> Go(r, "setLock", [loc[r] EXCEPT !.n = n])
            [] OTHER -> Done(r)
  /\ UNCHANGED <<locks, reqs, mem, sessions, history>>

ExpireFails(r) ==
  /\ pc[r] = "expireFails"
  /\ \E o \in Outcomes :
       /\ Command(Proc(r), FALSE, loc[r].n < Threshold, TRUE, o)
       /\ fails' = IF TookEffect(o) /\ fails[Op(r)].n > 0 THEN [fails EXCEPT ![Op(r)].ttl = TRUE] ELSE fails
       /\ CASE o # "answered" -> Go(r, "memFail", loc[r])
            [] o = "answered" /\ loc[r].n >= Threshold -> Go(r, "setLock", loc[r])
            [] OTHER -> Done(r)
  /\ UNCHANGED <<locks, reqs, mem, sessions, history>>

\* Mutant: the lock is set once the threshold is exceeded.
SetLockLate(r) ==
  /\ pc[r] = "setLock"
  /\ \E o \in Outcomes :
       /\ Command(Proc(r), FALSE, TRUE, TRUE, o)
       /\ locks' = IF TookEffect(o) /\ loc[r].n > Threshold THEN locks \cup {Op(r)} ELSE locks
       /\ IF o # "answered" THEN Go(r, "memFail", loc[r]) ELSE Done(r)
  /\ UNCHANGED <<fails, reqs, mem, sessions, history>>

SetLock(r) ==
  /\ pc[r] = "setLock"
  /\ \E o \in Outcomes :
       /\ Command(Proc(r), FALSE, TRUE, TRUE, o)
       /\ locks' = IF TookEffect(o) THEN locks \cup {Op(r)} ELSE locks
       /\ IF o # "answered" THEN Go(r, "memFail", loc[r]) ELSE Done(r)
  /\ UNCHANGED <<fails, reqs, mem, sessions, history>>

\* After success a login goes on to its session, a key to its request.
Cleared(r) == IF Op(r) = "login" THEN Go(r, "store", loc[r]) ELSE Done(r)

\* _best_effort_clear: two DELs outside execute; an error ends it quietly.
ClearFails(r) ==
  /\ pc[r] = "clearFails"
  /\ \E o \in Outcomes :
       /\ Command(Proc(r), TRUE, FALSE, FALSE, o)
       /\ fails' = IF TookEffect(o) THEN [fails EXCEPT ![Op(r)] = NoCount] ELSE fails
       /\ IF TookEffect(o) THEN Forgive(r) ELSE UNCHANGED guesses
       /\ IF o = "answered" THEN Go(r, "clearLock", loc[r]) ELSE Cleared(r)
  /\ UNCHANGED <<locks, reqs, mem, sessions, admitted, late, ended, revived>>

ClearLock(r) ==
  /\ pc[r] = "clearLock"
  /\ \E o \in Outcomes :
       /\ Command(Proc(r), FALSE, FALSE, FALSE, o)
       /\ locks' = IF TookEffect(o) THEN locks \ {Op(r)} ELSE locks
       /\ IF TookEffect(o) THEN Forgive(r) ELSE UNCHANGED guesses
  /\ Cleared(r)
  /\ UNCHANGED <<fails, reqs, mem, sessions, admitted, late, ended, revived>>

-----------------------------------------------------------------------------
(* Sessions                                                                *)

\* create_session: without Redis or, failing open, during an outage the
\* cookie alone is the session.  Failing closed nobody gets the token.
Store(r) ==
  /\ pc[r] = "store"
  /\ \E o \in Outcomes, t \in {u \in Tokens : store[u] = "none" /\ u \notin records} :
       /\ Execute(Proc(r), o)
       /\ records' = IF TookEffect(o) THEN records \cup {t} ELSE records
       /\ store' = CASE o = "answered" -> [store EXCEPT ![t] = "redis"]
                     [] o # "answered" /\ enabled /\ failClosed -> store
                     [] OTHER -> [store EXCEPT ![t] = "cookie"]
  /\ Done(r)
  /\ UNCHANGED <<limits, history>>

\* resolve_user: what becomes of an accepted or refused token.  A page that
\* is refused shows the login form, an administrator request is a denial.
Resolve(r) ==
  /\ pc[r] = "resolve"
  /\ LET t == loc[r].tok IN
     \E o \in Outcomes :
       /\ IF store[t] = "redis" THEN Execute(Proc(r), o) ELSE o = "unsent" /\ UNCHANGED redis
       /\ LET accepted == CASE store[t] = "cookie" -> TRUE
                            [] store[t] = "redis" /\ o = "answered" -> t \in records
                            [] store[t] = "redis" /\ o # "answered" -> ~failClosed
                            [] OTHER -> FALSE IN
            /\ revived' = IF accepted /\ t \in ended THEN revived \cup {t} ELSE revived
            /\ CASE Op(r) = "logout" -> Go(r, "drop", loc[r])
                 [] Op(r) = "page" -> Done(r)
                 [] Op(r) = "admin" -> (accepted /\ Done(r)) \/ Go(r, "fail", loc[r])
  /\ UNCHANGED <<limits, sessions, guesses, admitted, late, ended>>

\* Mutant: clear_session deletes another key.
DropAnother(r) ==
  /\ pc[r] = "drop"
  /\ LET t == loc[r].tok IN
     \E o \in Outcomes :
       /\ IF store[t] = "redis" THEN Execute(Proc(r), o) ELSE o = "unsent" /\ UNCHANGED redis
       /\ ended' = IF TookEffect(o) THEN ended \cup {t} ELSE ended
  /\ Done(r)
  /\ UNCHANGED <<limits, sessions, guesses, admitted, late, revived>>

\* clear_session: an outage is passed over, the browser forgets its cookie.
Drop(r) ==
  /\ pc[r] = "drop"
  /\ LET t == loc[r].tok IN
     \E o \in Outcomes :
       /\ IF store[t] = "redis" THEN Execute(Proc(r), o) ELSE o = "unsent" /\ UNCHANGED redis
       /\ records' = IF TookEffect(o) THEN records \ {t} ELSE records
       /\ ended' = IF TookEffect(o) THEN ended \cup {t} ELSE ended
  /\ Done(r)
  /\ UNCHANGED <<store, limits, guesses, admitted, late, revived>>

-----------------------------------------------------------------------------
(* Time and crashes                                                        *)

Passing == UNCHANGED <<failClosed, sessions, pc, loc, begun, ended, revived>>

\* A failure counter of Redis runs out, if it has an expiry at all.
FailWindow(s) ==
  /\ fails[s].ttl
  /\ fails' = [fails EXCEPT ![s] = NoCount]
  /\ guesses' = 0
  /\ UNCHANGED <<redis, locks, reqs, mem, minute, admitted, late>> /\ Passing

LockEnds(s) ==
  /\ s \in locks
  /\ locks' = locks \ {s}
  /\ guesses' = 0
  /\ UNCHANGED <<redis, fails, reqs, mem, minute, admitted, late>> /\ Passing

\* Mutant: the window drops an event it does not have.
MemAgeEmpty(p, s) ==
  /\ mem' = [mem EXCEPT ![p].fails[s] = @ - 1]
  /\ guesses' = 0
  /\ UNCHANGED <<redis, counters, minute, admitted, late>> /\ Passing

\* AuthWindowCounter.prune: one failure leaves the sliding window.
MemAge(p, s) ==
  /\ mem[p].fails[s] > 0
  /\ mem' = [mem EXCEPT ![p].fails[s] = @ - 1]
  /\ guesses' = 0
  /\ UNCHANGED <<redis, counters, minute, admitted, late>> /\ Passing

\* _check_lock finds the lock over.
MemLockEnds(p, s) ==
  /\ s \in mem[p].locks
  /\ mem' = [mem EXCEPT ![p].locks = @ \ {s}]
  /\ guesses' = 0
  /\ UNCHANGED <<redis, counters, minute, admitted, late>> /\ Passing

NextMinute ==
  /\ minute < MaxMinute
  /\ minute' = minute + 1
  /\ reqs' = [c \in Metered |-> 0]
  /\ mem' = [p \in Procs |-> [mem[p] EXCEPT !.reqs =
                 [c \in Metered |-> [old |-> @[c].old + @[c].new, new |-> 0]]]]
  /\ admitted' = [c \in Metered |-> 0] /\ late' = 0
  /\ UNCHANGED <<redis, fails, locks, guesses>> /\ Passing

\* The record's time to live; a remembered token carries the same expiry.
SessionExpires(t) ==
  /\ store[t] = "redis" /\ t \in records
  /\ records' = records \ {t}
  /\ \E s \in {"redis", "expired"} : store' = [store EXCEPT ![t] = s]
  /\ ended' = ended \cup {t}
  /\ UNCHANGED <<redis, failClosed, limits, pc, loc, begun, minute, guesses, admitted, late, revived>>

BreakerCloses(p) ==
  /\ Cooldown(p)
  /\ UNCHANGED <<failClosed, limits, sessions, pc, loc, begun, minute, history>>

\* A process dies: its requests and its memory are gone.
Crash(p) ==
  /\ Restart(p)
  /\ mem' = [mem EXCEPT ![p] = Forgotten]
  /\ pc' = [r \in Requests |-> IF Proc(r) = p THEN "idle" ELSE pc[r]]
  /\ loc' = [r \in Requests |-> IF Proc(r) = p THEN Blank ELSE loc[r]]
  /\ guesses' = 0
  /\ admitted' = [c \in Metered |-> 0] /\ late' = 0
  /\ UNCHANGED <<failClosed, counters, sessions, begun, minute, ended, revived>>

Limiting(r) ==
  \/ CheckLock(r) \/ Count(r) \/ Bump(r) \/ ExpireCount(r) \/ MemCount(r) \/ MemFailure(r)
  \/ Verify(r) \/ Fail(r) \/ ExpireFails(r) \/ SetLock(r) \/ ClearFails(r) \/ ClearLock(r)

Session(r) == Store(r) \/ Resolve(r) \/ Drop(r)

Next ==
  \/ \E r \in Requests : Arrive(r) \/ Limiting(r) \/ Session(r)
  \/ \E s \in Scopes : FailWindow(s) \/ LockEnds(s)
  \/ \E p \in Procs, s \in Scopes : MemAge(p, s) \/ MemLockEnds(p, s)
  \/ \E t \in Tokens : SessionExpires(t)
  \/ \E p \in Procs : BreakerCloses(p) \/ Crash(p)
  \/ NextMinute

Spec == Init /\ [][Next]_vars

-----------------------------------------------------------------------------
(* Properties.                                                             *)

Points == {"idle", "lock", "count", "bump", "expireCount", "memory", "verify", "fail", "expireFails",
           "setLock", "memFail", "clearFails", "clearLock", "store", "resolve", "drop"}

Locals == [op : Ops \cup {"none"}, proc : Procs \cup {NoProc}, tok : Tokens \cup {NoToken},
           min : 0 .. MaxMinute, n : Nat]

Window == [old : Nat, new : Nat]

TypeOK ==
  /\ HandleTypeOK
  /\ failClosed \in BOOLEAN
  /\ fails \in [Scopes -> [n : Nat, ttl : BOOLEAN]]
  /\ locks \subseteq Scopes
  /\ reqs \in [Metered -> Nat]
  /\ mem \in [Procs -> [fails : [Scopes -> Nat], locks : SUBSET Scopes, reqs : [Metered -> Window]]]
  /\ records \subseteq Tokens
  /\ store \in [Tokens -> {"none", "redis", "cookie", "expired"}]
  /\ pc \in [Requests -> Points]
  /\ loc \in [Requests -> Locals]
  /\ begun \in 0 .. MaxBegun /\ minute \in 0 .. MaxMinute
  /\ guesses \in Nat /\ admitted \in [Metered -> Nat] /\ late \in Nat
  /\ ended \subseteq Tokens /\ revived \subseteq Tokens

\* Where failures and attempts may be counted: in Redis, and in every
\* process's memory when Redis is off or was ever out of reach.
Redises == IF enabled THEN 1 ELSE 0
Memories == IF enabled /\ faults = 0 THEN 0 ELSE Cardinality(Procs)

\* However many logins overlap and wherever an outage falls among them, the
\* wrong passwords that are looked at between two ends of a window or lock (or
\* successes, which drop the counters, or crashes) stay below the threshold for
\* each place that counts, but for the requests that were past the check when
\* that place locked.  A fault opens a breaker and the breaker closes again:
\* each time requests may be counted elsewhere than where they were checked.
GuessesBounded ==
  guesses <= (Threshold - 1 + Cardinality(Requests)) * (Redises + Memories)
               + 2 * Cardinality(Requests) * Redises * faults

\* The same for the attempts that take the time in one minute: Redis is asked,
\* then told, so that the other requests may pass in between; a memory keeps
\* the attempts of this minute in its window.  Of those of earlier minutes no
\* more are let through than there are requests at a time, even where the
\* counter they look at has run out or has been pruned meanwhile.
AttemptsBounded ==
  /\ \A c \in Metered :
       admitted[c] <= Rpm * (Redises + Memories) + Redises * (Cardinality(Requests) - 1)
  /\ late <= Cardinality(Requests)

\* No failure counter outlives its window for good: whichever of several
\* overlapping failures and successes created the key sets its expiry -
\* unless a command or a process failed in between.
CountersExpire ==
  faults = 0 => \A s \in Scopes :
    fails[s].n > 0 =>
      fails[s].ttl \/ \E r \in Requests : pc[r] = "expireFails" /\ Op(r) = s

\* A session that was logged out or expired in Redis is not accepted again by
\* any process, unless the deployment fails open and Redis was out of reach.
EndedStaysEnded == revived # {} => ~failClosed /\ faults > 0
=============================================================================
