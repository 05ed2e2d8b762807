---------------------------- MODULE UploadLimits ----------------------------
(***************************************************************************)
(* The limits in front of every upload: RedisRateLimiter with its commands *)
(* one by one, InMemoryRateLimiter as its fallback and as the limiter of a *)
(* deployment without Redis.  The clock counts minutes; an hour has Hour   *)
(* of them.                                                                *)
(*                                                                         *)
(* A counter belongs to a user, to an anonymous address, or to all         *)
(* anonymous uploads together (Global).  An EXPIRE goes with the command   *)
(* before it: when it fails, that command has taken effect unanswered.     *)
(***************************************************************************)
EXTENDS RedisHandle, SequencesExt, FiniteSetsExt

CONSTANTS
  Requests,   \* uploads at a time (bound)
  MaxBegun,   \* uploads in all (bound)
  MaxTime,    \* minutes that may pass (bound)
  Hour,       \* minutes in an hour
  CountLife,  \* minutes that Redis keeps a counter of uploads, and
  BytesLife,  \* one of bytes, after the last upload: 120 and 3720 seconds
  Signed,     \* users
  Anons,      \* anonymous addresses
  Global,     \* the counter of all anonymous uploads
  Sizes,      \* bytes of an upload
  Rpm, Bph,   \* limits per counter: uploads per minute, bytes per hour; 0 is none
  NoProc

Scopes == Signed \cup Anons \cup {Global}
Minutes == 0 .. MaxTime

ASSUME LimitsAssumption ==
  /\ IsFiniteSet(Requests) /\ Requests # {} /\ MaxBegun \in Nat /\ MaxTime \in Nat /\ Hour \in Nat \ {0}
  /\ CountLife \in Nat \ {0} /\ BytesLife \in Nat /\ BytesLife >= Hour
  /\ Sizes \subseteq Nat \ {0} /\ IsFiniteSet(Sizes) /\ Sizes # {}
  /\ Rpm \in [Scopes -> Nat] /\ Bph \in [Scopes -> Nat]
  /\ NoProc \notin Procs /\ Global \notin Signed \cup Anons

VARIABLES
  now,       \* the minute it is
  count,     \* Redis: rl:req and rl:bytes per counter and minute
  windows,   \* per process and counter: the WindowCounter
  pc, loc, begun,
  admitted   \* history: uploads and bytes let through per counter and minute

vars == <<redis, now, count, windows, pc, loc, begun, admitted>>

Nothing == [s \in Scopes |-> [m \in Minutes |-> [n |-> 0, bytes |-> 0]]]
Blank == [proc |-> NoProc, todo |-> <<>>, scopes |-> <<>>, size |-> 0, at |-> 0]

Init ==
  /\ HandleInit
  /\ now = 0
  /\ count = Nothing
  /\ windows = [p \in Procs |-> [s \in Scopes |-> <<>>]]
  /\ pc = [r \in Requests |-> "idle"]
  /\ loc = [r \in Requests |-> Blank]
  /\ begun = 0
  /\ admitted = Nothing

-----------------------------------------------------------------------------
(* Shorthand.                                                              *)

Go(r, p, l) ==
  /\ pc' = [pc EXCEPT ![r] = p]
  /\ loc' = [loc EXCEPT ![r] = l]

Done(r) == Go(r, "idle", Blank)

Proc(r) == loc[r].proc

\* One more upload of the request in the counters ss of table c.
Charged(c, ss, r) ==
  [s \in Scopes |->
    IF s \in ss THEN [c[s] EXCEPT ![loc[r].at] = [n |-> @.n + 1, bytes |-> @.bytes + loc[r].size]]
    ELSE c[s]]

Admit(r) == admitted' = Charged(admitted, ToSet(loc[r].scopes), r)

\* The bytes a counter holds for the minutes of M.
Booked(c, M) == SumFunctionOnSet([m \in M |-> c[m].bytes], M)

BytesIn(w) == FoldLeft(LAMBDA sum, e : sum + e.size, 0, w)

-----------------------------------------------------------------------------
(* InMemoryRateLimiter                                                     *)

\* WindowCounter.prune: events leave in the order they came.
Prune(w, t, span) ==
  LET k == SelectInSeq(w, LAMBDA e : e.at > t - span) IN
    IF k = 0 THEN <<>> ELSE SubSeq(w, k, Len(w))

\* _enforce_counter.  The bytes are summed over what counting the minute left.
Refuses(s, w, size) ==
  \/ Rpm[s] > 0 /\ Len(w) >= Rpm[s]
  \/ Bph[s] > 0 /\ BytesIn(w) + size > Bph[s]

\* The counters a check looks at: the global one only if its address passes.
Looked(l, w) ==
  IF Refuses(Head(l.scopes), w[Head(l.scopes)], l.size) THEN {Head(l.scopes)} ELSE ToSet(l.scopes)

\* Mutant: an anonymous upload is added to its address alone.
MemoryForgetsGlobal(r) ==
  /\ pc[r] = "memory"
  /\ LET l == loc[r]
         old == windows[l.proc]
         new == [s \in Scopes |-> Prune(old[s], l.at, 1)]
         ss == ToSet(l.scopes) IN
       IF \E s \in ss : Refuses(s, new[s], l.size)
       THEN /\ windows' = [windows EXCEPT ![l.proc] =
                 [s \in Scopes |-> IF s \in Looked(l, new) THEN new[s] ELSE old[s]]]
            /\ Done(r) /\ UNCHANGED admitted
       ELSE /\ windows' = [windows EXCEPT ![l.proc] =
                 [s \in Scopes |-> IF s = Head(l.scopes) THEN Append(new[s], [at |-> l.at, size |-> l.size])
                                   ELSE old[s]]]
            /\ Admit(r) /\ Done(r)
  /\ UNCHANGED <<redis, now, count, begun>>

\* Every counter is checked before any is added to, with no await between.
Memory(r) ==
  /\ pc[r] = "memory"
  /\ LET l == loc[r]
         old == windows[l.proc]
         new == [s \in Scopes |-> Prune(old[s], l.at, 1)]
         ss == ToSet(l.scopes) IN
       IF \E s \in ss : Refuses(s, new[s], l.size)
       THEN /\ windows' = [windows EXCEPT ![l.proc] =
                 [s \in Scopes |-> IF s \in Looked(l, new) THEN new[s] ELSE old[s]]]
            /\ Done(r) /\ UNCHANGED admitted
       ELSE /\ windows' = [windows EXCEPT ![l.proc] =
                 [s \in Scopes |-> IF s \in ss THEN Append(new[s], [at |-> l.at, size |-> l.size])
                                   ELSE old[s]]]
            /\ Admit(r) /\ Done(r)
  /\ UNCHANGED <<redis, now, count, begun>>

-----------------------------------------------------------------------------
(* RedisRateLimiter                                                        *)

\* Mutant: the global counter is checked and charged first.
ScopesGlobalFirst(a) == IF a \in Anons THEN <<Global, a>> ELSE <<a>>

ScopesOf(a) == IF a \in Anons THEN <<a, Global>> ELSE <<a>>

\* The first command for a counter: a limit of 0 is not looked up.
Enter(s) == CASE Rpm[s] > 0 -> "ask" [] Rpm[s] = 0 /\ Bph[s] > 0 -> "sum" [] OTHER -> "bump"

\* The time is read, and the client asked for, before the limits are.
Arrive(r) ==
  /\ pc[r] = "idle" /\ begun < MaxBegun
  /\ begun' = begun + 1
  /\ \E a \in Signed \cup Anons, p \in Procs, size \in Sizes :
       Go(r, IF Available(p) THEN Enter(Head(ScopesOf(a))) ELSE "memory",
          [proc |-> p, todo |-> ScopesOf(a), scopes |-> ScopesOf(a), size |-> size, at |-> now])
  /\ UNCHANGED <<redis, now, count, windows, admitted>>

Scope(r) == Head(loc[r].todo)

\* RedisUnavailable: the whole check is done again in memory, at a new time.
Fallback(r) == Go(r, "memory", [loc[r] EXCEPT !.todo = <<>>, !.at = now])

\* Mutant: the limit itself may be passed.
AskBeyond(r) ==
  /\ pc[r] = "ask"
  /\ \E o \in Outcomes :
       /\ Command(Proc(r), FALSE, FALSE, TRUE, o)
       /\ CASE o # "answered" -> Fallback(r)
            [] o = "answered" /\ count[Scope(r)][loc[r].at].n > Rpm[Scope(r)] -> Done(r)
            [] OTHER -> Go(r, IF Bph[Scope(r)] > 0 THEN "sum" ELSE "bump", loc[r])
  /\ UNCHANGED <<now, count, windows, begun, admitted>>

\* GET of this minute's uploads
Ask(r) ==
  /\ pc[r] = "ask"
  /\ \E o \in Outcomes :
       /\ Command(Proc(r), FALSE, FALSE, TRUE, o)
       /\ CASE o # "answered" -> Fallback(r)
            [] o = "answered" /\ count[Scope(r)][loc[r].at].n >= Rpm[Scope(r)] -> Done(r)
            [] OTHER -> Go(r, IF Bph[Scope(r)] > 0 THEN "sum" ELSE "bump", loc[r])
  /\ UNCHANGED <<now, count, windows, begun, admitted>>

Oldest(r) == loc[r].at - (Hour - 1)

\* Mutant: the upload at hand is left out of the sum.
SumWithout(r) ==
  /\ pc[r] = "sum"
  /\ LET s == Scope(r)
         used == Booked(count[s], {m \in Minutes : m >= Oldest(r)}) IN
     \E o \in Outcomes :
       /\ Command(Proc(r), FALSE, FALSE, TRUE, o)
       /\ CASE o # "answered" -> Fallback(r)
            [] o = "answered" /\ used > Bph[s] -> Done(r)
            [] OTHER -> Go(r, "bump", loc[r])
       /\ UNCHANGED count
  /\ UNCHANGED <<now, windows, begun, admitted>>

\* HGETALL, and HDEL of the minutes that are too old
Sum(r) ==
  /\ pc[r] = "sum"
  /\ LET s == Scope(r)
         used == Booked(count[s], {m \in Minutes : m >= Oldest(r)}) IN
     \E o \in Outcomes :
       /\ Command(Proc(r), FALSE, FALSE, TRUE, o)
       /\ CASE o # "answered" -> Fallback(r)
            [] o = "answered" /\ used + loc[r].size > Bph[s] -> Done(r)
            [] OTHER -> Go(r, "bump", loc[r])
       /\ count' = IF TookEffect(o)
                   THEN [count EXCEPT ![s] = [m \in Minutes |-> IF m < Oldest(r) THEN [@[m] EXCEPT !.bytes = 0] ELSE @[m]]]
                   ELSE count
  /\ UNCHANGED <<now, windows, begun, admitted>>

\* INCR of this minute's uploads
Bump(r) ==
  /\ pc[r] = "bump"
  /\ \E o \in Outcomes :
       /\ Command(Proc(r), FALSE, FALSE, TRUE, o)
       /\ IF o = "answered" THEN Go(r, "book", loc[r]) ELSE Fallback(r)
       /\ count' = IF TookEffect(o) THEN [count EXCEPT ![Scope(r)][loc[r].at].n = @ + 1] ELSE count
  /\ UNCHANGED <<now, windows, begun, admitted>>

\* Mutant: the script goes on after its last counter.
BookOn(r) ==
  /\ pc[r] = "book"
  /\ \E o \in Outcomes :
       /\ Command(Proc(r), FALSE, FALSE, TRUE, o)
       /\ IF o = "answered" THEN Go(r, "ask", [loc[r] EXCEPT !.todo = Tail(@)]) ELSE Fallback(r)
       /\ UNCHANGED <<count, admitted>>
  /\ UNCHANGED <<now, windows, begun>>

\* HINCRBY of this minute's bytes; then the next counter, or the upload is in.
Book(r) ==
  /\ pc[r] = "book"
  /\ LET rest == Tail(loc[r].todo) IN
     \E o \in Outcomes :
       /\ Command(Proc(r), FALSE, rest = <<>>, TRUE, o)
       /\ CASE o # "answered" -> Fallback(r) /\ UNCHANGED admitted
            [] o = "answered" /\ rest = <<>> -> Done(r) /\ Admit(r)
            [] OTHER -> Go(r, Enter(Head(rest)), [loc[r] EXCEPT !.todo = rest]) /\ UNCHANGED admitted
       /\ count' = IF TookEffect(o) THEN [count EXCEPT ![Scope(r)][loc[r].at].bytes = @ + loc[r].size] ELSE count
  /\ UNCHANGED <<now, windows, begun>>

-----------------------------------------------------------------------------

NextMinute ==
  /\ now < MaxTime
  /\ now' = now + 1
  /\ UNCHANGED <<redis, count, windows, pc, loc, begun, admitted>>

\* The counter of minute m runs out.  Its last upload came in minute m at the
\* earliest, and only requests under way that took the time in it notice.
CountExpires(s, m) ==
  /\ count[s][m].n > 0 /\ now >= m + CountLife
  /\ \E r \in Requests : pc[r] # "idle" /\ loc[r].at = m
  /\ count' = [count EXCEPT ![s][m].n = 0]
  /\ UNCHANGED <<redis, now, windows, pc, loc, begun, admitted>>

\* The bytes of a counter run out as a whole.
BytesExpire(s) ==
  LET kept == {m \in Minutes : count[s][m].bytes > 0} IN
  /\ \A m \in kept : now >= m + BytesLife
  /\ \E r \in Requests, m \in kept : pc[r] # "idle" /\ m >= Oldest(r)
  /\ count' = [count EXCEPT ![s] = [m \in Minutes |-> [@[m] EXCEPT !.bytes = 0]]]
  /\ UNCHANGED <<redis, now, windows, pc, loc, begun, admitted>>

BreakerCloses(p) == Cooldown(p) /\ UNCHANGED <<now, count, windows, pc, loc, begun, admitted>>

Next ==
  \/ \E r \in Requests : Arrive(r) \/ Memory(r) \/ Ask(r) \/ Sum(r) \/ Bump(r) \/ Book(r)
  \/ \E s \in Scopes, m \in Minutes : CountExpires(s, m)
  \/ \E s \in Scopes : BytesExpire(s)
  \/ \E p \in Procs : BreakerCloses(p)
  \/ NextMinute

Spec == Init /\ [][Next]_vars

-----------------------------------------------------------------------------
(* Properties.                                                             *)

Tally == [Scopes -> [Minutes -> [n : Nat, bytes : Nat]]]
Locals == [proc : Procs \cup {NoProc}, todo : Seq(Scopes), scopes : Seq(Scopes),
           size : Sizes \cup {0}, at : Minutes]

TypeOK ==
  /\ HandleTypeOK
  /\ now \in Minutes
  /\ count \in Tally /\ admitted \in Tally
  /\ windows \in [Procs -> [Scopes -> Seq([at : Minutes, size : Sizes])]]
  /\ pc \in [Requests -> {"idle", "memory", "ask", "sum", "bump", "book"}]
  /\ loc \in [Requests -> Locals]
  /\ \A r \in Requests : pc[r] \notin {"idle", "memory"} => loc[r].todo # <<>>
  /\ begun \in 0 .. MaxBegun

\* Where an upload may be counted, and how many others pass a check with it.
Redises == IF enabled THEN 1 ELSE 0
Memories == IF enabled /\ faults = 0 THEN 0 ELSE Cardinality(Procs)
Places == Redises + Memories
Overlap == Cardinality(Requests) - 1

BytesOfHour(s, m) == Booked(admitted[s], {t \in Minutes : t >= m /\ t < m + Hour})

\* Uploads that overlap pass a limit together: in Redis they read a counter
\* before the others added to it.  No more than those are let through beyond
\* the limit of each place that counts, as long as the minute lasts; later its
\* counter runs out, or others prune it, and all those that were under way
\* with the time of that minute may pass as well, but no more.
RpmBounded ==
  \A s \in Scopes, m \in Minutes :
    Rpm[s] > 0 => admitted[s][m].n <=
      Rpm[s] * Places + Overlap * Redises + (IF now > m THEN Cardinality(Requests) ELSE 0)

\* The bytes of any hour stay within the hourly limit, but for overlapping
\* uploads, as long as Redis counts them.  Once the hour is over, those that
\* are under way with a time of that hour may find it deleted or run out.
HourBounded ==
  enabled /\ faults = 0 => \A s \in Scopes, m \in Minutes :
    Bph[s] > 0 => BytesOfHour(s, m) <=
      Bph[s] + (Overlap + IF now < m + Hour THEN 0 ELSE Cardinality(Requests)) * Max(Sizes)

\* Where the memories have counted an upload of minute m.
Entries(w, s, m) == UNION {{p} \X {i \in DOMAIN w[p][s] : w[p][s][i].at = m} : p \in Procs}
InMemory(s, m) == Cardinality(Entries(windows, s, m))

\* No upload is let through uncounted, whichever command failed on the way:
\* for this minute it is in Redis or in a memory, in each of its counters.
NoneUncounted ==
  \A s \in Scopes : admitted[s][now].n <= count[s][now].n + InMemory(s, now)

\* The allowance of all anonymous uploads is spent by uploads that are let
\* through only: one that its own address's limit refuses takes nothing from
\* the others (one that the global limit refuses has been charged to its
\* address).  A command whose answer is lost may count twice.
RefusedSpendsNoneOfGlobal ==
  count[Global][now].n + InMemory(Global, now) <=
    admitted[Global][now].n + faults
      + Cardinality({r \in Requests : pc[r] = "book" /\ Scope(r) = Global /\ loc[r].at = now})

\* "Bytes per hour", wherever they are counted.
BytesPerHour ==
  \A s \in Scopes, m \in Minutes :
    Bph[s] > 0 => BytesOfHour(s, m) <= Bph[s] * Places + Overlap * Max(Sizes)
=============================================================================
