---------------------------- MODULE SignInProofs ----------------------------
(***************************************************************************)
(* Type correctness of SignIn; failure counters that expire; sessions that *)
(* stay ended; how many attempts and wrong passwords the limits let        *)
(* through, over Redis and the memories of all processes.                  *)
(***************************************************************************)
EXTENDS SignIn, FiniteSetTheorems, TLAPS

-----------------------------------------------------------------------------
(* The inductive invariant.                                                *)

\* The kind of request, and what it carries, at each await.
Fits(q, l) ==
  /\ q # "idle" => l.proc \in Procs
  /\ q # "idle" /\ l.op \in {"admin", "page", "logout"} => l.tok \in Tokens
  /\ q = "lock" => l.op \in Scopes
  /\ q \in {"count", "bump", "expireCount", "memory"} => l.op \in Metered
  /\ q \in {"verify", "clearFails", "clearLock"} => l.op \in {"login", "apiKey"}
  /\ q \in {"fail", "expireFails", "setLock", "memFail"} => l.op \in Scopes
  /\ q \in {"resolve", "drop"} => l.op \in {"admin", "page", "logout"}

PlaceInv == \A r \in Requests : Fits(pc[r], loc[r])

\* The breaker of a process is open only after a fault.
BreakerInv == \A p \in Procs : blocked[p] => faults > 0

\* An ended session has no record, and was kept in Redis.
EndedInv ==
  /\ \A t \in Tokens : store[t] = "redis" => enabled
  /\ \A t \in ended : t \notin records /\ store[t] \in {"redis", "expired"}

Inv == TypeOK /\ PlaceInv /\ BreakerInv /\ EndedInv /\ CountersExpire /\ EndedStaysEnded

-----------------------------------------------------------------------------
(* Helpers.                                                                *)

\* A command leaves the handle well-typed, opens the breaker only with a
\* fault, and without a fault a command that was sent is answered.
LEMMA CommandFacts ==
  ASSUME HandleTypeOK, BreakerInv, NEW p \in Procs, NEW first \in BOOLEAN, NEW last \in BOOLEAN,
         NEW guarded \in BOOLEAN, NEW o, Command(p, first, last, guarded, o)
  PROVE  /\ HandleTypeOK' /\ BreakerInv'
         /\ o \in Outcomes /\ enabled' = enabled /\ faults <= faults'
         /\ faults' = 0 => o \in {"answered", "unsent"}
         /\ o = "unsent" => first /\ (enabled => faults > 0)
         /\ o = "answered" /\ first => enabled
<1>1. /\ o \in Outcomes /\ enabled' = enabled
      /\ o \in {"lost", "failed"} => faults < MaxFaults
      /\ o = "unsent" => first /\ ~(enabled /\ ~blocked[p])
      /\ o = "answered" /\ first => enabled
  BY DEF Command, Outcomes, Available
<1>2. faults' = IF o \in {"lost", "failed"} THEN faults + 1 ELSE faults
  BY DEF Command
<1>3. faults \in 0 .. MaxFaults /\ MaxFaults \in Nat
  BY RedisAssumption DEF HandleTypeOK
<1>4. faults' \in 0 .. MaxFaults /\ faults <= faults' /\ (o \in {"lost", "failed"} => faults' > 0)
  BY <1>1, <1>2, <1>3
<1>5. blocked' = [blocked EXCEPT ![p] = (@ \/ (guarded /\ o \in {"lost", "failed"}))
                                         /\ ~(guarded /\ last /\ o = "answered")]
  BY DEF Command
<1>6. PICK b \in BOOLEAN : /\ b = ((blocked[p] \/ (guarded /\ o \in {"lost", "failed"}))
                                    /\ ~(guarded /\ last /\ o = "answered"))
                           /\ blocked' = [blocked EXCEPT ![p] = b]
  BY <1>5
<1>7. blocked' \in [Procs -> BOOLEAN]
  BY <1>6 DEF HandleTypeOK
<1>8. b => blocked[p] \/ o \in {"lost", "failed"}
  BY <1>6
<1>9. BreakerInv'
  BY <1>3, <1>4, <1>6, <1>8 DEF BreakerInv, HandleTypeOK
<1> QED BY <1>1, <1>2, <1>3, <1>4, <1>7, <1>9 DEF BreakerInv, HandleTypeOK, Outcomes

\* A request goes on to where its values fit.
Moves(r) == \E q \in Points, l \in Locals : Fits(q, l) /\ Go(r, q, l)

Memory == [fails : [Scopes -> Nat], locks : SUBSET Scopes, reqs : [Metered -> Window]]
Counts == [n : Nat, ttl : BOOLEAN]

LEMMA BlankType == Blank \in Locals
BY SignInAssumption DEF Blank, Locals

LEMMA DoneMoves == ASSUME NEW r \in Requests, Done(r) PROVE Moves(r)
BY BlankType DEF Moves, Done, Fits, Points

\* A request that goes on leaves the others where they are.
LEMMA MovesFacts ==
  ASSUME TypeOK, PlaceInv, NEW r \in Requests, Moves(r)
  PROVE  /\ pc' \in [Requests -> Points] /\ loc' \in [Requests -> Locals] /\ PlaceInv'
         /\ \A s \in Requests \ {r} : pc'[s] = pc[s] /\ loc'[s] = loc[s]
         /\ UNCHANGED <<failClosed, begun, minute>>
<1>1. PICK q \in Points, l \in Locals : Fits(q, l) /\ Go(r, q, l)
  BY DEF Moves
<1>2. /\ pc' \in [Requests -> Points] /\ loc' \in [Requests -> Locals]
      /\ \A s \in Requests \ {r} : pc'[s] = pc[s] /\ loc'[s] = loc[s]
      /\ pc'[r] = q /\ loc'[r] = l
  BY <1>1 DEF Go, TypeOK
<1>3. \A s \in Requests : Fits(pc'[s], loc'[s])
  <2> TAKE s \in Requests
  <2>1. CASE s = r
    BY <1>1, <1>2, <2>1
  <2>2. CASE s # r
    <3>1. pc'[s] = pc[s] /\ loc'[s] = loc[s]
      BY <1>2, <2>2
    <3> QED BY <3>1 DEF PlaceInv
  <2> QED BY <2>1, <2>2
<1> QED BY <1>1, <1>2, <1>3 DEF Go, PlaceInv

\* The invariant survives a request's step that concerns no session.
LEMMA LimitStep ==
  ASSUME Inv, NEW r \in Requests, Moves(r), HandleTypeOK', BreakerInv', enabled' = enabled,
         faults <= faults', UNCHANGED <<sessions, ended, revived>>,
         fails' \in [Scopes -> Counts], locks' \subseteq Scopes,
         reqs' \in [Metered -> Nat],
         mem' \in [Procs -> Memory],
         guesses' \in Nat, admitted' \in [Metered -> Nat], late' \in Nat, CountersExpire'
  PROVE  Inv'
<1>1. /\ pc' \in [Requests -> Points] /\ loc' \in [Requests -> Locals] /\ PlaceInv'
      /\ UNCHANGED <<failClosed, begun, minute>>
  BY MovesFacts DEF Inv
<1>2. TypeOK'
  BY <1>1 DEF Inv, TypeOK, sessions, Memory, Counts
<1>3. EndedInv'
  BY DEF Inv, EndedInv, sessions
<1>4. EndedStaysEnded'
  <2>1. faults \in Nat /\ faults' \in Nat
    BY RedisAssumption DEF Inv, TypeOK, HandleTypeOK
  <2> QED BY <1>1, <2>1 DEF Inv, EndedStaysEnded
<1> QED BY <1>1, <1>2, <1>3, <1>4 DEF Inv

\* Who does not stand before an EXPIRE is not relied on.
LEMMA CountersKept ==
  ASSUME Inv, NEW r \in Requests, Moves(r), pc[r] # "expireFails", HandleTypeOK',
         faults <= faults',
         \A s \in Scopes : fails'[s] = fails[s] \/ fails'[s] = NoCount
  PROVE  CountersExpire'
<1>1. faults \in Nat /\ faults' \in Nat
  BY RedisAssumption DEF Inv, TypeOK, HandleTypeOK
<1>2. ASSUME NEW q \in Requests, pc[q] = "expireFails"
      PROVE  pc'[q] = "expireFails" /\ loc'[q] = loc[q]
  <2>1. q # r
    BY <1>2
  <2> QED BY <1>2, <2>1, MovesFacts DEF Inv
<1>3. SUFFICES ASSUME faults' = 0, NEW s \in Scopes, fails'[s].n > 0
               PROVE  fails'[s].ttl \/ \E q \in Requests : pc'[q] = "expireFails" /\ loc'[q].op = s
  BY DEF CountersExpire, Op
<1>4. fails'[s] = fails[s]
  BY <1>3 DEF NoCount
<1>5. fails[s].ttl \/ \E q \in Requests : pc[q] = "expireFails" /\ loc[q].op = s
  BY <1>1, <1>3, <1>4 DEF Inv, CountersExpire, Op
<1> QED BY <1>2, <1>4, <1>5

-----------------------------------------------------------------------------
(* The limiters.                                                           *)

LEMMA AdmitType ==
  ASSUME admitted \in [Metered -> Nat], late \in Nat, NEW op, NEW m, Admit(op, m)
  PROVE  admitted' \in [Metered -> Nat] /\ late' \in Nat
<1>1. late' \in Nat
  BY DEF Admit
<1>2. CASE admitted' = admitted
  BY <1>1, <1>2
<1>3. CASE op \in Metered /\ admitted' = [admitted EXCEPT ![op] = @ + 1]
  <2>1. PICK n \in Nat : n = admitted[op] + 1
    BY <1>3
  <2>2. admitted' = [admitted EXCEPT ![op] = n]
    BY <1>3, <2>1
  <2> QED BY <1>1, <2>2
<1> QED BY <1>2, <1>3 DEF Admit

\* What a passed check leads to suits the request.
LEMMA PassedFits ==
  ASSUME NEW q, q # "idle", NEW l, Fits(q, l), l.op \in {"login", "register", "apiKey", "admin"}
  PROVE  Fits(Passed(l.op), l) /\ Passed(l.op) \in Points
<1>1. CASE l.op \in {"login", "apiKey"}
  <2>1. Passed(l.op) = "verify"
    BY <1>1 DEF Passed
  <2> QED BY <1>1, <2>1 DEF Fits, Points
<1>2. CASE l.op = "register"
  <2>1. Passed(l.op) = "store"
    BY <1>2 DEF Passed
  <2> QED BY <1>2, <2>1 DEF Fits, Points
<1>3. CASE l.op = "admin"
  <2>1. Passed(l.op) = "resolve"
    BY <1>3 DEF Passed
  <2>2. l.tok \in Tokens
    BY <1>3 DEF Fits
  <2> QED BY <1>3, <2>1, <2>2 DEF Fits, Points
<1> QED BY <1>1, <1>2, <1>3

LEMMA PassMoves ==
  ASSUME Inv, NEW r \in Requests, pc[r] # "idle", loc[r].op \in {"login", "register", "apiKey", "admin"},
         Pass(r)
  PROVE  Moves(r)
<1>1. PICK l : l = [loc[r] EXCEPT !.min = 0]
  OBVIOUS
<1>2. Fits(pc[r], loc[r]) /\ loc[r] \in Locals
  BY DEF Inv, PlaceInv, TypeOK
<1>3. l \in Locals /\ l.op = loc[r].op /\ Fits(pc[r], l)
  BY <1>1, <1>2, SignInAssumption DEF Locals, Fits
<1>4. Fits(Passed(l.op), l) /\ Passed(l.op) \in Points
  BY <1>3, PassedFits
<1>5. Go(r, Passed(l.op), l)
  BY <1>1, <1>3 DEF Pass, Op
<1> QED BY <1>3, <1>4, <1>5 DEF Moves

\* The in-memory limiter refuses the attempt, lets it go on or looks up its limit.
LEMMA EnforceMoves ==
  ASSUME Inv, NEW r \in Requests, pc[r] \in {"lock", "count", "bump", "expireCount"}, MemEnforce(r)
  PROVE  Moves(r)
<1>1. /\ Fits(pc[r], loc[r]) /\ loc[r] \in Locals /\ pc[r] # "idle"
      /\ loc[r].op \in {"login", "register", "apiKey", "admin"}
  BY DEF Inv, PlaceInv, Fits, TypeOK, Scopes, Metered
<1>2. PICK l : l = [loc[r] EXCEPT !.min = minute]
  OBVIOUS
<1>3. /\ l \in Locals /\ "memory" \in Points
      /\ loc[r].op \in Metered => Fits("memory", l)
  BY <1>1, <1>2 DEF Inv, TypeOK, Locals, Fits, Points, Metered
<1>4. \/ Done(r)
      \/ loc[r].op \in Metered /\ Go(r, "memory", l)
      \/ Pass(r)
  BY <1>2 DEF MemEnforce, Op
<1> QED BY <1>1, <1>3, <1>4, DoneMoves, PassMoves DEF Moves

LEMMA MemCountInv == ASSUME Inv, NEW r \in Requests, MemCount(r) PROVE Inv'
<1> DEFINE p == loc[r].proc
           op == loc[r].op
           w == mem[p].reqs[op]
<1>1. pc[r] = "memory" /\ UNCHANGED <<redis, counters, sessions, guesses, ended, revived>>
  BY DEF MemCount
<1>2. /\ p \in Procs /\ op \in Metered /\ op \in {"login", "register", "apiKey", "admin"}
  BY <1>1 DEF Inv, PlaceInv, Fits, Metered
<1>3. /\ mem \in [Procs -> Memory] /\ mem[p] \in Memory /\ mem[p].reqs \in [Metered -> Window]
      /\ w.old \in Nat /\ w.new \in Nat
  BY <1>2 DEF Inv, TypeOK, Memory, Window
<1>4. PICK one \in {0, 1} : one = IF loc[r].min = minute THEN 1 ELSE 0
  OBVIOUS
<1>5. PICK kept \in 0 .. w.old :
        \/ /\ mem' = [mem EXCEPT ![p].reqs[op] = [old |-> kept, new |-> w.new]]
           /\ Done(r) /\ UNCHANGED <<admitted, late>>
        \/ /\ mem' = [mem EXCEPT ![p].reqs[op] = [old |-> kept + (1 - one), new |-> w.new + one]]
           /\ Pass(r) /\ Admit(op, loc[r].min)
  BY <1>4 DEF MemCount, Proc, Op
<1>6. PICK v \in Window : mem' = [mem EXCEPT ![p].reqs[op] = v]
  <2>1. [old |-> kept, new |-> w.new] \in Window
    BY <1>3 DEF Window
  <2>2. [old |-> kept + (1 - one), new |-> w.new + one] \in Window
    BY <1>3, <1>4 DEF Window
  <2> QED BY <1>5, <2>1, <2>2
<1>7. [mem[p] EXCEPT !.reqs = [mem[p].reqs EXCEPT ![op] = v]] \in Memory
  BY <1>3, <1>6 DEF Memory
<1>8. mem' = [mem EXCEPT ![p] = [mem[p] EXCEPT !.reqs = [mem[p].reqs EXCEPT ![op] = v]]]
  BY <1>6
<1>9. mem' \in [Procs -> Memory]
  BY <1>3, <1>7, <1>8
<1>10. Moves(r)
  BY <1>1, <1>2, <1>5, DoneMoves, PassMoves
<1>11. admitted' \in [Metered -> Nat] /\ late' \in Nat
  BY <1>5, AdmitType DEF Inv, TypeOK
<1>12. HandleTypeOK' /\ BreakerInv' /\ enabled' = enabled /\ faults <= faults'
  BY <1>1, RedisAssumption DEF Inv, TypeOK, HandleTypeOK, BreakerInv, redis
<1>13. CountersExpire'
  BY <1>1, <1>10, <1>12, CountersKept DEF counters
<1> QED BY <1>1, <1>9, <1>10, <1>11, <1>12, <1>13, LimitStep DEF counters, Inv, TypeOK, Counts

\* A failure counted in memory: the request is over.
LEMMA MemFailureInv == ASSUME Inv, NEW r \in Requests, MemFailure(r) PROVE Inv'
<1> DEFINE p == loc[r].proc
           op == loc[r].op
<1>1. pc[r] = "memFail" /\ Done(r) /\ UNCHANGED <<redis, counters, sessions, history>>
  BY DEF MemFailure
<1>2. p \in Procs /\ op \in Scopes
  BY <1>1 DEF Inv, PlaceInv, Fits
<1>3. mem[p] \in Memory /\ mem \in [Procs -> Memory]
  BY <1>2 DEF Inv, TypeOK, Memory
<1>4. PICK n \in Nat : n = mem[p].fails[op] + 1
  BY <1>2, <1>3 DEF Memory
<1>5. PICK L : L = IF n >= Threshold THEN mem[p].locks \cup {op} ELSE mem[p].locks
  OBVIOUS
<1>6. L \subseteq Scopes
  BY <1>2, <1>3, <1>5 DEF Memory
<1>7. mem' = [mem EXCEPT ![p] = [mem[p] EXCEPT !.fails = [mem[p].fails EXCEPT ![op] = n], !.locks = L]]
  BY <1>2, <1>3, <1>4, <1>5 DEF MemFailure, Proc, Op
<1>8. [mem[p] EXCEPT !.fails = [mem[p].fails EXCEPT ![op] = n], !.locks = L] \in Memory
  BY <1>3, <1>6 DEF Memory
<1>9. mem' \in [Procs -> Memory] /\ Moves(r)
  BY <1>1, <1>3, <1>7, <1>8, DoneMoves
<1>10. HandleTypeOK' /\ BreakerInv' /\ enabled' = enabled /\ faults <= faults'
  BY <1>1, RedisAssumption DEF Inv, TypeOK, HandleTypeOK, BreakerInv, redis
<1>11. CountersExpire'
  BY <1>1, <1>9, <1>10, CountersKept DEF counters
<1> QED BY <1>1, <1>9, <1>10, <1>11, LimitStep DEF counters, history, Inv, TypeOK, Counts


-----------------------------------------------------------------------------
(* The steps of enforce_*_attempt.                                         *)

LEMMA CheckLockInv == ASSUME Inv, NEW r \in Requests, CheckLock(r) PROVE Inv'
<1>1. PICK o \in Outcomes :
        /\ Command(Proc(r), TRUE, Op(r) # "login" /\ Op(r) \notin locks, TRUE, o)
        /\ CASE o # "answered" -> MemEnforce(r)
             [] o = "answered" /\ Op(r) \in locks -> Done(r)
             [] o = "answered" /\ Op(r) = "login" /\ Op(r) \notin locks -> Go(r, "count", [loc[r] EXCEPT !.min = minute])
             [] OTHER -> Pass(r)
  BY Zenon DEF CheckLock
<1>2. pc[r] = "lock" /\ UNCHANGED <<limits, sessions, history>>
  BY DEF CheckLock
<1>3. /\ Fits("lock", loc[r]) /\ loc[r] \in Locals /\ Proc(r) \in Procs
      /\ loc[r].op \in {"login", "register", "apiKey", "admin"}
  BY <1>2 DEF Inv, PlaceInv, TypeOK, Fits, Proc, Scopes
<1>4. HandleTypeOK' /\ BreakerInv' /\ enabled' = enabled /\ faults <= faults'
  BY <1>1, <1>3, CommandFacts DEF Inv, TypeOK
<1>5. Moves(r)
  <2>1. CASE o # "answered"
    BY <1>1, <1>2, <2>1, EnforceMoves
  <2>2. CASE o = "answered"
    <3>1. PICK l : l = [loc[r] EXCEPT !.min = minute]
      OBVIOUS
    <3>2. l \in Locals /\ "count" \in Points /\ (loc[r].op = "login" => Fits("count", l))
      BY <1>3, <3>1 DEF Inv, TypeOK, Locals, Fits, Points, Metered
    <3>3. \/ Done(r)
          \/ loc[r].op = "login" /\ Go(r, "count", l)
          \/ Pass(r)
      <4>1. CASE Op(r) \in locks
        BY <1>1, <2>2, <4>1, Zenon
      <4>2. CASE Op(r) \notin locks /\ Op(r) = "login"
        BY <1>1, <2>2, <3>1, <4>2, Zenon DEF Op
      <4>3. CASE Op(r) \notin locks /\ Op(r) # "login"
        BY <1>1, <2>2, <4>3, Zenon
      <4> QED BY <4>1, <4>2, <4>3
    <3> QED BY <1>2, <1>3, <3>2, <3>3, DoneMoves, PassMoves DEF Moves
  <2> QED BY <2>1, <2>2
<1>6. CountersExpire'
  BY <1>2, <1>4, <1>5, CountersKept DEF limits, counters
<1> QED BY <1>2, <1>4, <1>5, <1>6, LimitStep DEF limits, counters, history, Inv, TypeOK, Counts, Memory

LEMMA CountInv == ASSUME Inv, NEW r \in Requests, Count(r) PROVE Inv'
<1>1. PICK o \in Outcomes :
        /\ Command(Proc(r), Op(r) = "register", FALSE, TRUE, o)
        /\ IF o # "answered" THEN MemEnforce(r)
           ELSE \E m \in loc[r].min .. minute : Done(r) \/ Go(r, "bump", [loc[r] EXCEPT !.min = m])
  BY DEF Count
<1>2. pc[r] = "count" /\ UNCHANGED <<limits, sessions, history>>
  BY DEF Count
<1>3. /\ Fits("count", loc[r]) /\ loc[r] \in Locals /\ Proc(r) \in Procs
      /\ loc[r].op \in Metered
  BY <1>2 DEF Inv, PlaceInv, TypeOK, Fits, Proc
<1>4. HandleTypeOK' /\ BreakerInv' /\ enabled' = enabled /\ faults <= faults'
  BY <1>1, <1>3, CommandFacts DEF Inv, TypeOK
<1>5. Moves(r)
  <2>1. CASE o # "answered"
    BY <1>1, <1>2, <2>1, EnforceMoves
  <2>2. CASE o = "answered"
    <3>1. PICK m \in loc[r].min .. minute : Done(r) \/ Go(r, "bump", [loc[r] EXCEPT !.min = m])
      BY <1>1, <2>2
    <3>2. m \in 0 .. MaxMinute
      BY <1>3, <3>1, SignInAssumption DEF Locals, Inv, TypeOK
    <3>3. PICK l : l = [loc[r] EXCEPT !.min = m]
      OBVIOUS
    <3>4. l \in Locals /\ Fits("bump", l) /\ "bump" \in Points
      BY <1>3, <3>2, <3>3 DEF Locals, Fits, Points
    <3> QED BY <3>1, <3>3, <3>4, DoneMoves DEF Moves
  <2> QED BY <2>1, <2>2
<1>6. CountersExpire'
  BY <1>2, <1>4, <1>5, CountersKept DEF limits, counters
<1> QED BY <1>2, <1>4, <1>5, <1>6, LimitStep DEF limits, counters, history, Inv, TypeOK, Counts, Memory

\* What the INCR of the attempts may do.
LEMMA BumpFacts ==
  ASSUME NEW r \in Requests, Bump(r)
  PROVE  \E o \in Outcomes, first \in BOOLEAN :
           /\ Command(Proc(r), FALSE, ~first, TRUE, o)
           /\ reqs' = IF loc[r].min = minute /\ TookEffect(o) THEN [reqs EXCEPT ![loc[r].op] = @ + 1] ELSE reqs
           /\ o # "answered" => MemEnforce(r) /\ UNCHANGED <<admitted, late>>
           /\ o = "answered" /\ first => Go(r, "expireCount", loc[r]) /\ UNCHANGED <<admitted, late>>
           /\ o = "answered" /\ ~first => Pass(r) /\ Admit(loc[r].op, loc[r].min)
           /\ o = "answered" => Go(r, "expireCount", loc[r]) \/ Pass(r)
<1>1. PICK F \in SUBSET BOOLEAN : F = IF loc[r].min = minute THEN {reqs[Op(r)] = 0} ELSE BOOLEAN
  OBVIOUS
<1>2. \E o \in Outcomes, first \in F :
        /\ Command(Proc(r), FALSE, ~first, TRUE, o)
        /\ reqs' = IF loc[r].min = minute /\ TookEffect(o) THEN [reqs EXCEPT ![Op(r)] = @ + 1] ELSE reqs
        /\ CASE o # "answered" -> MemEnforce(r) /\ UNCHANGED <<admitted, late>>
             [] o = "answered" /\ first -> Go(r, "expireCount", loc[r]) /\ UNCHANGED <<admitted, late>>
             [] OTHER -> Pass(r) /\ Admit(Op(r), loc[r].min)
  BY <1>1, Zenon DEF Bump
<1>3. PICK o \in Outcomes, first \in F :
        /\ Command(Proc(r), FALSE, ~first, TRUE, o)
        /\ reqs' = IF loc[r].min = minute /\ TookEffect(o) THEN [reqs EXCEPT ![Op(r)] = @ + 1] ELSE reqs
        /\ CASE o # "answered" -> MemEnforce(r) /\ UNCHANGED <<admitted, late>>
             [] o = "answered" /\ first -> Go(r, "expireCount", loc[r]) /\ UNCHANGED <<admitted, late>>
             [] OTHER -> Pass(r) /\ Admit(Op(r), loc[r].min)
  BY <1>2, Zenon
<1>4. first \in BOOLEAN
  BY <1>1, <1>3
<1>5. /\ o # "answered" => MemEnforce(r) /\ UNCHANGED <<admitted, late>>
      /\ o = "answered" /\ first => Go(r, "expireCount", loc[r]) /\ UNCHANGED <<admitted, late>>
      /\ o = "answered" /\ ~first => Pass(r) /\ Admit(Op(r), loc[r].min)
  <2>1. CASE o # "answered"
    BY <1>3, <2>1, Zenon
  <2>2. CASE o = "answered" /\ first
    BY <1>3, <2>2, Zenon
  <2>3. CASE o = "answered" /\ ~first
    BY <1>3, <2>3, Zenon
  <2> QED BY <1>4, <2>1, <2>2, <2>3, Zenon
<1> QED BY <1>3, <1>4, <1>5, Zenon DEF Op

LEMMA BumpInv == ASSUME Inv, NEW r \in Requests, Bump(r) PROVE Inv'
<1>1. PICK o \in Outcomes, first \in BOOLEAN :
        /\ Command(Proc(r), FALSE, ~first, TRUE, o)
        /\ reqs' = reqs \/ reqs' = [reqs EXCEPT ![Op(r)] = @ + 1]
        /\ o # "answered" => MemEnforce(r) /\ UNCHANGED <<admitted, late>>
        /\ o = "answered" /\ first => Go(r, "expireCount", loc[r]) /\ UNCHANGED <<admitted, late>>
        /\ o = "answered" /\ ~first => Pass(r) /\ Admit(loc[r].op, loc[r].min)
  BY BumpFacts DEF Op
<1>2. pc[r] = "bump" /\ UNCHANGED <<fails, locks, mem, sessions, guesses, ended, revived>>
  BY DEF Bump
<1>3. /\ Fits("bump", loc[r]) /\ loc[r] \in Locals /\ Proc(r) \in Procs
      /\ loc[r].op \in Metered /\ loc[r].op \in {"login", "register", "apiKey", "admin"}
  BY <1>2 DEF Inv, PlaceInv, TypeOK, Fits, Proc, Metered
<1>4. HandleTypeOK' /\ BreakerInv' /\ enabled' = enabled /\ faults <= faults'
  BY <1>1, <1>3, CommandFacts DEF Inv, TypeOK
<1>5. Moves(r) /\ admitted' \in [Metered -> Nat] /\ late' \in Nat
  <2>1. CASE o # "answered"
    <3>1. MemEnforce(r) /\ UNCHANGED <<admitted, late>>
      BY <1>1, <2>1, Zenon
    <3> QED BY <1>2, <3>1, EnforceMoves DEF Inv, TypeOK
  <2>2. CASE o = "answered" /\ first
    <3>1. Go(r, "expireCount", loc[r]) /\ UNCHANGED <<admitted, late>>
      BY <1>1, <2>2, Zenon
    <3>2. Fits("expireCount", loc[r]) /\ "expireCount" \in Points
      BY <1>3 DEF Fits, Points
    <3> QED BY <1>3, <3>1, <3>2 DEF Moves, Inv, TypeOK
  <2>3. CASE o = "answered" /\ ~first
    <3>1. Pass(r) /\ Admit(loc[r].op, loc[r].min)
      BY <1>1, <2>3, Zenon
    <3> QED BY <1>2, <1>3, <3>1, PassMoves, AdmitType DEF Inv, TypeOK
  <2> QED BY <2>1, <2>2, <2>3
<1>6. reqs' \in [Metered -> Nat]
  <2>1. CASE reqs' = reqs
    BY <2>1 DEF Inv, TypeOK
  <2>2. CASE reqs' = [reqs EXCEPT ![Op(r)] = @ + 1]
    <3>1. PICK n \in Nat : n = reqs[loc[r].op] + 1
      BY <1>3 DEF Inv, TypeOK
    <3>2. reqs' = [reqs EXCEPT ![loc[r].op] = n]
      BY <2>2, <3>1 DEF Op
    <3> QED BY <3>2 DEF Inv, TypeOK
  <2> QED BY <1>1, <2>1, <2>2
<1>7. CountersExpire'
  BY <1>2, <1>4, <1>5, CountersKept
<1> QED BY <1>2, <1>4, <1>5, <1>6, <1>7, LimitStep DEF Inv, TypeOK, Counts, Memory

LEMMA ExpireCountInv == ASSUME Inv, NEW r \in Requests, ExpireCount(r) PROVE Inv'
<1>1. PICK o \in Outcomes :
        /\ Command(Proc(r), FALSE, TRUE, TRUE, o)
        /\ IF o # "answered" THEN MemEnforce(r) /\ UNCHANGED <<admitted, late>>
           ELSE Pass(r) /\ Admit(Op(r), loc[r].min)
  BY DEF ExpireCount
<1>2. pc[r] = "expireCount" /\ UNCHANGED <<limits, sessions, guesses, ended, revived>>
  BY DEF ExpireCount
<1>3. Proc(r) \in Procs /\ loc[r].op \in {"login", "register", "apiKey", "admin"}
  BY <1>2 DEF Inv, PlaceInv, TypeOK, Fits, Proc, Metered
<1>4. HandleTypeOK' /\ BreakerInv' /\ enabled' = enabled /\ faults <= faults'
  BY <1>1, <1>3, CommandFacts DEF Inv, TypeOK
<1>5. Moves(r) /\ admitted' \in [Metered -> Nat] /\ late' \in Nat
  <2>1. CASE o # "answered"
    BY <1>1, <1>2, <2>1, EnforceMoves DEF Inv, TypeOK
  <2>2. CASE o = "answered"
    BY <1>1, <1>2, <1>3, <2>2, PassMoves, AdmitType DEF Inv, TypeOK
  <2> QED BY <2>1, <2>2
<1>6. CountersExpire'
  BY <1>2, <1>4, <1>5, CountersKept DEF limits, counters
<1> QED BY <1>2, <1>4, <1>5, <1>6, LimitStep DEF limits, counters, Inv, TypeOK, Counts, Memory


-----------------------------------------------------------------------------
(* The verdict and what is recorded of it.                                 *)

LEMMA VerifyInv == ASSUME Inv, NEW r \in Requests, Verify(r) PROVE Inv'
<1>1. /\ pc[r] = "verify"
      /\ UNCHANGED <<redis, counters, sessions, admitted, late, ended, revived>>
      /\ \/ Go(r, "clearFails", loc[r]) /\ MemSuccess(r) /\ guesses' \in {guesses, 0}
         \/ Go(r, "fail", loc[r]) /\ mem' = mem /\ guesses' \in {guesses, guesses + 1}
  BY DEF Verify, Forgive
<1>2. /\ Fits("verify", loc[r]) /\ loc[r] \in Locals /\ Proc(r) \in Procs
      /\ loc[r].op \in {"login", "apiKey"} /\ loc[r].op \in Scopes
  BY <1>1 DEF Inv, PlaceInv, TypeOK, Fits, Proc, Scopes
<1>3. Fits("clearFails", loc[r]) /\ Fits("fail", loc[r]) /\ {"clearFails", "fail"} \subseteq Points
  BY <1>2 DEF Fits, Points
<1>4. Moves(r)
  BY <1>1, <1>2, <1>3 DEF Moves
<1>5. mem' \in [Procs -> Memory]
  <2>1. CASE mem' = mem
    BY <2>1 DEF Inv, TypeOK, Memory
  <2>2. CASE MemSuccess(r)
    <3> DEFINE m == mem[Proc(r)]
               n == [m EXCEPT !.fails = [m.fails EXCEPT ![loc[r].op] = 0], !.locks = @ \ {loc[r].op}]
    <3>1. m \in Memory /\ mem \in [Procs -> Memory]
      BY <1>2 DEF Inv, TypeOK, Memory
    <3>2. n \in Memory
      BY <3>1 DEF Memory
    <3>3. mem' = [mem EXCEPT ![Proc(r)] = n]
      BY <2>2 DEF MemSuccess, Op
    <3> QED BY <3>1, <3>2, <3>3
  <2> QED BY <1>1, <2>1, <2>2
<1>6. HandleTypeOK' /\ BreakerInv' /\ enabled' = enabled /\ faults <= faults'
  <2>1. faults \in Nat
    BY RedisAssumption DEF Inv, TypeOK, HandleTypeOK
  <2> QED BY <1>1, <2>1 DEF Inv, TypeOK, HandleTypeOK, BreakerInv, redis
<1>7. CountersExpire'
  BY <1>1, <1>4, <1>6, CountersKept DEF counters
<1>8. guesses' \in Nat
  BY <1>1 DEF Inv, TypeOK
<1> QED BY <1>1, <1>4, <1>5, <1>6, <1>7, <1>8, LimitStep DEF counters, Inv, TypeOK, Counts

\* The request that created the counter goes on to its EXPIRE.
LEMMA FailInv == ASSUME Inv, NEW r \in Requests, Fail(r) PROVE Inv'
<1>1. PICK n : n = fails[Op(r)].n + 1
  OBVIOUS
<1>2. PICK o \in Outcomes :
        /\ Command(Proc(r), TRUE, n > 1 /\ n < Threshold, TRUE, o)
        /\ fails' = IF TookEffect(o) THEN [fails EXCEPT ![Op(r)].n = n] ELSE fails
        /\ CASE o # "answered" -> Go(r, "memFail", loc[r])
             [] o = "answered" /\ n = 1 -> Go(r, "expireFails", [loc[r] EXCEPT !.n = n])
             [] o = "answered" /\ n > 1 /\ n >= Threshold -> Go(r, "setLock", [loc[r] EXCEPT !.n = n])
             [] OTHER -> Done(r)
  BY <1>1, Zenon DEF Fail
<1>3. pc[r] = "fail" /\ UNCHANGED <<locks, reqs, mem, sessions, history>>
  BY DEF Fail
<1>4. /\ Fits("fail", loc[r]) /\ loc[r] \in Locals /\ Proc(r) \in Procs
      /\ loc[r].op \in Scopes
  BY <1>3 DEF Inv, PlaceInv, TypeOK, Fits, Proc
<1>5. /\ fails \in [Scopes -> Counts] /\ n \in Nat \ {0} /\ Threshold \in Nat \ {0}
      /\ fails[loc[r].op].n = n - 1
  <2>1. fails \in [Scopes -> Counts] /\ Threshold \in Nat \ {0}
    BY SignInAssumption DEF Inv, TypeOK, Counts
  <2>2. PICK k \in Nat : k = fails[loc[r].op].n
    BY <1>4, <2>1 DEF Counts
  <2>3. n = k + 1
    BY <1>1, <2>2 DEF Op
  <2> QED BY <2>1, <2>2, <2>3
<1>6. /\ HandleTypeOK' /\ BreakerInv' /\ enabled' = enabled /\ faults <= faults'
      /\ faults' = 0 => o \in {"answered", "unsent"}
  BY <1>2, <1>4, <1>5, CommandFacts DEF Inv, TypeOK
<1>7. PICK l : l = [loc[r] EXCEPT !.n = n]
  OBVIOUS
<1>8. l \in Locals /\ Fits("expireFails", l) /\ Fits("setLock", l) /\ l.op = loc[r].op
  BY <1>4, <1>5, <1>7 DEF Locals, Fits
<1>9. /\ o # "answered" => Go(r, "memFail", loc[r])
      /\ o = "answered" /\ n = 1 => Go(r, "expireFails", l)
      /\ o = "answered" /\ n # 1 => Go(r, "setLock", l) \/ Done(r)
  <2>1. CASE o # "answered"
    BY <1>2, <2>1, Zenon
  <2>2. CASE o = "answered" /\ n = 1
    <3>1. ~(n > 1)
      BY <2>2
    <3> QED BY <1>2, <1>7, <2>2, <3>1, Zenon
  <2>3. CASE o = "answered" /\ n # 1 /\ n > 1 /\ n >= Threshold
    BY <1>2, <1>7, <2>3, Zenon
  <2>4. CASE o = "answered" /\ n # 1 /\ ~(n > 1 /\ n >= Threshold)
    BY <1>2, <2>4, Zenon
  <2> QED BY <2>1, <2>2, <2>3, <2>4, Zenon
<1>10. Moves(r)
  <2>1. {"expireFails", "setLock", "memFail"} \subseteq Points /\ Fits("memFail", loc[r])
    BY <1>4 DEF Points, Fits
  <2> QED BY <1>4, <1>8, <1>9, <2>1, DoneMoves DEF Moves
<1>11. fails' \in [Scopes -> Counts] /\ \A s \in Scopes \ {loc[r].op} : fails'[s] = fails[s]
  BY <1>2, <1>4, <1>5 DEF Counts, Op
<1>12. CountersExpire'
  <2>1. CASE fails' = fails
    BY <1>3, <1>6, <1>10, <2>1, CountersKept
  <2>2. CASE o = "answered" /\ n = 1
    <3>1. pc'[r] = "expireFails" /\ loc'[r].op = loc[r].op
      BY <1>8, <1>9, <2>2 DEF Go, Inv, TypeOK
    <3>2. faults \in Nat /\ faults' \in Nat
      BY <1>6, RedisAssumption DEF Inv, TypeOK, HandleTypeOK
    <3>3. ASSUME NEW q \in Requests, pc[q] = "expireFails"
          PROVE  pc'[q] = "expireFails" /\ loc'[q] = loc[q]
      BY <1>3, <1>10, <3>3, MovesFacts DEF Inv
    <3>4. ASSUME faults' = 0, NEW s \in Scopes, fails'[s].n > 0
          PROVE  fails'[s].ttl \/ \E q \in Requests : pc'[q] = "expireFails" /\ loc'[q].op = s
      <4>1. CASE s = loc[r].op
        BY <3>1, <4>1
      <4>2. CASE s # loc[r].op
        <5>1. fails'[s] = fails[s] /\ faults = 0
          BY <1>6, <1>11, <3>2, <3>4, <4>2
        <5>2. fails[s].ttl \/ \E q \in Requests : pc[q] = "expireFails" /\ loc[q].op = s
          BY <3>4, <5>1 DEF Inv, CountersExpire, Op
        <5> QED BY <3>3, <5>1, <5>2
      <4> QED BY <4>1, <4>2
    <3> QED BY <3>4 DEF CountersExpire, Op
  <2>3. CASE o = "answered" /\ n # 1 /\ fails' = [fails EXCEPT ![loc[r].op].n = n]
    <3>1. faults \in Nat /\ faults' \in Nat
      BY <1>6, RedisAssumption DEF Inv, TypeOK, HandleTypeOK
    <3>2. ASSUME NEW q \in Requests, pc[q] = "expireFails"
          PROVE  pc'[q] = "expireFails" /\ loc'[q] = loc[q]
      BY <1>3, <1>10, <3>2, MovesFacts DEF Inv
    <3>3. ASSUME faults' = 0, NEW s \in Scopes, fails'[s].n > 0
          PROVE  fails'[s].ttl \/ \E q \in Requests : pc'[q] = "expireFails" /\ loc'[q].op = s
      <4>1. fails'[s].ttl = fails[s].ttl /\ fails[s].n > 0 /\ faults = 0
        BY <1>5, <1>6, <1>11, <2>3, <3>1, <3>3 DEF Counts
      <4>2. fails[s].ttl \/ \E q \in Requests : pc[q] = "expireFails" /\ loc[q].op = s
        BY <4>1 DEF Inv, CountersExpire, Op
      <4> QED BY <3>2, <4>1, <4>2
    <3> QED BY <3>3 DEF CountersExpire, Op
  <2>4. CASE o \in {"lost", "failed"}
    BY <1>6, <2>4 DEF CountersExpire
  <2> QED BY <1>2, <2>1, <2>2, <2>3, <2>4 DEF TookEffect, Op, Outcomes
<1> QED BY <1>3, <1>6, <1>10, <1>11, <1>12, LimitStep DEF history, Inv, TypeOK, Memory

\* The expiry is set: this request is not relied on any more.
LEMMA ExpireFailsInv == ASSUME Inv, NEW r \in Requests, ExpireFails(r) PROVE Inv'
<1>1. PICK o \in Outcomes :
        /\ Command(Proc(r), FALSE, loc[r].n < Threshold, TRUE, o)
        /\ fails' = IF TookEffect(o) /\ fails[Op(r)].n > 0 THEN [fails EXCEPT ![Op(r)].ttl = TRUE] ELSE fails
        /\ Go(r, "memFail", loc[r]) \/ Go(r, "setLock", loc[r]) \/ Done(r)
  BY Zenon DEF ExpireFails
<1>2. pc[r] = "expireFails" /\ UNCHANGED <<locks, reqs, mem, sessions, history>>
  BY DEF ExpireFails
<1>3. /\ Fits("expireFails", loc[r]) /\ loc[r] \in Locals /\ Proc(r) \in Procs
      /\ loc[r].op \in Scopes /\ loc[r].n \in Nat /\ Threshold \in Nat
  BY <1>2, SignInAssumption DEF Inv, PlaceInv, TypeOK, Fits, Proc, Locals
<1>4. /\ HandleTypeOK' /\ BreakerInv' /\ enabled' = enabled /\ faults <= faults'
      /\ faults' = 0 => o = "answered"
  <2>1. (loc[r].n < Threshold) \in BOOLEAN
    BY <1>3
  <2>2. o \in Outcomes /\ o # "unsent"
    BY <1>1 DEF Command
  <2> QED BY <1>1, <1>3, <2>1, <2>2, CommandFacts DEF Inv, TypeOK
<1>5. Moves(r)
  <2>1. Fits("setLock", loc[r]) /\ Fits("memFail", loc[r]) /\ {"setLock", "memFail"} \subseteq Points
    BY <1>3 DEF Fits, Points
  <2> QED BY <1>1, <1>3, <2>1, DoneMoves DEF Moves
<1>6. fails' \in [Scopes -> Counts] /\ \A s \in Scopes \ {loc[r].op} : fails'[s] = fails[s]
  BY <1>1, <1>3 DEF Counts, Op, Inv, TypeOK
<1>7. CountersExpire'
  <2>1. SUFFICES ASSUME faults' = 0, NEW s \in Scopes, fails'[s].n > 0
                 PROVE  fails'[s].ttl \/ \E q \in Requests : pc'[q] = "expireFails" /\ loc'[q].op = s
    BY DEF CountersExpire, Op
  <2>2. faults = 0 /\ o = "answered"
    BY <1>4, <2>1, RedisAssumption DEF Inv, TypeOK, HandleTypeOK
  <2>3. CASE s = loc[r].op
    BY <1>1, <1>3, <2>1, <2>2, <2>3 DEF TookEffect, Op, Counts, Inv, TypeOK
  <2>4. CASE s # loc[r].op
    <3>1. fails'[s] = fails[s]
      BY <1>6, <2>4
    <3>2. fails[s].ttl \/ \E q \in Requests : pc[q] = "expireFails" /\ loc[q].op = s
      BY <2>1, <2>2, <3>1 DEF Inv, CountersExpire, Op
    <3>3. ASSUME NEW q \in Requests, pc[q] = "expireFails", loc[q].op = s
          PROVE  pc'[q] = "expireFails" /\ loc'[q].op = s
      <4>1. q # r
        BY <2>4, <3>3
      <4> QED BY <1>5, <3>3, <4>1, MovesFacts DEF Inv
    <3> QED BY <3>1, <3>2, <3>3
  <2> QED BY <2>3, <2>4
<1> QED BY <1>2, <1>4, <1>5, <1>6, <1>7, LimitStep DEF history, Inv, TypeOK, Memory

LEMMA SetLockInv == ASSUME Inv, NEW r \in Requests, SetLock(r) PROVE Inv'
<1>1. PICK o \in Outcomes :
        /\ Command(Proc(r), FALSE, TRUE, TRUE, o)
        /\ locks' = IF TookEffect(o) THEN locks \cup {Op(r)} ELSE locks
        /\ Go(r, "memFail", loc[r]) \/ Done(r)
  BY DEF SetLock
<1>2. pc[r] = "setLock" /\ UNCHANGED <<fails, reqs, mem, sessions, history>>
  BY DEF SetLock
<1>3. Proc(r) \in Procs /\ Op(r) \in Scopes /\ Fits("setLock", loc[r]) /\ loc[r] \in Locals
  BY <1>2 DEF Inv, TypeOK, PlaceInv, Fits, Proc, Op
<1>4. HandleTypeOK' /\ BreakerInv' /\ enabled' = enabled /\ faults <= faults'
  BY <1>1, <1>3, CommandFacts DEF Inv, TypeOK
<1>5. Moves(r)
  <2>1. Fits("memFail", loc[r]) /\ "memFail" \in Points
    BY <1>3 DEF Fits, Points
  <2> QED BY <1>1, <1>3, <2>1, DoneMoves DEF Moves
<1>6. CountersExpire'
  BY <1>2, <1>4, <1>5, CountersKept
<1>7. locks' \subseteq Scopes
  BY <1>1, <1>3 DEF Inv, TypeOK
<1> QED BY <1>2, <1>4, <1>5, <1>6, <1>7, LimitStep DEF history, Inv, TypeOK, Counts, Memory

LEMMA ClearedMoves ==
  ASSUME Inv, NEW r \in Requests, pc[r] \in {"clearFails", "clearLock"}, Cleared(r)
  PROVE  Moves(r)
<1>1. Fits(pc[r], loc[r]) /\ loc[r] \in Locals
  BY DEF Inv, PlaceInv, TypeOK
<1>2. Fits("store", loc[r]) /\ "store" \in Points
  BY <1>1 DEF Fits, Points
<1> QED BY <1>1, <1>2, DoneMoves DEF Cleared, Moves

LEMMA ClearFailsInv == ASSUME Inv, NEW r \in Requests, ClearFails(r) PROVE Inv'
<1>1. PICK o \in Outcomes :
        /\ Command(Proc(r), TRUE, FALSE, FALSE, o)
        /\ fails' = IF TookEffect(o) THEN [fails EXCEPT ![Op(r)] = NoCount] ELSE fails
        /\ IF o = "answered" THEN Go(r, "clearLock", loc[r]) ELSE Cleared(r)
        /\ guesses' \in {guesses, 0}
  BY DEF ClearFails, Forgive
<1>2. /\ pc[r] = "clearFails"
      /\ UNCHANGED <<locks, reqs, mem, sessions, admitted, late, ended, revived>>
  BY DEF ClearFails
<1>3. Proc(r) \in Procs /\ Op(r) \in Scopes /\ Fits("clearFails", loc[r]) /\ loc[r] \in Locals
  BY <1>2 DEF Inv, PlaceInv, TypeOK, Fits, Proc, Op, Scopes
<1>4. HandleTypeOK' /\ BreakerInv' /\ enabled' = enabled /\ faults <= faults'
  BY <1>1, <1>3, CommandFacts DEF Inv, TypeOK
<1>5. Fits("clearLock", loc[r]) /\ "clearLock" \in Points
  BY <1>3 DEF Fits, Points
<1>6. Moves(r)
  BY <1>1, <1>2, <1>3, <1>5, ClearedMoves DEF Moves
<1>7. /\ fails' \in [Scopes -> Counts]
      /\ \A s \in Scopes : fails'[s] = fails[s] \/ fails'[s] = NoCount
  BY <1>1, <1>3 DEF Inv, TypeOK, Counts, NoCount
<1>8. CountersExpire' /\ guesses' \in Nat
  BY <1>1, <1>2, <1>4, <1>6, <1>7, CountersKept DEF Inv, TypeOK
<1> QED BY <1>2, <1>4, <1>6, <1>7, <1>8, LimitStep DEF Inv, TypeOK, Memory

LEMMA ClearLockInv == ASSUME Inv, NEW r \in Requests, ClearLock(r) PROVE Inv'
<1>1. PICK o \in Outcomes :
        /\ Command(Proc(r), FALSE, FALSE, FALSE, o)
        /\ locks' = IF TookEffect(o) THEN locks \ {Op(r)} ELSE locks
        /\ guesses' \in {guesses, 0}
  BY DEF ClearLock, Forgive
<1>2. /\ pc[r] = "clearLock" /\ Cleared(r)
      /\ UNCHANGED <<fails, reqs, mem, sessions, admitted, late, ended, revived>>
  BY DEF ClearLock
<1>3. Proc(r) \in Procs
  BY <1>2 DEF Inv, PlaceInv, Fits, Proc
<1>4. HandleTypeOK' /\ BreakerInv' /\ enabled' = enabled /\ faults <= faults'
  BY <1>1, <1>3, CommandFacts DEF Inv, TypeOK
<1>5. Moves(r)
  BY <1>2, ClearedMoves
<1>6. CountersExpire'
  BY <1>2, <1>4, <1>5, CountersKept
<1>7. locks' \subseteq Scopes /\ guesses' \in Nat
  BY <1>1 DEF Inv, TypeOK
<1> QED BY <1>2, <1>4, <1>5, <1>6, <1>7, LimitStep DEF Inv, TypeOK, Counts, Memory


-----------------------------------------------------------------------------
(* Sessions.                                                               *)

\* What the steps of sessions leave alone, and what is left to show of them.
LEMMA SessionStep ==
  ASSUME Inv, NEW r \in Requests, Moves(r), pc[r] # "expireFails", HandleTypeOK', BreakerInv',
         enabled' = enabled, faults <= faults', UNCHANGED <<limits, guesses, admitted, late>>,
         records' \subseteq Tokens, store' \in [Tokens -> {"none", "redis", "cookie", "expired"}],
         ended' \subseteq Tokens, revived' \subseteq Tokens, EndedInv', EndedStaysEnded'
  PROVE  Inv'
<1>1. /\ pc' \in [Requests -> Points] /\ loc' \in [Requests -> Locals] /\ PlaceInv'
      /\ UNCHANGED <<failClosed, begun, minute>>
  BY MovesFacts DEF Inv
<1>2. TypeOK'
  BY <1>1 DEF Inv, TypeOK, limits, counters
<1>3. CountersExpire'
  BY CountersKept DEF limits, counters
<1> QED BY <1>1, <1>2, <1>3 DEF Inv

\* The token was given to nobody before, and so did not end.
LEMMA StoreInv == ASSUME Inv, NEW r \in Requests, Store(r) PROVE Inv'
<1>1. PICK o \in Outcomes, t \in {u \in Tokens : store[u] = "none" /\ u \notin records} :
        /\ Execute(Proc(r), o)
        /\ records' = IF TookEffect(o) THEN records \cup {t} ELSE records
        /\ store' = CASE o = "answered" -> [store EXCEPT ![t] = "redis"]
                      [] o # "answered" /\ enabled /\ failClosed -> store
                      [] OTHER -> [store EXCEPT ![t] = "cookie"]
  BY Zenon DEF Store
<1>2. pc[r] = "store" /\ Done(r) /\ UNCHANGED <<limits, history>>
  BY DEF Store
<1>3. Proc(r) \in Procs /\ Moves(r)
  BY <1>2, DoneMoves DEF Inv, PlaceInv, Fits, Proc
<1>4. /\ HandleTypeOK' /\ BreakerInv' /\ enabled' = enabled /\ faults <= faults'
      /\ o = "answered" => enabled
  BY <1>1, <1>3, CommandFacts DEF Execute, Inv, TypeOK
<1>5. \/ o = "answered" /\ store' = [store EXCEPT ![t] = "redis"]
      \/ store' = store
      \/ store' = [store EXCEPT ![t] = "cookie"]
  <2>1. CASE o = "answered"
    BY <1>1, <2>1, Zenon
  <2>2. CASE o # "answered" /\ enabled /\ failClosed
    BY <1>1, <2>2, Zenon
  <2>3. CASE o # "answered" /\ ~(enabled /\ failClosed)
    BY <1>1, <2>3, Zenon
  <2> QED BY <2>1, <2>2, <2>3, Zenon
<1>6. store \in [Tokens -> {"none", "redis", "cookie", "expired"}] /\ records \subseteq Tokens
  BY DEF Inv, TypeOK
<1>7. /\ store' \in [Tokens -> {"none", "redis", "cookie", "expired"}]
      /\ records' \subseteq Tokens /\ records' \subseteq records \cup {t}
      /\ \A u \in Tokens : u # t => store'[u] = store[u]
      /\ store'[t] = "redis" => enabled
  BY <1>1, <1>4, <1>5, <1>6
<1>8. t \notin ended
  BY <1>1 DEF Inv, EndedInv
<1>9. EndedInv'
  BY <1>2, <1>4, <1>7, <1>8 DEF Inv, TypeOK, EndedInv, history
<1>10. EndedStaysEnded'
  <2>1. faults \in Nat /\ faults' \in Nat
    BY <1>4, RedisAssumption DEF Inv, TypeOK, HandleTypeOK
  <2> QED BY <1>2, <1>4, <2>1 DEF Inv, EndedStaysEnded, Done, Go, history
<1> QED BY <1>2, <1>3, <1>4, <1>7, <1>9, <1>10, SessionStep DEF Inv, TypeOK, history

\* A token that ended is accepted only when its record cannot be looked up.
LEMMA ResolveInv == ASSUME Inv, NEW r \in Requests, Resolve(r) PROVE Inv'
<1>1. PICK t : t = loc[r].tok
  OBVIOUS
<1> DEFINE Accepted(o) == CASE store[t] = "cookie" -> TRUE
                             [] store[t] = "redis" /\ o = "answered" -> t \in records
                             [] store[t] = "redis" /\ o # "answered" -> ~failClosed
                             [] OTHER -> FALSE
<1>2. PICK o \in Outcomes :
        /\ IF store[t] = "redis" THEN Execute(Proc(r), o) ELSE o = "unsent" /\ UNCHANGED redis
        /\ revived' = IF Accepted(o) /\ t \in ended THEN revived \cup {t} ELSE revived
        /\ CASE Op(r) = "logout" -> Go(r, "drop", loc[r])
             [] Op(r) = "page" -> Done(r)
             [] Op(r) = "admin" -> (Accepted(o) /\ Done(r)) \/ Go(r, "fail", loc[r])
  BY <1>1, Zenon DEF Resolve
<1>3. pc[r] = "resolve" /\ UNCHANGED <<limits, sessions, guesses, admitted, late, ended>>
  BY DEF Resolve
<1>4. /\ Fits("resolve", loc[r]) /\ loc[r] \in Locals /\ Proc(r) \in Procs /\ t \in Tokens
      /\ loc[r].op \in {"admin", "page", "logout"}
  BY <1>1, <1>3 DEF Inv, PlaceInv, TypeOK, Fits, Proc
<1>5. faults \in Nat /\ HandleTypeOK /\ BreakerInv
  BY RedisAssumption DEF Inv, TypeOK, HandleTypeOK
<1>6. /\ HandleTypeOK' /\ BreakerInv' /\ enabled' = enabled /\ faults <= faults'
      /\ faults' = 0 /\ store[t] = "redis" => o = "answered"
  <2>1. CASE store[t] = "redis"
    <3>1. /\ HandleTypeOK' /\ BreakerInv' /\ enabled' = enabled /\ faults <= faults'
          /\ faults' = 0 => o \in {"answered", "unsent"}
          /\ o = "unsent" => (enabled => faults > 0)
      BY <1>2, <1>4, <1>5, <2>1, CommandFacts DEF Execute
    <3>2. enabled
      BY <1>4, <2>1 DEF Inv, EndedInv
    <3> QED BY <1>5, <3>1, <3>2
  <2>2. CASE store[t] # "redis"
    BY <1>2, <1>5, <2>2 DEF redis, HandleTypeOK, BreakerInv
  <2> QED BY <2>1, <2>2
<1>7. Moves(r)
  <2>2. CASE loc[r].op = "logout"
    <3>1. Go(r, "drop", loc[r])
      BY <1>2, <2>2, Zenon DEF Op
    <3> QED BY <1>4, <2>2, <3>1 DEF Moves, Fits, Points
  <2>3. CASE loc[r].op = "page"
    <3>1. loc[r].op # "logout" /\ loc[r].op # "admin"
      BY <2>3
    <3>2. Done(r)
      BY <1>2, <2>3, <3>1, Zenon DEF Op
    <3> QED BY <3>2, DoneMoves
  <2>4. CASE loc[r].op = "admin"
    <3>1. loc[r].op # "logout" /\ loc[r].op # "page"
      BY <2>4
    <3>2. (Accepted(o) /\ Done(r)) \/ Go(r, "fail", loc[r])
      BY <1>2, <2>4, <3>1, Zenon DEF Op
    <3> QED BY <1>4, <2>4, <3>2, DoneMoves DEF Moves, Fits, Points, Scopes
  <2> QED BY <1>4, <2>2, <2>3, <2>4
<1>8. failClosed' = failClosed
  BY <1>7, MovesFacts DEF Inv
<1>9. Accepted(o) /\ t \in ended => ~failClosed /\ faults' > 0
  <2>1. SUFFICES ASSUME Accepted(o), t \in ended PROVE ~failClosed /\ faults' > 0
    OBVIOUS
  <2>2. t \notin records /\ store[t] \in {"redis", "expired"}
    BY <2>1 DEF Inv, EndedInv
  <2>3. store[t] # "cookie"
    BY <2>2
  <2>4. store[t] = "redis"
    <3>1. SUFFICES ASSUME store[t] # "redis" PROVE FALSE
      OBVIOUS
    <3>2. Accepted(o) = FALSE
      BY <1>2, <2>3, <3>1, Zenon
    <3> QED BY <2>1, <3>2
  <2>5. o # "answered"
    <3>1. SUFFICES ASSUME o = "answered" PROVE FALSE
      OBVIOUS
    <3>2. Accepted(o) = (t \in records)
      BY <1>2, <2>3, <2>4, <3>1, Zenon
    <3> QED BY <2>1, <2>2, <3>2
  <2>6. Accepted(o) = ~failClosed
    BY <1>2, <2>3, <2>4, <2>5, Zenon
  <2>7. faults' \in Nat
    BY <1>6, RedisAssumption DEF HandleTypeOK
  <2>8. ~failClosed
    BY <2>1, <2>6, Zenon
  <2>9. faults' > 0
    BY <1>6, <2>4, <2>5, <2>7
  <2> QED BY <2>8, <2>9
<1>10. revived' \subseteq Tokens
  BY <1>2, <1>4 DEF Inv, TypeOK
<1>11. EndedInv'
  BY <1>3, <1>6 DEF Inv, EndedInv, sessions
<1>12. EndedStaysEnded'
  <2>1. faults' \in Nat
    BY <1>6, RedisAssumption DEF HandleTypeOK
  <2> QED BY <1>2, <1>5, <1>6, <1>8, <1>9, <2>1 DEF Inv, EndedStaysEnded
<1> QED BY <1>3, <1>6, <1>7, <1>10, <1>11, <1>12, SessionStep DEF Inv, TypeOK, sessions

LEMMA DropInv == ASSUME Inv, NEW r \in Requests, Drop(r) PROVE Inv'
<1>1. PICK t : t = loc[r].tok
  OBVIOUS
<1>2. PICK o \in Outcomes :
        /\ IF store[t] = "redis" THEN Execute(Proc(r), o) ELSE o = "unsent" /\ UNCHANGED redis
        /\ records' = IF TookEffect(o) THEN records \ {t} ELSE records
        /\ ended' = IF TookEffect(o) THEN ended \cup {t} ELSE ended
  BY <1>1 DEF Drop
<1>3. pc[r] = "drop" /\ Done(r) /\ UNCHANGED <<store, limits, guesses, admitted, late, revived>>
  BY DEF Drop
<1>4. Proc(r) \in Procs /\ t \in Tokens
  BY <1>1, <1>3 DEF Inv, PlaceInv, Fits, Proc
<1>5. faults \in Nat /\ HandleTypeOK /\ BreakerInv
  BY RedisAssumption DEF Inv, TypeOK, HandleTypeOK
<1>6. HandleTypeOK' /\ BreakerInv' /\ enabled' = enabled /\ faults <= faults'
  <2>1. CASE store[t] = "redis"
    BY <1>2, <1>4, <1>5, <2>1, CommandFacts DEF Execute
  <2>2. CASE store[t] # "redis"
    BY <1>2, <1>5, <2>2 DEF redis, HandleTypeOK, BreakerInv
  <2> QED BY <2>1, <2>2
<1>7. TookEffect(o) => store[t] = "redis"
  BY <1>2 DEF TookEffect
<1>8. EndedInv'
  BY <1>2, <1>3, <1>6, <1>7 DEF Inv, EndedInv
<1>9. EndedStaysEnded'
  <2>1. faults' \in Nat /\ failClosed' = failClosed
    BY <1>3, <1>6, RedisAssumption DEF HandleTypeOK, Done, Go
  <2> QED BY <1>3, <1>5, <1>6, <2>1 DEF Inv, EndedStaysEnded
<1>10. /\ records' \subseteq Tokens /\ ended' \subseteq Tokens /\ revived' \subseteq Tokens
       /\ store' \in [Tokens -> {"none", "redis", "cookie", "expired"}]
  BY <1>2, <1>3, <1>4 DEF Inv, TypeOK
<1>11. Moves(r)
  BY <1>3, DoneMoves
<1> QED BY <1>3, <1>6, <1>8, <1>9, <1>10, <1>11, SessionStep


-----------------------------------------------------------------------------
(* Arrivals, time and crashes.                                             *)

LEMMA ArriveInv == ASSUME Inv, NEW r \in Requests, Arrive(r) PROVE Inv'
<1>0. PICK op \in Ops, p \in Procs, t \in Tokens \cup {NoToken} :
        /\ IF op \in {"admin", "page", "logout"} THEN t # NoToken /\ store[t] # "none" ELSE t = NoToken
        /\ pc' = [pc EXCEPT ![r] = CASE op \in Scopes -> "lock" [] op = "register" -> "count" [] OTHER -> "resolve"]
        /\ loc' = [loc EXCEPT ![r] = [Blank EXCEPT !.op = op, !.proc = p, !.tok = t, !.min = IF op = "register" THEN minute ELSE 0]]
  BY Zenon DEF Arrive
<1> DEFINE q == CASE op \in Scopes -> "lock" [] op = "register" -> "count" [] OTHER -> "resolve"
<1>1. /\ IF op \in {"admin", "page", "logout"} THEN t # NoToken /\ store[t] # "none" ELSE t = NoToken
      /\ pc' = [pc EXCEPT ![r] = q]
      /\ loc' = [loc EXCEPT ![r] = [Blank EXCEPT !.op = op, !.proc = p, !.tok = t, !.min = IF op = "register" THEN minute ELSE 0]]
  BY <1>0, Zenon
<1>2. /\ begun < MaxBegun /\ begun' = begun + 1
      /\ pc[r] = "idle" /\ UNCHANGED <<redis, failClosed, minute, limits, sessions, history>>
  BY DEF Arrive
<1>3. PICK l : l = [Blank EXCEPT !.op = op, !.proc = p, !.tok = t, !.min = IF op = "register" THEN minute ELSE 0]
  OBVIOUS
<1>4. /\ l \in Locals /\ l.op = op /\ l.proc = p /\ l.tok = t
      /\ op \in {"login", "register", "apiKey", "admin", "page", "logout"}
  BY <1>3, BlankType, SignInAssumption DEF Locals, Blank, Inv, TypeOK
<1>5. op \in {"admin", "page", "logout"} => t \in Tokens
  BY <1>1
<1>6. q \in Points /\ Fits(q, l)
  <2>1. CASE op \in Scopes
    <3>1. op # "register"
      BY <2>1 DEF Scopes
    <3>2. q = "lock"
      BY <2>1, <3>1, Zenon
    <3> QED BY <1>4, <1>5, <2>1, <3>2 DEF Fits, Points
  <2>2. CASE op = "register"
    <3>1. op \notin Scopes
      BY <2>2 DEF Scopes
    <3>2. q = "count"
      BY <2>2, <3>1, Zenon
    <3> QED BY <1>4, <2>2, <3>2 DEF Fits, Points, Metered
  <2>3. CASE op \in {"page", "logout"}
    <3>1. op \notin Scopes /\ op # "register"
      BY <2>3 DEF Scopes
    <3>2. q = "resolve"
      BY <3>1, Zenon
    <3> QED BY <1>4, <1>5, <2>3, <3>2 DEF Fits, Points
  <2> QED BY <1>4, <2>1, <2>2, <2>3 DEF Scopes
<1> HIDE DEF q
<1>7. /\ pc' \in [Requests -> Points] /\ loc' \in [Requests -> Locals] /\ begun' \in 0 .. MaxBegun
      /\ \A s \in Requests : s # r => pc'[s] = pc[s] /\ loc'[s] = loc[s]
      /\ pc'[r] = q /\ loc'[r] = l
  BY <1>1, <1>2, <1>3, <1>4, <1>6, SignInAssumption DEF Inv, TypeOK
<1>8. PlaceInv'
  <2> SUFFICES ASSUME NEW s \in Requests PROVE Fits(pc'[s], loc'[s])
    BY DEF PlaceInv
  <2>1. CASE s = r
    BY <1>6, <1>7, <2>1
  <2>2. CASE s # r
    <3>1. pc'[s] = pc[s] /\ loc'[s] = loc[s]
      BY <1>7, <2>2
    <3> QED BY <3>1 DEF Inv, PlaceInv
  <2> QED BY <2>1, <2>2
<1>9. TypeOK'
  BY <1>2, <1>7 DEF Inv, TypeOK, HandleTypeOK, redis, limits, counters, sessions, history
<1>10. CountersExpire'
  <2>1. ASSUME NEW s \in Requests, pc[s] = "expireFails"
        PROVE  pc'[s] = "expireFails" /\ loc'[s] = loc[s]
    BY <1>2, <1>7, <2>1
  <2> QED BY <1>2, <2>1 DEF Inv, CountersExpire, Op, redis, limits, counters
<1> QED BY <1>2, <1>8, <1>9, <1>10
        DEF Inv, BreakerInv, EndedInv, EndedStaysEnded, redis, sessions, history

\* Redis forgets a counter or a lock, a process's memory part of its own.
LEMMA TimeStep ==
  ASSUME Inv, UNCHANGED redis, Passing, minute' \in 0 .. MaxMinute,
         fails' \in [Scopes -> Counts], \A s \in Scopes : fails'[s] = fails[s] \/ fails'[s] = NoCount,
         locks' \subseteq Scopes, reqs' \in [Metered -> Nat], mem' \in [Procs -> Memory],
         guesses' \in Nat, admitted' \in [Metered -> Nat], late' \in Nat
  PROVE  Inv'
<1>1. TypeOK'
  BY DEF Inv, TypeOK, HandleTypeOK, Passing, redis, sessions, Memory, Counts
<1>2. CountersExpire'
  <2>1. SUFFICES ASSUME faults' = 0, NEW s \in Scopes, fails'[s].n > 0
                 PROVE  fails'[s].ttl \/ \E q \in Requests : pc'[q] = "expireFails" /\ loc'[q].op = s
    BY DEF CountersExpire, Op
  <2>2. fails'[s] = fails[s]
    BY <2>1 DEF NoCount
  <2> QED BY <2>1, <2>2 DEF Inv, CountersExpire, Op, redis, Passing
<1> QED BY <1>1, <1>2
        DEF Inv, PlaceInv, BreakerInv, EndedInv, EndedStaysEnded, redis, Passing, sessions

LEMMA FailWindowInv == ASSUME Inv, NEW s \in Scopes, FailWindow(s) PROVE Inv'
<1>1. /\ fails' \in [Scopes -> Counts]
      /\ \A v \in Scopes : fails'[v] = fails[v] \/ fails'[v] = NoCount
  BY DEF FailWindow, Inv, TypeOK, Counts, NoCount
<1> QED BY <1>1, TimeStep DEF FailWindow, Inv, TypeOK, Memory

LEMMA LockEndsInv == ASSUME Inv, NEW s \in Scopes, LockEnds(s) PROVE Inv'
BY TimeStep DEF LockEnds, Inv, TypeOK, Memory, Counts

LEMMA MemAgeInv == ASSUME Inv, NEW p \in Procs, NEW s \in Scopes, MemAge(p, s) PROVE Inv'
<1>1. mem[p] \in Memory /\ mem \in [Procs -> Memory]
  BY DEF Inv, TypeOK, Memory
<1>2. PICK n \in Nat : n = mem[p].fails[s] - 1
  BY <1>1 DEF MemAge, Memory
<1>3. [mem[p] EXCEPT !.fails = [mem[p].fails EXCEPT ![s] = n]] \in Memory
  BY <1>1 DEF Memory
<1>4. mem' = [mem EXCEPT ![p] = [mem[p] EXCEPT !.fails = [mem[p].fails EXCEPT ![s] = n]]]
  BY <1>2 DEF MemAge
<1>5. mem' \in [Procs -> Memory]
  BY <1>1, <1>3, <1>4
<1> QED BY <1>5, TimeStep DEF MemAge, Inv, TypeOK, Counts, counters

LEMMA MemLockEndsInv == ASSUME Inv, NEW p \in Procs, NEW s \in Scopes, MemLockEnds(p, s) PROVE Inv'
<1>1. mem[p] \in Memory /\ mem \in [Procs -> Memory]
  BY DEF Inv, TypeOK, Memory
<1>2. mem' = [mem EXCEPT ![p] = [mem[p] EXCEPT !.locks = mem[p].locks \ {s}]]
  BY DEF MemLockEnds
<1>3. [mem[p] EXCEPT !.locks = mem[p].locks \ {s}] \in Memory
  BY <1>1 DEF Memory
<1>4. mem' \in [Procs -> Memory]
  BY <1>1, <1>2, <1>3
<1> QED BY <1>4, TimeStep DEF MemLockEnds, Inv, TypeOK, Counts, counters

LEMMA NextMinuteInv == ASSUME Inv, NextMinute PROVE Inv'
<1>1. mem \in [Procs -> Memory]
  BY DEF Inv, TypeOK, Memory
<1>2. PICK z : z = [c \in Metered |-> 0]
  OBVIOUS
<1>3. z \in [Metered -> Nat]
  BY <1>2
<1> DEFINE aged(p) == [mem[p] EXCEPT !.reqs = [c \in Metered |->
                         [old |-> mem[p].reqs[c].old + mem[p].reqs[c].new, new |-> 0]]]
<1>4. \A p \in Procs : aged(p) \in Memory
  <2> TAKE p \in Procs
  <2>1. mem[p] \in Memory /\ \A c \in Metered : mem[p].reqs[c].old \in Nat /\ mem[p].reqs[c].new \in Nat
    BY <1>1 DEF Memory, Window
  <2>2. \A c \in Metered : [old |-> mem[p].reqs[c].old + mem[p].reqs[c].new, new |-> 0] \in Window
    BY <2>1 DEF Window
  <2> QED BY <2>1, <2>2 DEF Memory
<1>5. mem' = [p \in Procs |-> aged(p)] /\ reqs' = z /\ admitted' = z /\ late' = 0
  BY <1>2 DEF NextMinute
<1> HIDE DEF aged
<1>6. mem' \in [Procs -> Memory]
  BY <1>4, <1>5
<1>7. minute' \in 0 .. MaxMinute
  BY SignInAssumption DEF NextMinute, Inv, TypeOK
<1>8. UNCHANGED <<redis, fails, locks, guesses>> /\ Passing
  BY DEF NextMinute
<1>9. /\ fails' \in [Scopes -> Counts] /\ locks' \subseteq Scopes /\ guesses' \in Nat
      /\ admitted' \in [Metered -> Nat] /\ late' \in Nat /\ reqs' \in [Metered -> Nat]
  BY <1>3, <1>5, <1>8 DEF Inv, TypeOK, Counts
<1> QED BY <1>6, <1>7, <1>8, <1>9, TimeStep

LEMMA SessionExpiresInv == ASSUME Inv, NEW t \in Tokens, SessionExpires(t) PROVE Inv'
<1>1. PICK s \in {"redis", "expired"} : store' = [store EXCEPT ![t] = s]
  BY DEF SessionExpires
<1>2. /\ store[t] = "redis" /\ records' = records \ {t} /\ ended' = ended \cup {t}
      /\ UNCHANGED <<redis, failClosed, limits, pc, loc, begun, minute, guesses, admitted, late, revived>>
  BY DEF SessionExpires
<1>3. store \in [Tokens -> {"none", "redis", "cookie", "expired"}]
  BY DEF Inv, TypeOK
<1>4. /\ store' \in [Tokens -> {"none", "redis", "cookie", "expired"}] /\ store'[t] = s
      /\ \A u \in Tokens : u # t => store'[u] = store[u]
  BY <1>1, <1>3
<1>5. TypeOK'
  BY <1>2, <1>4 DEF Inv, TypeOK, HandleTypeOK, redis, limits, counters
<1>6. EndedInv'
  <2>1. enabled' = enabled /\ enabled
    BY <1>2 DEF Inv, EndedInv, redis
  <2>2. \A u \in Tokens : u # t /\ u \in ended => u \notin records' /\ store'[u] \in {"redis", "expired"}
    BY <1>2, <1>4 DEF Inv, EndedInv
  <2>3. t \notin records' /\ store'[t] \in {"redis", "expired"} /\ ended \subseteq Tokens
    BY <1>2, <1>4 DEF Inv, TypeOK
  <2> QED BY <1>2, <2>1, <2>2, <2>3 DEF EndedInv
<1>7. PlaceInv' /\ BreakerInv' /\ EndedStaysEnded'
  BY <1>2 DEF Inv, PlaceInv, BreakerInv, EndedStaysEnded, redis
<1>8. CountersExpire'
  BY <1>2 DEF Inv, CountersExpire, Op, redis, limits, counters
<1> QED BY <1>5, <1>6, <1>7, <1>8 DEF Inv

LEMMA BreakerClosesInv == ASSUME Inv, NEW p \in Procs, BreakerCloses(p) PROVE Inv'
<1>1. /\ blocked' = [blocked EXCEPT ![p] = FALSE] /\ UNCHANGED <<enabled, faults>>
      /\ UNCHANGED <<failClosed, limits, sessions, pc, loc, begun, minute, history>>
  BY DEF BreakerCloses, Cooldown
<1>2. TypeOK' /\ BreakerInv'
  BY <1>1 DEF Inv, TypeOK, HandleTypeOK, BreakerInv, limits, counters, sessions, history
<1> QED BY <1>1, <1>2 DEF Inv, PlaceInv, EndedInv, CountersExpire, EndedStaysEnded, Op,
          limits, counters, sessions, history

LEMMA CrashInv == ASSUME Inv, NEW p \in Procs, Crash(p) PROVE Inv'
<1>1. /\ faults < MaxFaults /\ faults' = faults + 1 /\ enabled' = enabled
      /\ blocked' = [blocked EXCEPT ![p] = FALSE]
      /\ UNCHANGED <<failClosed, counters, sessions, begun, minute, ended, revived>>
  BY DEF Crash, Restart
<1>2. faults \in 0 .. MaxFaults /\ MaxFaults \in Nat
  BY RedisAssumption DEF Inv, TypeOK, HandleTypeOK
<1>3. HandleTypeOK' /\ BreakerInv'
  BY <1>1, <1>2 DEF Inv, TypeOK, HandleTypeOK, BreakerInv
<1>4. mem' \in [Procs -> Memory]
  <2>1. Forgotten \in Memory
    BY DEF Forgotten, Memory, NoneYet, Window
  <2> QED BY <2>1 DEF Crash, Inv, TypeOK, Memory
<1>5. /\ pc' = [r \in Requests |-> IF Proc(r) = p THEN "idle" ELSE pc[r]]
      /\ loc' = [r \in Requests |-> IF Proc(r) = p THEN Blank ELSE loc[r]]
  BY DEF Crash
<1>6. pc' \in [Requests -> Points] /\ loc' \in [Requests -> Locals]
  BY <1>5, BlankType DEF Inv, TypeOK, Points
<1>7. PlaceInv'
  <2> SUFFICES ASSUME NEW r \in Requests PROVE Fits(pc'[r], loc'[r])
    BY DEF PlaceInv
  <2>1. pc'[r] = "idle" \/ (pc'[r] = pc[r] /\ loc'[r] = loc[r])
    BY <1>5
  <2>2. Fits(pc[r], loc[r])
    BY DEF Inv, PlaceInv
  <2>3. CASE pc'[r] = "idle"
    BY <2>3 DEF Fits
  <2>4. CASE pc'[r] = pc[r] /\ loc'[r] = loc[r]
    BY <2>2, <2>4
  <2> QED BY <2>1, <2>3, <2>4
<1>8. guesses' \in Nat /\ admitted' \in [Metered -> Nat] /\ late' \in Nat
  BY DEF Crash
<1>9. TypeOK'
  BY <1>1, <1>3, <1>4, <1>6, <1>8 DEF Inv, TypeOK, counters, sessions, Memory
<1>10. faults' # 0 /\ faults' > 0
  BY <1>1, <1>2
<1> QED BY <1>1, <1>3, <1>7, <1>9, <1>10
        DEF Inv, EndedInv, CountersExpire, EndedStaysEnded, sessions

-----------------------------------------------------------------------------
(* The theorems.                                                           *)

LEMMA InitInv == Init => Inv
<1> SUFFICES ASSUME Init PROVE Inv
  OBVIOUS
<1>1. Forgotten \in Memory
  BY DEF Forgotten, Memory, NoneYet, Window
<1>2. TypeOK
  BY <1>1, BlankType, RedisAssumption, SignInAssumption
     DEF Init, HandleInit, TypeOK, HandleTypeOK, NoCount, Memory, Points
<1>3. PlaceInv /\ BreakerInv /\ EndedInv /\ CountersExpire /\ EndedStaysEnded
  BY <1>2 DEF Init, HandleInit, PlaceInv, Fits, Blank, BreakerInv, EndedInv, CountersExpire,
     EndedStaysEnded, NoCount
<1> QED BY <1>2, <1>3 DEF Inv

LEMMA StepInv == Inv /\ [Next]_vars => Inv'
<1> SUFFICES ASSUME Inv, [Next]_vars PROVE Inv'
  OBVIOUS
<1>1. CASE \E r \in Requests : Arrive(r) \/ Limiting(r) \/ Session(r)
  BY <1>1, ArriveInv, CheckLockInv, CountInv, BumpInv, ExpireCountInv, MemCountInv, MemFailureInv, VerifyInv, FailInv,
     ExpireFailsInv, SetLockInv, ClearFailsInv, ClearLockInv, StoreInv, ResolveInv, DropInv
     DEF Limiting, Session
<1>2. CASE \E s \in Scopes : FailWindow(s) \/ LockEnds(s)
  BY <1>2, FailWindowInv, LockEndsInv
<1>3. CASE \E p \in Procs, s \in Scopes : MemAge(p, s) \/ MemLockEnds(p, s)
  BY <1>3, MemAgeInv, MemLockEndsInv
<1>4. CASE \E t \in Tokens : SessionExpires(t)
  BY <1>4, SessionExpiresInv
<1>5. CASE \E p \in Procs : BreakerCloses(p) \/ Crash(p)
  BY <1>5, BreakerClosesInv, CrashInv
<1>6. CASE NextMinute
  BY <1>6, NextMinuteInv
<1>7. CASE UNCHANGED vars
  BY <1>7 DEF vars, redis, limits, counters, sessions, history, Inv, TypeOK, HandleTypeOK, PlaceInv,
     BreakerInv, EndedInv, CountersExpire, EndedStaysEnded, Op
<1> QED BY <1>1, <1>2, <1>3, <1>4, <1>5, <1>6, <1>7 DEF Next

LEMMA Invariance == Spec => []Inv
BY InitInv, StepInv, PTL DEF Spec

\* The counters, locks, records and requests keep their shape.
THEOREM TypeCorrect == Spec => []TypeOK
<1>1. Inv => TypeOK
  BY DEF Inv
<1> QED BY <1>1, Invariance, PTL

\* As long as nothing fails, whichever of several overlapping failures and
\* successes created a failure counter sets its expiry.
THEOREM WindowsClose == Spec => []CountersExpire
<1>1. Inv => CountersExpire
  BY DEF Inv
<1> QED BY <1>1, Invariance, PTL

\* A session that was logged out or expired is accepted again only by a
\* deployment that fails open, after a fault.
THEOREM LogoutHolds == Spec => []EndedStaysEnded
<1>1. Inv => EndedStaysEnded
  BY DEF Inv
<1> QED BY <1>1, Invariance, PTL

-----------------------------------------------------------------------------
(* Counting.                                                               *)

\* Two subsets that differ in one element at most.
LEMMA CountOne ==
  ASSUME NEW S, IsFiniteSet(S), NEW A \in SUBSET S, NEW B \in SUBSET S, NEW x,
         \A y \in S : y # x => (y \in A <=> y \in B)
  PROVE  /\ IsFiniteSet(A) /\ IsFiniteSet(B)
         /\ Cardinality(A) \in Nat /\ Cardinality(B) \in Nat
         /\ Cardinality(B) + (IF x \in A THEN 1 ELSE 0) = Cardinality(A) + (IF x \in B THEN 1 ELSE 0)
<1>1. IsFiniteSet(A) /\ IsFiniteSet(B)
  BY FS_Subset
<1>2. Cardinality(A) \in Nat /\ Cardinality(B) \in Nat
  BY <1>1, FS_CardinalityType
<1>3. A \ {x} = B \ {x}
  OBVIOUS
<1>4. Cardinality(A \ {x}) = IF x \in A THEN Cardinality(A) - 1 ELSE Cardinality(A)
  BY <1>1, FS_RemoveElement
<1>5. Cardinality(B \ {x}) = IF x \in B THEN Cardinality(B) - 1 ELSE Cardinality(B)
  BY <1>1, FS_RemoveElement
<1> QED BY <1>1, <1>2, <1>3, <1>4, <1>5

\* A subset counts no more than the whole.
LEMMA CountPart ==
  ASSUME NEW S, IsFiniteSet(S), NEW A \in SUBSET S
  PROVE  IsFiniteSet(A) /\ Cardinality(A) \in Nat /\ Cardinality(S) \in Nat
         /\ Cardinality(A) <= Cardinality(S)
BY FS_Subset, FS_CardinalityType

\* Two subsets without a common element count no more than the whole.
LEMMA CountApart ==
  ASSUME NEW S, IsFiniteSet(S), NEW A \in SUBSET S, NEW B \in SUBSET S, A \cap B = {}
  PROVE  /\ Cardinality(A) \in Nat /\ Cardinality(B) \in Nat /\ Cardinality(S) \in Nat
         /\ Cardinality(A) + Cardinality(B) <= Cardinality(S)
<1>1. /\ IsFiniteSet(A) /\ IsFiniteSet(B)
      /\ Cardinality(A) \in Nat /\ Cardinality(B) \in Nat /\ Cardinality(S) \in Nat
  BY CountPart
<1>2. Cardinality(A \cup B) = Cardinality(A) + Cardinality(B) - Cardinality(A \cap B)
  BY <1>1, FS_Union
<1>3. Cardinality(A \cap B) = 0
  BY FS_EmptySet
<1>4. Cardinality(A \cup B) <= Cardinality(S)
  <2>1. A \cup B \in SUBSET S
    OBVIOUS
  <2> QED BY <2>1, FS_Subset
<1> QED BY <1>1, <1>2, <1>3, <1>4

\* What each member of S has of k, one by one: the pairs under a graph.
Under(S, k, f) == {x \in S \X (1 .. k) : x[2] <= f[x[1]]}

LEMMA UnderCount ==
  ASSUME NEW S, IsFiniteSet(S), NEW k \in Nat, NEW f
  PROVE  /\ IsFiniteSet(S \X (1 .. k)) /\ IsFiniteSet(Under(S, k, f))
         /\ Cardinality(S) \in Nat
         /\ Cardinality(Under(S, k, f)) \in Nat
         /\ Cardinality(Under(S, k, f)) <= Cardinality(S) * k
<1>1. IsFiniteSet(1 .. k) /\ Cardinality(1 .. k) = k
  BY FS_Interval
<1>2. IsFiniteSet(S \X (1 .. k)) /\ Cardinality(S \X (1 .. k)) = Cardinality(S) * k
  BY <1>1, FS_Product
<1>3. Under(S, k, f) \in SUBSET (S \X (1 .. k))
  BY DEF Under
<1>4. /\ IsFiniteSet(Under(S, k, f)) /\ Cardinality(Under(S, k, f)) \in Nat
      /\ Cardinality(Under(S, k, f)) <= Cardinality(S \X (1 .. k))
  BY <1>2, <1>3, CountPart
<1> QED BY <1>2, <1>4, FS_CardinalityType

\* One more of one member.
LEMMA UnderOneMore ==
  ASSUME NEW S, IsFiniteSet(S), NEW k \in Nat, NEW f \in [S -> Nat], NEW g \in [S -> Nat],
         NEW p \in S, g[p] = f[p] + 1, \A q \in S : q # p => g[q] = f[q]
  PROVE  Cardinality(Under(S, k, g)) = Cardinality(Under(S, k, f)) + (IF f[p] < k THEN 1 ELSE 0)
<1>1. CASE f[p] < k
  <2>1. <<p, f[p] + 1>> \in S \X (1 .. k) /\ <<p, f[p] + 1>> \notin Under(S, k, f)
    BY <1>1 DEF Under
  <2>2. Under(S, k, g) = Under(S, k, f) \cup {<<p, f[p] + 1>>}
    <3>1. ASSUME NEW q \in S, NEW i \in 1 .. k
          PROVE  <<q, i>> \in Under(S, k, g) <=> <<q, i>> \in Under(S, k, f) \/ <<q, i>> = <<p, f[p] + 1>>
      <4>1. <<q, i>> \in S \X (1 .. k) /\ <<q, i>>[1] = q /\ <<q, i>>[2] = i
        OBVIOUS
      <4>2. <<q, i>> \in Under(S, k, g) <=> i <= g[q]
        BY <4>1 DEF Under
      <4>3. <<q, i>> \in Under(S, k, f) <=> i <= f[q]
        BY <4>1 DEF Under
      <4>4. CASE q = p
        BY <4>2, <4>3, <4>4
      <4>5. CASE q # p
        BY <4>2, <4>3, <4>5
      <4> QED BY <4>4, <4>5
    <3>2. Under(S, k, g) \subseteq S \X (1 .. k) /\ Under(S, k, f) \subseteq S \X (1 .. k)
      BY DEF Under
    <3>3. \A x \in S \X (1 .. k) : x \in Under(S, k, g) <=> x \in Under(S, k, f) \cup {<<p, f[p] + 1>>}
      BY <3>1
    <3> QED BY <2>1, <3>2, <3>3
  <2> QED BY <1>1, <2>1, <2>2, UnderCount, FS_AddElement
<1>2. CASE ~(f[p] < k)
  <2>1. ASSUME NEW x \in S \X (1 .. k) PROVE x[2] <= g[x[1]] <=> x[2] <= f[x[1]]
    <3>1. x[1] \in S /\ x[2] \in 1 .. k
      BY <2>1
    <3>2. CASE x[1] = p
      BY <1>2, <3>1, <3>2
    <3>3. CASE x[1] # p
      BY <3>1, <3>3
    <3> QED BY <3>2, <3>3
  <2>2. Under(S, k, g) = Under(S, k, f)
    BY <2>1 DEF Under
  <2>3. Cardinality(Under(S, k, f)) \in Nat
    BY UnderCount
  <2> QED BY <1>2, <2>2, <2>3
<1> QED BY <1>1, <1>2

\* Nobody has less.
LEMMA UnderMore ==
  ASSUME NEW S, IsFiniteSet(S), NEW k \in Nat, NEW f \in [S -> Nat], NEW g \in [S -> Nat],
         \A q \in S : f[q] <= g[q]
  PROVE  Cardinality(Under(S, k, f)) <= Cardinality(Under(S, k, g))
<1>1. Under(S, k, f) \in SUBSET Under(S, k, g)
  <2>1. ASSUME NEW x \in S \X (1 .. k), x[2] <= f[x[1]] PROVE x[2] <= g[x[1]]
    <3>1. x[1] \in S /\ x[2] \in Nat
      BY <2>1
    <3>2. f[x[1]] <= g[x[1]] /\ f[x[1]] \in Nat /\ g[x[1]] \in Nat
      BY <3>1
    <3> QED BY <2>1, <3>1, <3>2
  <2> QED BY <2>1 DEF Under
<1> QED BY <1>1, UnderCount, FS_Subset

-----------------------------------------------------------------------------
(* Without Redis nothing is kept there, and nobody is on the way to it.    *)

OffPlace(q, l) ==
  /\ q \notin {"bump", "expireCount", "expireFails", "setLock", "clearLock"}
  /\ q = "count" => l.op = "register"

OffInv ==
  ~enabled =>
    /\ locks = {} /\ fails = [s \in Scopes |-> NoCount] /\ reqs = [c \in Metered |-> 0]
    /\ \A p \in Procs : ~blocked[p]
    /\ \A r \in Requests : OffPlace(pc[r], loc[r])

\* Until the first fault nothing is kept in a process's memory, nor about to be.
CalmInv ==
  enabled /\ faults = 0 =>
    /\ \A p \in Procs : mem[p] = Forgotten
    /\ \A r \in Requests : pc[r] \notin {"memory", "memFail"}

\* The processes whose breaker is open.
Open == {p \in Procs : blocked[p]}

OpenInv == Cardinality(Open) <= faults

\* The breakers during a step: they close, or a fault opens one of them.
HandleStep ==
  /\ enabled' = enabled
  /\ \/ faults' = faults /\ \A p \in Procs : blocked'[p] => blocked[p]
     \/ faults' = faults + 1 /\ \E p \in Procs : \A q \in Procs : q # p => blocked'[q] = blocked[q]

LEMMA CommandHandle ==
  ASSUME Inv, NEW p \in Procs, NEW first \in BOOLEAN, NEW last \in BOOLEAN,
         NEW guarded \in BOOLEAN, NEW o, Command(p, first, last, guarded, o)
  PROVE  /\ HandleStep
         /\ o \in {"answered", "unsent"} => faults' = faults
         /\ o \in {"lost", "failed"} => faults' = faults + 1
         /\ o = "unsent" => first /\ ~Available(p)
         /\ first /\ o # "unsent" => Available(p)
         /\ guarded /\ o \in {"lost", "failed"} => blocked'[p]
<1>1. /\ o \in Outcomes /\ enabled' = enabled
      /\ o = "unsent" => first /\ ~Available(p)
      /\ first /\ o # "unsent" => Available(p)
      /\ faults' = IF o \in {"lost", "failed"} THEN faults + 1 ELSE faults
  BY DEF Command, Outcomes
<1>2. PICK b \in BOOLEAN : /\ b = ((blocked[p] \/ (guarded /\ o \in {"lost", "failed"}))
                                    /\ ~(guarded /\ last /\ o = "answered"))
                           /\ blocked' = [blocked EXCEPT ![p] = b]
  BY DEF Command
<1>3. blocked'[p] = b /\ \A q \in Procs : q # p => blocked'[q] = blocked[q]
  BY <1>2 DEF Inv, TypeOK, HandleTypeOK
<1>4. o \notin {"lost", "failed"} => \A q \in Procs : blocked'[q] => blocked[q]
  BY <1>2, <1>3
<1>5. guarded /\ o \in {"lost", "failed"} => b
  BY <1>2
<1> QED BY <1>1, <1>3, <1>4, <1>5 DEF HandleStep, Outcomes

LEMMA SameHandle == ASSUME UNCHANGED redis PROVE HandleStep
BY DEF HandleStep, redis

LEMMA LimitingHandle == ASSUME Inv, NEW r \in Requests, Limiting(r) PROVE HandleStep
<1>1. Proc(r) \in Procs
  BY DEF Limiting, CheckLock, Count, Bump, ExpireCount, MemCount, MemFailure, Verify, Fail, ExpireFails,
     SetLock, ClearFails, ClearLock, Inv, PlaceInv, Fits, Proc
<1>2. \/ UNCHANGED redis
      \/ \E first \in BOOLEAN, last \in BOOLEAN, guarded \in BOOLEAN, o \in Outcomes :
           Command(Proc(r), first, last, guarded, o)
  <2>1. CASE CheckLock(r)
    BY <2>1 DEF CheckLock
  <2>2. CASE Count(r)
    BY <2>2 DEF Count
  <2>3. CASE Bump(r)
    BY <2>3 DEF Bump
  <2>4. CASE ExpireCount(r)
    BY <2>4 DEF ExpireCount
  <2>5. CASE Verify(r) \/ MemCount(r) \/ MemFailure(r)
    BY <2>5 DEF Verify, MemCount, MemFailure
  <2>6. CASE Fail(r)
    BY <2>6 DEF Fail
  <2>7. CASE ExpireFails(r)
    <3>1. (loc[r].n < Threshold) \in BOOLEAN
      BY SignInAssumption DEF Inv, TypeOK, Locals
    <3>2. \E o \in Outcomes : Command(Proc(r), FALSE, loc[r].n < Threshold, TRUE, o)
      BY <2>7 DEF ExpireFails
    <3> QED BY <3>1, <3>2
  <2>8. CASE SetLock(r)
    BY <2>8 DEF SetLock
  <2>9. CASE ClearFails(r) \/ ClearLock(r)
    BY <2>9 DEF ClearFails, ClearLock
  <2> QED BY <2>1, <2>2, <2>3, <2>4, <2>5, <2>6, <2>7, <2>8, <2>9 DEF Limiting
<1> QED BY <1>1, <1>2, CommandHandle, SameHandle

LEMMA SessionHandle == ASSUME Inv, NEW r \in Requests, Session(r) PROVE HandleStep
<1>1. Proc(r) \in Procs
  BY DEF Session, Store, Resolve, Drop, Inv, PlaceInv, Fits, Proc
<1>2. \/ UNCHANGED redis
      \/ \E o \in Outcomes : Command(Proc(r), TRUE, TRUE, TRUE, o)
  <2>1. CASE Store(r)
    BY <2>1 DEF Store, Execute
  <2>2. CASE Resolve(r)
    <3>1. \E o \in Outcomes : Execute(Proc(r), o) \/ UNCHANGED redis
      BY <2>2, Zenon DEF Resolve
    <3> QED BY <3>1 DEF Execute
  <2>3. CASE Drop(r)
    BY <2>3 DEF Drop, Execute
  <2> QED BY <2>1, <2>2, <2>3 DEF Session
<1> QED BY <1>1, <1>2, CommandHandle, SameHandle

LEMMA NextHandle == ASSUME Inv, [Next]_vars PROVE HandleStep
<1>1. CASE \E r \in Requests : Arrive(r) \/ Limiting(r) \/ Session(r)
  BY <1>1, LimitingHandle, SessionHandle, SameHandle DEF Arrive
<1>2. CASE \/ \E s \in Scopes : FailWindow(s) \/ LockEnds(s)
           \/ \E p \in Procs, s \in Scopes : MemAge(p, s) \/ MemLockEnds(p, s)
           \/ \E t \in Tokens : SessionExpires(t)
           \/ NextMinute
  BY <1>2, SameHandle DEF FailWindow, LockEnds, MemAge, MemLockEnds, SessionExpires, NextMinute
<1>3. CASE \E p \in Procs : BreakerCloses(p) \/ Crash(p)
  BY <1>3 DEF BreakerCloses, Crash, Cooldown, Restart, HandleStep, Inv, TypeOK, HandleTypeOK
<1>4. CASE UNCHANGED vars
  BY <1>4, SameHandle DEF vars
<1> QED BY <1>1, <1>2, <1>3, <1>4 DEF Next

\* At most one breaker opens with each fault.
LEMMA OpenStep == ASSUME Inv, OpenInv, HandleStep PROVE OpenInv'
<1>1. IsFiniteSet(Procs) /\ faults \in Nat
  BY RedisAssumption DEF Inv, TypeOK, HandleTypeOK
<1>2. CASE faults' = faults /\ \A p \in Procs : blocked'[p] => blocked[p]
  <2>1. Open' \in SUBSET Open /\ Open \in SUBSET Procs
    BY <1>2 DEF Open
  <2>2. IsFiniteSet(Open) /\ Cardinality(Open) \in Nat /\ Cardinality(Open') \in Nat
    BY <1>1, <2>1, CountPart
  <2>3. Cardinality(Open') <= Cardinality(Open)
    BY <2>1, <2>2, CountPart
  <2> QED BY <1>1, <1>2, <2>2, <2>3 DEF OpenInv
<1>3. CASE faults' = faults + 1 /\ \E p \in Procs : \A q \in Procs : q # p => blocked'[q] = blocked[q]
  <2>1. PICK p \in Procs : \A q \in Procs : q # p => blocked'[q] = blocked[q]
    BY <1>3
  <2>2. Open \in SUBSET Procs /\ Open' \in SUBSET Procs /\ \A q \in Procs : q # p => (q \in Open <=> q \in Open')
    BY <2>1 DEF Open
  <2>3. /\ Cardinality(Open) \in Nat /\ Cardinality(Open') \in Nat
        /\ Cardinality(Open') + (IF p \in Open THEN 1 ELSE 0) = Cardinality(Open) + (IF p \in Open' THEN 1 ELSE 0)
    BY <1>1, <2>2, CountOne
  <2> QED BY <1>1, <1>3, <2>3 DEF OpenInv
<1> QED BY <1>2, <1>3 DEF HandleStep

LEMMA OffCommand ==
  ASSUME Inv, OffInv, ~enabled, NEW p \in Procs, NEW last \in BOOLEAN, NEW guarded \in BOOLEAN,
         NEW o, Command(p, TRUE, last, guarded, o)
  PROVE  o = "unsent" /\ \A q \in Procs : ~blocked'[q]
<1>1. o = "unsent"
  BY DEF Command, Available
<1>2. faults' = faults /\ HandleStep
  BY <1>1, CommandHandle
<1>3. faults \in Nat
  BY RedisAssumption DEF Inv, TypeOK, HandleTypeOK
<1> QED BY <1>1, <1>2, <1>3 DEF HandleStep, OffInv

LEMMA OffKept ==
  ASSUME Inv, OffInv, ~enabled, UNCHANGED counters, \A p \in Procs : ~blocked'[p], NEW r \in Requests,
         \A s \in Requests : s # r => pc'[s] = pc[s] /\ loc'[s] = loc[s], OffPlace(pc'[r], loc'[r])
  PROVE  OffInv'
<1>1. ASSUME NEW s \in Requests PROVE OffPlace(pc'[s], loc'[s])
  <2>1. CASE s = r
    BY <2>1
  <2>2. CASE s # r
    <3>1. pc'[s] = pc[s] /\ loc'[s] = loc[s]
      BY <2>2
    <3> QED BY <3>1 DEF OffInv
  <2> QED BY <2>1, <2>2
<1> QED BY <1>1 DEF OffInv, counters

\* A request that goes on: where to, and that the others stay.
LEMMA GoFacts ==
  ASSUME Inv, NEW r \in Requests, NEW q, NEW l, Go(r, q, l)
  PROVE  /\ pc'[r] = q /\ loc'[r] = l
         /\ \A s \in Requests : s # r => pc'[s] = pc[s] /\ loc'[s] = loc[s]
         /\ minute' = minute
BY DEF Go, Inv, TypeOK

LEMMA DoneFacts ==
  ASSUME Inv, NEW r \in Requests, Done(r)
  PROVE  /\ pc'[r] = "idle" /\ loc'[r] = Blank
         /\ \A s \in Requests : s # r => pc'[s] = pc[s] /\ loc'[s] = loc[s]
         /\ minute' = minute
BY GoFacts DEF Done

LEMMA PassedPlace ==
  ASSUME NEW op \in {"login", "register", "apiKey", "admin"}
  PROVE  /\ Passed(op) \in {"verify", "store", "resolve"}
         /\ op = "login" => Passed(op) = "verify"
<1>1. CASE op \in {"login", "apiKey"}
  BY <1>1 DEF Passed
<1>2. CASE op = "register"
  BY <1>2 DEF Passed
<1>3. CASE op = "admin"
  BY <1>3 DEF Passed
<1> QED BY <1>1, <1>2, <1>3

\* A passed check: where the request goes on, and what it keeps.
LEMMA PassFacts ==
  ASSUME Inv, NEW r \in Requests, loc[r].op \in {"login", "register", "apiKey", "admin"}, Pass(r)
  PROVE  /\ \A s \in Requests : s # r => pc'[s] = pc[s] /\ loc'[s] = loc[s]
         /\ minute' = minute
         /\ pc'[r] = Passed(loc[r].op) /\ pc'[r] \in {"verify", "store", "resolve"}
         /\ loc'[r].op = loc[r].op /\ loc'[r].proc = loc[r].proc /\ loc'[r].min = 0
<1>1. PICK l : l = [loc[r] EXCEPT !.min = 0]
  OBVIOUS
<1>2. l.op = loc[r].op /\ l.proc = loc[r].proc /\ l.min = 0
  BY <1>1 DEF Inv, TypeOK, Locals
<1>3. Go(r, Passed(loc[r].op), l)
  BY <1>1 DEF Pass, Op
<1> QED BY <1>2, <1>3, GoFacts, PassedPlace

\* What the in-memory limiter does with an attempt before it counts.
LEMMA EnforceEffect ==
  ASSUME Inv, NEW r \in Requests, pc[r] \in {"lock", "count", "bump", "expireCount"}, MemEnforce(r)
  PROVE  /\ \A s \in Requests : s # r => pc'[s] = pc[s] /\ loc'[s] = loc[s]
         /\ minute' = minute
         /\ \/ pc'[r] = "idle" /\ loc'[r] = Blank
            \/ /\ loc[r].op \notin mem[loc[r].proc].locks
               /\ loc'[r].op = loc[r].op /\ loc'[r].proc = loc[r].proc
               /\ \/ pc'[r] = "memory" /\ loc[r].op \in Metered /\ loc'[r].min = minute
                  \/ /\ pc'[r] = Passed(loc[r].op) /\ pc'[r] \in {"verify", "store", "resolve"}
                     /\ loc[r].op \notin Metered /\ loc'[r].min = 0
<1>1. loc[r].op \in {"login", "register", "apiKey", "admin"} /\ loc[r] \in Locals
  BY DEF Inv, TypeOK, PlaceInv, Fits, Scopes, Metered
<1>2. CASE loc[r].op \in mem[loc[r].proc].locks
  <2>1. Done(r)
    BY <1>2 DEF MemEnforce, Op, Proc
  <2> QED BY <2>1, DoneFacts
<1>3. CASE loc[r].op \notin mem[loc[r].proc].locks /\ loc[r].op \in Metered
  <2>1. PICK l : l = [loc[r] EXCEPT !.min = minute]
    OBVIOUS
  <2>2. l.op = loc[r].op /\ l.proc = loc[r].proc /\ l.min = minute
    BY <1>1, <2>1 DEF Locals
  <2>3. Go(r, "memory", l)
    BY <1>3, <2>1 DEF MemEnforce, Op, Proc
  <2> QED BY <1>3, <2>2, <2>3, GoFacts
<1>4. CASE loc[r].op \notin mem[loc[r].proc].locks /\ loc[r].op \notin Metered
  <2>1. Pass(r)
    BY <1>4 DEF MemEnforce, Op, Proc
  <2> QED BY <1>1, <1>4, <2>1, PassFacts
<1> QED BY <1>2, <1>3, <1>4

\* What the in-memory limiter does with an attempt once it counts.
LEMMA MemCountEffect ==
  ASSUME Inv, NEW r \in Requests, MemCount(r)
  PROVE  /\ \A s \in Requests : s # r => pc'[s] = pc[s] /\ loc'[s] = loc[s]
         /\ minute' = minute
         /\ pc[r] = "memory" /\ loc[r].op \in Metered /\ loc[r].proc \in Procs
         /\ UNCHANGED <<redis, counters, guesses>>
         /\ \A q \in Procs : mem'[q].fails = mem[q].fails /\ mem'[q].locks = mem[q].locks
         /\ \A q \in Procs, c \in Metered :
              q # loc[r].proc \/ c # loc[r].op => mem'[q].reqs[c] = mem[q].reqs[c]
         /\ \/ /\ pc'[r] = "idle" /\ loc'[r] = Blank /\ UNCHANGED <<admitted, late>>
               /\ mem'[loc[r].proc].reqs[loc[r].op].new = mem[loc[r].proc].reqs[loc[r].op].new
            \/ /\ pc'[r] = Passed(loc[r].op) /\ pc'[r] \in {"verify", "store"}
               /\ loc'[r].op = loc[r].op /\ loc'[r].proc = loc[r].proc /\ loc'[r].min = 0
               /\ Admit(loc[r].op, loc[r].min)
               /\ mem[loc[r].proc].reqs[loc[r].op].new < Rpm
               /\ mem'[loc[r].proc].reqs[loc[r].op].new
                    = mem[loc[r].proc].reqs[loc[r].op].new + (IF loc[r].min = minute THEN 1 ELSE 0)
<1> DEFINE p == loc[r].proc
           op == loc[r].op
           w == mem[p].reqs[op]
<1>1. pc[r] = "memory" /\ UNCHANGED <<redis, counters, sessions, guesses, ended, revived>>
  BY DEF MemCount
<1>2. /\ p \in Procs /\ op \in Metered /\ op \in {"login", "register", "apiKey", "admin"}
      /\ Passed(op) \in {"verify", "store"}
  BY <1>1 DEF Inv, PlaceInv, Fits, Metered, Passed
<1>3. /\ mem \in [Procs -> Memory] /\ mem[p] \in Memory /\ mem[p].reqs \in [Metered -> Window]
      /\ w.old \in Nat /\ w.new \in Nat /\ Rpm \in Nat
  BY <1>2, SignInAssumption DEF Inv, TypeOK, Memory, Window
<1>4. PICK one \in {0, 1} : one = IF loc[r].min = minute THEN 1 ELSE 0
  OBVIOUS
<1>5. PICK kept \in 0 .. w.old :
        \/ /\ mem' = [mem EXCEPT ![p].reqs[op] = [old |-> kept, new |-> w.new]]
           /\ Done(r) /\ UNCHANGED <<admitted, late>>
        \/ /\ ~(kept + w.new >= Rpm)
           /\ mem' = [mem EXCEPT ![p].reqs[op] = [old |-> kept + (1 - one), new |-> w.new + one]]
           /\ Pass(r) /\ Admit(op, loc[r].min)
  BY <1>4 DEF MemCount, Proc, Op
<1>6. PICK v : /\ mem' = [mem EXCEPT ![p].reqs[op] = v]
               /\ \/ v.new = w.new /\ Done(r) /\ UNCHANGED <<admitted, late>>
                  \/ v.new = w.new + one /\ Pass(r) /\ Admit(op, loc[r].min) /\ w.new < Rpm
  <2>1. ~(kept + w.new >= Rpm) => w.new < Rpm
    BY <1>3
  <2>2. /\ [old |-> kept, new |-> w.new].new = w.new
        /\ [old |-> kept + (1 - one), new |-> w.new + one].new = w.new + one
    OBVIOUS
  <2> QED BY <1>5, <2>1, <2>2
<1> DEFINE n == [mem[p] EXCEPT !.reqs = [mem[p].reqs EXCEPT ![op] = v]]
<1>7. mem' = [mem EXCEPT ![p] = n]
  BY <1>6
<1>8. /\ n.fails = mem[p].fails /\ n.locks = mem[p].locks /\ n.reqs[op] = v
      /\ \A c \in Metered : c # op => n.reqs[c] = mem[p].reqs[c]
  BY <1>2, <1>3 DEF Memory
<1>9. mem'[p] = n /\ \A q \in Procs : q # p => mem'[q] = mem[q]
  BY <1>2, <1>3, <1>7
<1> HIDE DEF n
<1>10. /\ \A q \in Procs : mem'[q].fails = mem[q].fails /\ mem'[q].locks = mem[q].locks
       /\ \A q \in Procs, c \in Metered : q # p \/ c # op => mem'[q].reqs[c] = mem[q].reqs[c]
       /\ mem'[p].reqs[op] = v
  BY <1>8, <1>9
<1>11. CASE v.new = w.new /\ Done(r) /\ UNCHANGED <<admitted, late>>
  <2>1. mem'[p].reqs[op].new = w.new
    BY <1>10, <1>11
  <2> QED BY <1>1, <1>2, <1>10, <1>11, <2>1, DoneFacts
<1>12. CASE v.new = w.new + one /\ Pass(r) /\ Admit(op, loc[r].min) /\ w.new < Rpm
  <2>1. mem'[p].reqs[op].new = w.new + (IF loc[r].min = minute THEN 1 ELSE 0)
    BY <1>4, <1>10, <1>12
  <2>2. /\ \A s \in Requests : s # r => pc'[s] = pc[s] /\ loc'[s] = loc[s]
        /\ minute' = minute
        /\ pc'[r] = Passed(op) /\ loc'[r].op = op /\ loc'[r].proc = p /\ loc'[r].min = 0
    BY <1>2, <1>12, PassFacts
  <2>3. pc'[r] \in {"verify", "store"}
    BY <1>2, <2>2
  <2> QED BY <1>1, <1>2, <1>10, <1>12, <2>1, <2>2, <2>3
<1> QED BY <1>6, <1>11, <1>12

\* Where a request begins.
LEMMA ArriveFacts ==
  ASSUME Inv, NEW r \in Requests, Arrive(r)
  PROVE  /\ \A s \in Requests : s # r => pc'[s] = pc[s] /\ loc'[s] = loc[s]
         /\ pc[r] = "idle" /\ pc'[r] \in {"lock", "count", "resolve"}
         /\ pc'[r] = "count" => loc'[r].op = "register" /\ loc'[r].min = minute
         /\ loc'[r].min \in {0, minute}
<1>1. PICK op \in Ops, p \in Procs, t \in Tokens \cup {NoToken} :
        /\ IF op \in {"admin", "page", "logout"} THEN t # NoToken /\ store[t] # "none" ELSE t = NoToken
        /\ pc' = [pc EXCEPT ![r] = CASE op \in Scopes -> "lock" [] op = "register" -> "count" [] OTHER -> "resolve"]
        /\ loc' = [loc EXCEPT ![r] = [Blank EXCEPT !.op = op, !.proc = p, !.tok = t, !.min = IF op = "register" THEN minute ELSE 0]]
  BY Zenon DEF Arrive
<1> DEFINE q == CASE op \in Scopes -> "lock" [] op = "register" -> "count" [] OTHER -> "resolve"
<1>2. /\ pc' = [pc EXCEPT ![r] = q]
      /\ loc' = [loc EXCEPT ![r] = [Blank EXCEPT !.op = op, !.proc = p, !.tok = t, !.min = IF op = "register" THEN minute ELSE 0]]
  BY <1>1, Zenon
<1>3. ASSUME op \in Scopes PROVE q = "lock"
  <2>1. op # "register"
    BY <1>3 DEF Scopes
  <2> QED BY <1>3, <2>1, Zenon
<1>4. ASSUME op = "register" PROVE q = "count"
  <2>1. op \notin Scopes
    BY <1>4 DEF Scopes
  <2> QED BY <1>4, <2>1, Zenon
<1>5. ASSUME op \notin Scopes, op # "register" PROVE q = "resolve"
  BY <1>5, Zenon
<1> HIDE DEF q
<1>6. /\ \A s \in Requests : s # r => pc'[s] = pc[s] /\ loc'[s] = loc[s]
      /\ pc'[r] = q /\ loc'[r].op = op /\ loc'[r].min = IF op = "register" THEN minute ELSE 0
  BY <1>2 DEF Inv, TypeOK, Blank
<1>7. pc[r] = "idle"
  BY DEF Arrive
<1> QED BY <1>3, <1>4, <1>5, <1>6, <1>7

\* Where a request goes on to from its session.
LEMMA ResolveMoves ==
  ASSUME Inv, NEW r \in Requests, Resolve(r)
  PROVE  /\ pc[r] = "resolve" /\ loc[r].op \in {"admin", "page", "logout"}
         /\ Done(r) \/ Go(r, "drop", loc[r]) \/ Go(r, "fail", loc[r])
<1>1. pc[r] = "resolve"
  BY DEF Resolve
<1>2. loc[r].op \in {"admin", "page", "logout"}
  BY <1>1 DEF Inv, PlaceInv, Fits
<1>3. \E accepted : CASE Op(r) = "logout" -> Go(r, "drop", loc[r])
                      [] Op(r) = "page" -> Done(r)
                      [] Op(r) = "admin" -> (accepted /\ Done(r)) \/ Go(r, "fail", loc[r])
  BY Zenon DEF Resolve
<1>4. CASE Op(r) = "logout"
  BY <1>1, <1>2, <1>3, <1>4, Zenon
<1>5. CASE Op(r) = "page"
  <2>1. Op(r) # "logout"
    BY <1>5
  <2> QED BY <1>1, <1>2, <1>3, <1>5, <2>1, Zenon
<1>6. CASE Op(r) = "admin"
  <2>1. Op(r) # "logout" /\ Op(r) # "page"
    BY <1>6
  <2> QED BY <1>1, <1>2, <1>3, <1>6, <2>1, Zenon
<1> QED BY <1>2, <1>4, <1>5, <1>6 DEF Op

\* Where the INCR of the failures may lead.
LEMMA FailMoves ==
  ASSUME Inv, NEW r \in Requests, Fail(r)
  PROVE  \E o \in Outcomes, last \in BOOLEAN : \E l :
           /\ Command(Proc(r), TRUE, last, TRUE, o)
           /\ l.op = loc[r].op /\ l.proc = loc[r].proc /\ l.min = loc[r].min
           /\ o = "answered" => Go(r, "expireFails", l) \/ Go(r, "setLock", l) \/ Done(r)
           /\ o # "answered" => Go(r, "memFail", loc[r])
<1>1. PICK n : n = fails[Op(r)].n + 1
  OBVIOUS
<1>2. PICK o \in Outcomes :
        /\ Command(Proc(r), TRUE, n > 1 /\ n < Threshold, TRUE, o)
        /\ CASE o # "answered" -> Go(r, "memFail", loc[r])
             [] o = "answered" /\ n = 1 -> Go(r, "expireFails", [loc[r] EXCEPT !.n = n])
             [] o = "answered" /\ n > 1 /\ n >= Threshold -> Go(r, "setLock", [loc[r] EXCEPT !.n = n])
             [] OTHER -> Done(r)
  BY <1>1, Zenon DEF Fail
<1>3. PICK l : l = [loc[r] EXCEPT !.n = n]
  OBVIOUS
<1>4. l.op = loc[r].op /\ l.proc = loc[r].proc /\ l.min = loc[r].min
  BY <1>3 DEF Inv, TypeOK, Locals
<1>5. PICK last \in BOOLEAN : last = (n > 1 /\ n < Threshold)
  OBVIOUS
<1>6. o # "answered" => Go(r, "memFail", loc[r])
  BY <1>2, Zenon
<1>7. o = "answered" => Go(r, "expireFails", l) \/ Go(r, "setLock", l) \/ Done(r)
  <2>1. CASE n = 1
    <3>1. ~(n > 1)
      BY <2>1
    <3> QED BY <1>2, <1>3, <2>1, <3>1, Zenon
  <2>2. CASE n # 1 /\ n > 1 /\ n >= Threshold
    BY <1>2, <1>3, <2>2, Zenon
  <2>3. CASE n # 1 /\ ~(n > 1 /\ n >= Threshold)
    BY <1>2, <2>3, Zenon
  <2> QED BY <2>1, <2>2, <2>3, Zenon
<1>8. Command(Proc(r), TRUE, last, TRUE, o)
  BY <1>2, <1>5
<1> QED BY <1>4, <1>6, <1>7, <1>8

\* The limiter's first command, if there is one.
LEMMA OffLimiter ==
  ASSUME NEW r \in Requests, OffPlace(pc[r], loc[r]), CheckLock(r) \/ Count(r)
  PROVE  /\ pc[r] \in {"lock", "count"} /\ UNCHANGED counters
         /\ \E o \in Outcomes, last \in BOOLEAN :
              Command(Proc(r), TRUE, last, TRUE, o) /\ (o # "answered" => MemEnforce(r))
<1>1. CASE CheckLock(r)
  <2>1. PICK o \in Outcomes :
          /\ Command(Proc(r), TRUE, Op(r) # "login" /\ Op(r) \notin locks, TRUE, o)
          /\ CASE o # "answered" -> MemEnforce(r)
               [] o = "answered" /\ Op(r) \in locks -> Done(r)
               [] o = "answered" /\ Op(r) = "login" /\ Op(r) \notin locks -> Go(r, "count", [loc[r] EXCEPT !.min = minute])
               [] OTHER -> Pass(r)
    BY <1>1, Zenon DEF CheckLock
  <2>2. o # "answered" => MemEnforce(r)
    BY <2>1, Zenon
  <2>3. pc[r] = "lock" /\ UNCHANGED counters
    BY <1>1 DEF CheckLock, limits
  <2> QED BY <2>1, <2>2, <2>3
<1>2. CASE Count(r)
  BY <1>2 DEF Count, OffPlace, Op, limits
<1> QED BY <1>1, <1>2

LEMMA OffRequest ==
  ASSUME Inv, OffInv, ~enabled, NEW r \in Requests, Arrive(r) \/ Limiting(r) \/ Session(r)
  PROVE  OffInv'
<1>1. \A p \in Procs : ~blocked[p]
  BY DEF OffInv
<1>2. OffPlace(pc[r], loc[r]) /\ Fits(pc[r], loc[r])
  BY DEF OffInv, Inv, PlaceInv
<1>3. CASE Arrive(r)
  <2>1. /\ \A s \in Requests : s # r => pc'[s] = pc[s] /\ loc'[s] = loc[s]
        /\ OffPlace(pc'[r], loc'[r])
    BY <1>3, ArriveFacts DEF OffPlace
  <2>2. UNCHANGED counters /\ \A p1 \in Procs : ~blocked'[p1]
    BY <1>1, <1>3 DEF Arrive, redis, limits
  <2> QED BY <2>1, <2>2, OffKept
<1>4. CASE CheckLock(r) \/ Count(r)
  <2>1. /\ pc[r] \in {"lock", "count"} /\ UNCHANGED counters
        /\ \E o \in Outcomes, last \in BOOLEAN :
             Command(Proc(r), TRUE, last, TRUE, o) /\ (o # "answered" => MemEnforce(r))
    BY <1>2, <1>4, OffLimiter
  <2>2. Proc(r) \in Procs
    BY <1>2, <2>1 DEF Fits, Proc
  <2>3. MemEnforce(r) /\ \A p \in Procs : ~blocked'[p]
    BY <2>1, <2>2, OffCommand
  <2>4. /\ \A s \in Requests : s # r => pc'[s] = pc[s] /\ loc'[s] = loc[s]
        /\ pc'[r] \in {"idle", "memory", "verify", "store", "resolve"}
    BY <2>1, <2>3, EnforceEffect
  <2> QED BY <2>1, <2>3, <2>4, OffKept DEF OffPlace
<1>5. CASE Verify(r)
  <2>1. /\ UNCHANGED <<redis, counters>>
        /\ Go(r, "clearFails", loc[r]) \/ Go(r, "fail", loc[r])
    BY <1>5 DEF Verify
  <2>2. /\ \A s \in Requests : s # r => pc'[s] = pc[s] /\ loc'[s] = loc[s]
        /\ pc'[r] \in {"clearFails", "fail"}
    BY <2>1, GoFacts
  <2> QED BY <1>1, <2>1, <2>2, OffKept DEF OffPlace, redis
<1>6. CASE Fail(r)
  <2>1. PICK n : n = fails[Op(r)].n + 1
    OBVIOUS
  <2>2. PICK o \in Outcomes :
          /\ Command(Proc(r), TRUE, n > 1 /\ n < Threshold, TRUE, o)
          /\ fails' = IF TookEffect(o) THEN [fails EXCEPT ![Op(r)].n = n] ELSE fails
          /\ CASE o # "answered" -> Go(r, "memFail", loc[r])
               [] o = "answered" /\ n = 1 -> Go(r, "expireFails", [loc[r] EXCEPT !.n = n])
               [] o = "answered" /\ n > 1 /\ n >= Threshold -> Go(r, "setLock", [loc[r] EXCEPT !.n = n])
               [] OTHER -> Done(r)
    BY <1>6, <2>1, Zenon DEF Fail
  <2>3. pc[r] = "fail" /\ UNCHANGED <<locks, reqs>>
    BY <1>6 DEF Fail
  <2>4. Proc(r) \in Procs
    BY <1>2, <2>3 DEF Fits, Proc
  <2>5. o = "unsent" /\ \A p \in Procs : ~blocked'[p]
    BY <2>2, <2>4, OffCommand
  <2>6. fails' = fails
    BY <2>2, <2>5 DEF TookEffect
  <2>7. o # "answered"
    BY <2>5
  <2>8. Go(r, "memFail", loc[r])
    BY <2>2, <2>7, Zenon
  <2> QED BY <2>3, <2>5, <2>6, <2>8, GoFacts, OffKept DEF OffPlace, counters
<1>7. CASE ClearFails(r)
  <2>1. PICK o \in Outcomes :
          /\ Command(Proc(r), TRUE, FALSE, FALSE, o)
          /\ ~TookEffect(o) => fails' = fails
          /\ o # "answered" => Cleared(r)
    BY <1>7 DEF ClearFails
  <2>2. pc[r] = "clearFails" /\ UNCHANGED <<locks, reqs>>
    BY <1>7 DEF ClearFails
  <2>3. Proc(r) \in Procs
    BY <1>2, <2>2 DEF Fits, Proc
  <2>4. o = "unsent" /\ \A p \in Procs : ~blocked'[p]
    BY <2>1, <2>3, OffCommand
  <2>5. fails' = fails /\ (Done(r) \/ Go(r, "store", loc[r]))
    BY <2>1, <2>4 DEF TookEffect, Cleared
  <2>6. /\ \A s \in Requests : s # r => pc'[s] = pc[s] /\ loc'[s] = loc[s]
        /\ pc'[r] \in {"idle", "store"}
    BY <2>5, DoneFacts, GoFacts
  <2> QED BY <2>2, <2>4, <2>5, <2>6, OffKept DEF OffPlace, counters
<1>8. CASE Store(r)
  <2>1. pc[r] = "store" /\ Done(r) /\ UNCHANGED limits /\ \E o \in Outcomes : Command(Proc(r), TRUE, TRUE, TRUE, o)
    BY <1>8 DEF Store, Execute
  <2>2. Proc(r) \in Procs
    BY <1>2, <2>1 DEF Fits, Proc
  <2>3. \A p \in Procs : ~blocked'[p]
    BY <2>1, <2>2, OffCommand
  <2> QED BY <2>1, <2>3, DoneFacts, OffKept DEF OffPlace, limits
<1>9. CASE Resolve(r) \/ Drop(r)
  <2>1. /\ pc[r] \in {"resolve", "drop"} /\ UNCHANGED limits
        /\ \E o \in Outcomes : Command(Proc(r), TRUE, TRUE, TRUE, o) \/ UNCHANGED redis
    <3>1. CASE Resolve(r)
      <4>1. \E o \in Outcomes : Execute(Proc(r), o) \/ UNCHANGED redis
        BY <3>1, Zenon DEF Resolve
      <4> QED BY <3>1, <4>1 DEF Resolve, Execute
    <3>2. CASE Drop(r)
      BY <3>2 DEF Drop, Execute
    <3> QED BY <1>9, <3>1, <3>2
  <2>2. Proc(r) \in Procs
    BY <1>2, <2>1 DEF Fits, Proc
  <2>3. \A p \in Procs : ~blocked'[p]
    BY <1>1, <2>1, <2>2, OffCommand DEF redis
  <2>4. Done(r) \/ Go(r, "drop", loc[r]) \/ Go(r, "fail", loc[r])
    BY <1>9, ResolveMoves DEF Drop
  <2>5. /\ \A s \in Requests : s # r => pc'[s] = pc[s] /\ loc'[s] = loc[s]
        /\ pc'[r] \in {"idle", "drop", "fail"}
    BY <2>4, DoneFacts, GoFacts
  <2> QED BY <2>1, <2>3, <2>5, OffKept DEF OffPlace, limits
<1>10. CASE Bump(r) \/ ExpireCount(r) \/ ExpireFails(r) \/ SetLock(r) \/ ClearLock(r)
  BY <1>2, <1>10 DEF OffPlace, Bump, ExpireCount, ExpireFails, SetLock, ClearLock
<1>11. CASE MemCount(r)
  <2>1. /\ \A s \in Requests : s # r => pc'[s] = pc[s] /\ loc'[s] = loc[s]
        /\ pc'[r] \in {"idle", "verify", "store"} /\ UNCHANGED <<redis, counters>>
    BY <1>11, MemCountEffect
  <2> QED BY <1>1, <2>1, OffKept DEF OffPlace, redis
<1>12. CASE MemFailure(r)
  <2>1. Done(r) /\ UNCHANGED <<redis, counters>>
    BY <1>12 DEF MemFailure
  <2> QED BY <1>1, <2>1, DoneFacts, OffKept DEF OffPlace, redis
<1> QED BY <1>3, <1>4, <1>5, <1>6, <1>7, <1>8, <1>9, <1>10, <1>11, <1>12 DEF Limiting, Session

LEMMA OffStep == ASSUME Inv, OffInv, [Next]_vars PROVE OffInv'
<1>1. enabled' = enabled
  BY NextHandle DEF HandleStep
<1>2. SUFFICES ASSUME ~enabled PROVE OffInv'
  BY <1>1 DEF OffInv
<1>3. CASE \E r \in Requests : Arrive(r) \/ Limiting(r) \/ Session(r)
  BY <1>2, <1>3, OffRequest
<1>4. CASE \E s \in Scopes : FailWindow(s) \/ LockEnds(s)
  BY <1>2, <1>4 DEF FailWindow, LockEnds, OffInv, NoCount
<1>5. CASE \/ \E p \in Procs, s \in Scopes : MemAge(p, s) \/ MemLockEnds(p, s)
           \/ \E t \in Tokens : SessionExpires(t)
           \/ NextMinute
           \/ UNCHANGED vars
  BY <1>2, <1>5 DEF MemAge, MemLockEnds, SessionExpires, NextMinute, OffInv, Passing, counters, limits,
     redis, vars
<1>6. CASE \E p \in Procs : BreakerCloses(p)
  BY <1>2, <1>6 DEF BreakerCloses, Cooldown, OffInv
<1>7. CASE \E p \in Procs : Crash(p)
  <2>1. PICK p \in Procs : Crash(p)
    BY <1>7
  <2>2. UNCHANGED counters /\ blocked' = [blocked EXCEPT ![p] = FALSE]
    BY <2>1 DEF Crash, Restart
  <2>3. ASSUME NEW r \in Requests PROVE OffPlace(pc'[r], loc'[r])
    <3>1. pc'[r] = "idle" \/ (pc'[r] = pc[r] /\ loc'[r] = loc[r])
      BY <2>1 DEF Crash
    <3>2. CASE pc'[r] = "idle"
      BY <3>2 DEF OffPlace
    <3>3. CASE pc'[r] = pc[r] /\ loc'[r] = loc[r]
      BY <1>2, <3>3 DEF OffInv
    <3> QED BY <3>1, <3>2, <3>3
  <2> QED BY <1>2, <2>2, <2>3 DEF OffInv, counters, Inv, TypeOK, HandleTypeOK
<1> QED BY <1>3, <1>4, <1>5, <1>6, <1>7 DEF Next

\* The parts of a process's memory: what a failure or a success leaves alone.
LEMMA MemorySuccess ==
  ASSUME Inv, NEW r \in Requests, loc[r].proc \in Procs, loc[r].op \in Scopes, MemSuccess(r)
  PROVE  /\ \A q \in Procs : mem'[q].reqs = mem[q].reqs
         /\ \A q \in Procs : q # loc[r].proc => mem'[q] = mem[q]
         /\ mem'[loc[r].proc].fails[loc[r].op] = 0
         /\ \A s \in Scopes : s # loc[r].op => mem'[loc[r].proc].fails[s] = mem[loc[r].proc].fails[s]
         /\ mem'[loc[r].proc].locks = mem[loc[r].proc].locks \ {loc[r].op}
<1> DEFINE p == loc[r].proc
           n == [mem[p] EXCEPT !.fails = [mem[p].fails EXCEPT ![loc[r].op] = 0], !.locks = mem[p].locks \ {loc[r].op}]
<1>1. mem[p] \in Memory /\ mem \in [Procs -> Memory]
  BY DEF Inv, TypeOK, Memory
<1>2. mem' = [mem EXCEPT ![p] = n]
  BY DEF MemSuccess, Op, Proc
<1>3. /\ n.reqs = mem[p].reqs /\ n.fails = [mem[p].fails EXCEPT ![loc[r].op] = 0]
      /\ n.locks = mem[p].locks \ {loc[r].op}
  BY <1>1 DEF Memory
<1>4. mem'[p] = n /\ \A q \in Procs : q # p => mem'[q] = mem[q]
  BY <1>1, <1>2
<1>5. n.fails[loc[r].op] = 0 /\ \A s \in Scopes : s # loc[r].op => n.fails[s] = mem[p].fails[s]
  BY <1>1, <1>3 DEF Memory
<1> HIDE DEF n
<1> QED BY <1>3, <1>4, <1>5

LEMMA MemoryFailure ==
  ASSUME Inv, NEW r \in Requests, loc[r].proc \in Procs, loc[r].op \in Scopes, MemFailure(r)
  PROVE  /\ Done(r)
         /\ \A q \in Procs : mem'[q].reqs = mem[q].reqs
         /\ \A q \in Procs : q # loc[r].proc => mem'[q] = mem[q]
         /\ mem'[loc[r].proc].fails[loc[r].op] = mem[loc[r].proc].fails[loc[r].op] + 1
         /\ \A s \in Scopes : s # loc[r].op => mem'[loc[r].proc].fails[s] = mem[loc[r].proc].fails[s]
         /\ mem'[loc[r].proc].locks = mem[loc[r].proc].locks \cup
              (IF mem[loc[r].proc].fails[loc[r].op] + 1 >= Threshold THEN {loc[r].op} ELSE {})
<1> DEFINE p == loc[r].proc
           op == loc[r].op
           k == mem[p].fails[op] + 1
           L == IF k >= Threshold THEN mem[p].locks \cup {op} ELSE mem[p].locks
           n == [mem[p] EXCEPT !.fails = [mem[p].fails EXCEPT ![op] = k], !.locks = L]
<1>1. mem[p] \in Memory /\ mem \in [Procs -> Memory]
  BY DEF Inv, TypeOK, Memory
<1>2. mem' = [mem EXCEPT ![p] = n] /\ Done(r)
  BY <1>1 DEF MemFailure, Op, Proc, Memory
<1>3. n.reqs = mem[p].reqs /\ n.fails = [mem[p].fails EXCEPT ![op] = k] /\ n.locks = L
  BY <1>1 DEF Memory
<1>4. mem'[p] = n /\ \A q \in Procs : q # p => mem'[q] = mem[q]
  BY <1>1, <1>2
<1>5. n.fails[op] = k /\ \A s \in Scopes : s # op => n.fails[s] = mem[p].fails[s]
  BY <1>1, <1>3 DEF Memory
<1>6. L = mem[p].locks \cup (IF k >= Threshold THEN {op} ELSE {})
  OBVIOUS
<1> HIDE DEF k, L, n
<1>7. \A q \in Procs : mem'[q].reqs = mem[q].reqs
  BY <1>3, <1>4
<1>8. mem'[p].fails[op] = k /\ mem'[p].locks = L /\ \A s \in Scopes : s # op => mem'[p].fails[s] = mem[p].fails[s]
  BY <1>3, <1>4, <1>5
<1> QED BY <1>2, <1>4, <1>6, <1>7, <1>8 DEF k, L

\* Without a fault, with Redis on, a command is answered.
LEMMA Answered ==
  ASSUME Inv, enabled, faults' = 0, NEW p \in Procs, NEW first \in BOOLEAN, NEW last \in BOOLEAN,
         NEW guarded \in BOOLEAN, NEW o, Command(p, first, last, guarded, o)
  PROVE  o = "answered"
<1>1. HandleTypeOK /\ BreakerInv /\ faults \in Nat
  BY RedisAssumption DEF Inv, TypeOK, HandleTypeOK
<1>2. o \in {"answered", "unsent"} /\ (o = "unsent" => faults > 0) /\ faults <= faults'
  BY <1>1, CommandFacts
<1> QED BY <1>1, <1>2

\* ... and the limiter asks no memory.
LEMMA AnsweredLimiter ==
  ASSUME Inv, enabled, faults' = 0, NEW r \in Requests,
         \/ CheckLock(r) \/ Count(r) \/ Bump(r) \/ ExpireCount(r)
         \/ Fail(r) \/ ExpireFails(r) \/ SetLock(r)
  PROVE  /\ mem' = mem /\ pc'[r] \notin {"memory", "memFail"}
         /\ \A s \in Requests : s # r => pc'[s] = pc[s]
<1>1. Proc(r) \in Procs /\ Fits(pc[r], loc[r]) /\ (loc[r].n < Threshold) \in BOOLEAN
  <2>1. pc[r] \in {"lock", "count", "bump", "expireCount", "fail", "expireFails", "setLock"}
    BY DEF CheckLock, Count, Bump, ExpireCount, Fail, ExpireFails, SetLock
  <2> QED BY <2>1, SignInAssumption DEF Inv, TypeOK, Locals, PlaceInv, Fits, Proc
<1>2. pc[r] \in {"lock", "count", "bump", "expireCount"} =>
        loc[r].op \in {"login", "register", "apiKey", "admin"}
  BY <1>1 DEF Fits, Scopes, Metered
<1>3. CASE CheckLock(r)
  <2>1. PICK o \in Outcomes :
          /\ Command(Proc(r), TRUE, Op(r) # "login" /\ Op(r) \notin locks, TRUE, o)
          /\ CASE o # "answered" -> MemEnforce(r)
               [] o = "answered" /\ Op(r) \in locks -> Done(r)
               [] o = "answered" /\ Op(r) = "login" /\ Op(r) \notin locks -> Go(r, "count", [loc[r] EXCEPT !.min = minute])
               [] OTHER -> Pass(r)
    BY <1>3, Zenon DEF CheckLock
  <2>2. o = "answered"
    BY <1>1, <2>1, Answered
  <2>3. Done(r) \/ Go(r, "count", [loc[r] EXCEPT !.min = minute]) \/ Pass(r)
    BY <2>1, <2>2, Zenon
  <2>4. pc[r] = "lock" /\ mem' = mem
    BY <1>3 DEF CheckLock, limits
  <2> QED BY <1>2, <2>3, <2>4, DoneFacts, GoFacts, PassFacts
<1>4. CASE Count(r)
  <2>1. PICK o \in Outcomes :
          /\ Command(Proc(r), Op(r) = "register", FALSE, TRUE, o)
          /\ o = "answered" => \E l : Done(r) \/ Go(r, "bump", l)
    BY <1>4 DEF Count
  <2>2. o = "answered" /\ mem' = mem
    BY <1>1, <1>4, <2>1, Answered DEF Count, limits
  <2> QED BY <2>1, <2>2, DoneFacts, GoFacts
<1>5. CASE Bump(r)
  <2>1. PICK o \in Outcomes, first \in BOOLEAN :
          /\ Command(Proc(r), FALSE, ~first, TRUE, o)
          /\ o = "answered" => Go(r, "expireCount", loc[r]) \/ Pass(r)
    BY <1>5, BumpFacts
  <2>2. o = "answered" /\ mem' = mem /\ pc[r] = "bump"
    BY <1>1, <1>5, <2>1, Answered DEF Bump
  <2> QED BY <1>2, <2>1, <2>2, GoFacts, PassFacts
<1>6. CASE ExpireCount(r)
  <2>1. pc[r] = "expireCount" /\ mem' = mem
    BY <1>6 DEF ExpireCount, limits
  <2>2. Pass(r)
    BY <1>1, <1>6, Answered DEF ExpireCount
  <2> QED BY <1>2, <2>1, <2>2, PassFacts
<1>7. CASE Fail(r)
  <2>1. PICK o \in Outcomes, last \in BOOLEAN :
          /\ Command(Proc(r), TRUE, last, TRUE, o)
          /\ o = "answered" => \E l : Go(r, "expireFails", l) \/ Go(r, "setLock", l) \/ Done(r)
    BY <1>7, FailMoves
  <2>2. o = "answered" /\ mem' = mem
    BY <1>1, <1>7, <2>1, Answered DEF Fail
  <2> QED BY <2>1, <2>2, GoFacts, DoneFacts
<1>8. CASE ExpireFails(r)
  <2>1. PICK o \in Outcomes :
          /\ Command(Proc(r), FALSE, loc[r].n < Threshold, TRUE, o)
          /\ o = "answered" => Go(r, "setLock", loc[r]) \/ Done(r)
    BY <1>8, Zenon DEF ExpireFails
  <2>2. o = "answered" /\ mem' = mem
    BY <1>1, <1>8, <2>1, Answered DEF ExpireFails
  <2> QED BY <2>1, <2>2, GoFacts, DoneFacts
<1>9. CASE SetLock(r)
  <2>1. Done(r) /\ mem' = mem
    BY <1>1, <1>9, Answered DEF SetLock
  <2> QED BY <2>1, DoneFacts
<1> QED BY <1>3, <1>4, <1>5, <1>6, <1>7, <1>8, <1>9

LEMMA CalmStep == ASSUME Inv, CalmInv, [Next]_vars PROVE CalmInv'
<1>1. SUFFICES ASSUME enabled', faults' = 0
               PROVE  /\ \A p \in Procs : mem'[p] = Forgotten
                      /\ \A r \in Requests : pc'[r] \notin {"memory", "memFail"}
  BY DEF CalmInv
<1>2. /\ enabled /\ faults = 0
      /\ \A p \in Procs : ~blocked[p] /\ mem[p] = Forgotten
      /\ \A r \in Requests : pc[r] \notin {"memory", "memFail"}
  <2>1. faults \in Nat /\ HandleStep
    BY RedisAssumption, NextHandle DEF Inv, TypeOK, HandleTypeOK
  <2>2. enabled /\ faults = 0
    BY <1>1, <2>1 DEF HandleStep
  <2> QED BY <2>2 DEF CalmInv, Inv, BreakerInv
<1>3. CASE \E r \in Requests : Limiting(r)
  <2>1. PICK r \in Requests : Limiting(r)
    BY <1>3
  <2>2. CASE \/ CheckLock(r) \/ Count(r) \/ Bump(r) \/ ExpireCount(r)
             \/ Fail(r) \/ ExpireFails(r) \/ SetLock(r)
    <3>1. /\ mem' = mem /\ pc'[r] \notin {"memory", "memFail"}
          /\ \A s \in Requests : s # r => pc'[s] = pc[s]
      BY <1>1, <1>2, <2>2, AnsweredLimiter
    <3> QED BY <1>2, <3>1
  <2>3. CASE Verify(r)
    <3>1. /\ pc[r] = "verify" /\ (mem' = mem \/ MemSuccess(r))
          /\ Go(r, "clearFails", loc[r]) \/ Go(r, "fail", loc[r])
      BY <2>3 DEF Verify
    <3>2. loc[r].op \in Scopes /\ loc[r].proc \in Procs
      BY <3>1 DEF Inv, PlaceInv, Fits, Scopes
    <3>3. \A s \in Requests : pc'[s] \notin {"memory", "memFail"}
      BY <1>2, <3>1, GoFacts
    <3>4. CASE MemSuccess(r)
      <4> DEFINE p == loc[r].proc
      <4>1. mem[p] = Forgotten /\ p \in Procs
        BY <1>2, <3>2
      <4>2. /\ mem' = [mem EXCEPT ![p] = [mem[p] EXCEPT !.fails = [mem[p].fails EXCEPT ![loc[r].op] = 0],
                                                        !.locks = mem[p].locks \ {loc[r].op}]]
            /\ mem \in [Procs -> Memory]
        BY <3>4 DEF MemSuccess, Op, Proc, Inv, TypeOK, Memory
      <4>3. Forgotten.locks = {} /\ Forgotten.fails = [s \in Scopes |-> 0]
        BY DEF Forgotten
      <4>4. [Forgotten.fails EXCEPT ![loc[r].op] = 0] = Forgotten.fails /\ Forgotten.locks \ {loc[r].op} = Forgotten.locks
        BY <4>3
      <4>5. mem' = [mem EXCEPT ![p] = [Forgotten EXCEPT !.fails = Forgotten.fails, !.locks = Forgotten.locks]]
        BY <4>1, <4>2, <4>4
      <4>6. [Forgotten EXCEPT !.fails = Forgotten.fails, !.locks = Forgotten.locks] = Forgotten
        BY DEF Forgotten
      <4> QED BY <1>2, <3>3, <4>2, <4>5, <4>6
    <3> QED BY <1>2, <3>1, <3>3, <3>4
  <2>4. CASE ClearFails(r) \/ ClearLock(r)
    <3>1. /\ mem' = mem
          /\ Done(r) \/ Go(r, "clearLock", loc[r]) \/ Go(r, "store", loc[r])
      BY <2>4 DEF ClearFails, ClearLock, Cleared
    <3> QED BY <1>2, <3>1, GoFacts, DoneFacts
  <2>5. CASE MemCount(r) \/ MemFailure(r)
    BY <1>2, <2>5 DEF MemCount, MemFailure
  <2> QED BY <2>1, <2>2, <2>3, <2>4, <2>5 DEF Limiting
<1>4. CASE \E r \in Requests : Arrive(r) \/ Session(r)
  <2>1. PICK r \in Requests : Arrive(r) \/ Session(r)
    BY <1>4
  <2>2. mem' = mem
    BY <2>1 DEF Arrive, Session, Store, Resolve, Drop, limits
  <2>3. CASE Arrive(r)
    BY <1>2, <2>2, <2>3, ArriveFacts
  <2>4. CASE Session(r)
    <3>1. Done(r) \/ Go(r, "drop", loc[r]) \/ Go(r, "fail", loc[r])
      BY <2>4, ResolveMoves DEF Session, Store, Drop
    <3> QED BY <1>2, <2>2, <3>1, DoneFacts, GoFacts
  <2> QED BY <2>1, <2>3, <2>4
<1>5. CASE \E s \in Scopes : FailWindow(s) \/ LockEnds(s)
  BY <1>2, <1>5 DEF FailWindow, LockEnds, Passing
<1>6. CASE \E p \in Procs, s \in Scopes : MemAge(p, s) \/ MemLockEnds(p, s)
  BY <1>2, <1>6 DEF MemAge, MemLockEnds, Forgotten
<1>7. CASE \/ \E t \in Tokens : SessionExpires(t)
           \/ \E p \in Procs : BreakerCloses(p)
           \/ UNCHANGED vars
  BY <1>2, <1>7 DEF SessionExpires, BreakerCloses, vars, limits
<1>8. CASE \E p \in Procs : Crash(p)
  BY <1>1, <1>2, <1>8 DEF Crash, Restart
<1>9. CASE NextMinute
  <2>1. UNCHANGED pc
    BY <1>9 DEF NextMinute, Passing
  <2>2. ASSUME NEW p \in Procs PROVE mem'[p] = Forgotten
    <3>1. mem'[p] = [mem[p] EXCEPT !.reqs = [c \in Metered |->
                       [old |-> mem[p].reqs[c].old + mem[p].reqs[c].new, new |-> 0]]]
      BY <1>9 DEF NextMinute
    <3>2. mem[p] = Forgotten
      BY <1>2
    <3> QED BY <3>1, <3>2 DEF Forgotten, NoneYet
  <2> QED BY <1>2, <2>1, <2>2
<1> QED BY <1>3, <1>4, <1>5, <1>6, <1>7, <1>8, <1>9 DEF Next

-----------------------------------------------------------------------------
(* Attempts.                                                               *)

\* The requests that can overlap.
Overlap == Cardinality(Requests)

\* Attempts of this minute that Redis has counted and that wait for the EXPIRE.
Owing(c) == {r \in Requests : pc[r] = "expireCount" /\ loc[r].op = c /\ loc[r].min = minute}

\* Attempts of this minute that were let through and are not counted yet.
Bumping(c) == {r \in Requests : pc[r] = "bump" /\ loc[r].op = c /\ loc[r].min = minute}

\* What the memories of all processes have counted in this minute.
Recall(c) == Under(Procs, Rpm, [p \in Procs |-> mem[p].reqs[c].new])

\* Attempts with the time of an earlier minute that may be let through in this one.
Stale == {r \in Requests : pc[r] \in {"count", "bump", "expireCount", "memory"} /\ loc[r].min # minute}

\* Whoever is let through was counted in one place; Redis counts no more than
\* its limit and one for each request that was past the GET.
AttemptInv ==
  /\ \A r \in Requests : loc[r].min <= minute
  /\ \A c \in Metered :
       /\ admitted[c] + Cardinality(Owing(c)) <= reqs[c] + Cardinality(Recall(c))
       /\ Cardinality(Owing(c)) <= reqs[c]
       /\ enabled => reqs[c] + Cardinality(Bumping(c)) <= Rpm + Overlap - 1

\* Whoever is let through with the time of an earlier minute had it before this
\* one began.
LateInv == late + Cardinality(Stale) <= Overlap

LEMMA OverlapType == Overlap \in Nat /\ IsFiniteSet(Requests) /\ IsFiniteSet(Procs) /\ Rpm \in Nat \ {0} /\ Threshold \in Nat \ {0}
BY SignInAssumption, RedisAssumption, FS_CardinalityType DEF Overlap

LEMMA AttemptTypes ==
  ASSUME TypeOK, NEW c \in Metered
  PROVE  /\ Cardinality(Owing(c)) \in Nat /\ Cardinality(Bumping(c)) \in Nat
         /\ Cardinality(Bumping(c)) <= Overlap
         /\ Cardinality(Recall(c)) \in Nat
         /\ reqs[c] \in Nat /\ admitted[c] \in Nat
         /\ [p \in Procs |-> mem[p].reqs[c].new] \in [Procs -> Nat]
<1>1. Owing(c) \in SUBSET Requests /\ Bumping(c) \in SUBSET Requests
  BY DEF Owing, Bumping
<1>2. Cardinality(Owing(c)) \in Nat /\ Cardinality(Bumping(c)) \in Nat /\ Cardinality(Bumping(c)) <= Overlap
  BY <1>1, OverlapType, CountPart DEF Overlap
<1>3. Cardinality(Recall(c)) \in Nat
  BY OverlapType, UnderCount DEF Recall
<1> QED BY <1>2, <1>3 DEF TypeOK, Window

LEMMA AttemptTypesNext ==
  ASSUME TypeOK', NEW c \in Metered
  PROVE  /\ Cardinality(Owing(c)') \in Nat /\ Cardinality(Bumping(c)') \in Nat
         /\ Cardinality(Bumping(c)') <= Overlap
         /\ Cardinality(Recall(c)') \in Nat
         /\ reqs'[c] \in Nat /\ admitted'[c] \in Nat
         /\ [p \in Procs |-> mem'[p].reqs[c].new] \in [Procs -> Nat]
<1>1. Owing(c)' \in SUBSET Requests /\ Bumping(c)' \in SUBSET Requests
  BY DEF Owing, Bumping
<1>2. Cardinality(Owing(c)') \in Nat /\ Cardinality(Bumping(c)') \in Nat /\ Cardinality(Bumping(c)') <= Overlap
  BY <1>1, OverlapType, CountPart DEF Overlap
<1>3. Cardinality(Recall(c)') \in Nat
  BY OverlapType, UnderCount DEF Recall
<1> QED BY <1>2, <1>3 DEF TypeOK, Window

\* One request moves within the minute.
LEMMA AttemptMove ==
  ASSUME minute' = minute, NEW r \in Requests, NEW c \in Metered,
         \A s \in Requests : s # r => pc'[s] = pc[s] /\ loc'[s] = loc[s]
  PROVE  /\ Cardinality(Owing(c)') + (IF r \in Owing(c) THEN 1 ELSE 0)
              = Cardinality(Owing(c)) + (IF r \in Owing(c)' THEN 1 ELSE 0)
         /\ Cardinality(Bumping(c)') + (IF r \in Bumping(c) THEN 1 ELSE 0)
              = Cardinality(Bumping(c)) + (IF r \in Bumping(c)' THEN 1 ELSE 0)
<1>1. /\ Owing(c) \in SUBSET Requests /\ Owing(c)' \in SUBSET Requests
      /\ \A s \in Requests : s # r => (s \in Owing(c) <=> s \in Owing(c)')
  BY DEF Owing
<1>2. /\ Bumping(c) \in SUBSET Requests /\ Bumping(c)' \in SUBSET Requests
      /\ \A s \in Requests : s # r => (s \in Bumping(c) <=> s \in Bumping(c)')
  BY DEF Bumping
<1> QED BY <1>1, <1>2, OverlapType, CountOne

LEMMA RecallSame ==
  ASSUME NEW c \in Metered, \A p \in Procs : mem'[p].reqs[c].new = mem[p].reqs[c].new
  PROVE  Recall(c)' = Recall(c)
<1>1. [p \in Procs |-> mem'[p].reqs[c].new] = [p \in Procs |-> mem[p].reqs[c].new]
  OBVIOUS
<1> QED BY <1>1 DEF Recall

LEMMA RecallMore ==
  ASSUME TypeOK, TypeOK', NEW p \in Procs, NEW c \in Metered, mem[p].reqs[c].new < Rpm,
         mem'[p].reqs[c].new = mem[p].reqs[c].new + 1,
         \A q \in Procs : q # p => mem'[q].reqs[c] = mem[q].reqs[c]
  PROVE  Cardinality(Recall(c)') = Cardinality(Recall(c)) + 1
<1> DEFINE f == [q \in Procs |-> mem[q].reqs[c].new]
           g == [q \in Procs |-> mem'[q].reqs[c].new]
<1>1. f \in [Procs -> Nat] /\ g \in [Procs -> Nat]
  BY AttemptTypes, AttemptTypesNext
<1>2. g[p] = f[p] + 1 /\ f[p] < Rpm /\ \A q \in Procs : q # p => g[q] = f[q]
  OBVIOUS
<1>3. Recall(c) = Under(Procs, Rpm, f) /\ Recall(c)' = Under(Procs, Rpm, g)
  BY DEF Recall
<1> HIDE DEF f, g
<1>4. Cardinality(Under(Procs, Rpm, g)) = Cardinality(Under(Procs, Rpm, f)) + 1
  BY <1>1, <1>2, OverlapType, UnderOneMore
<1> QED BY <1>3, <1>4

\* A step that counts no attempt.
LEMMA AttemptKept ==
  ASSUME Inv, Inv', AttemptInv, HandleStep, UNCHANGED <<minute, reqs, admitted>>,
         \A p \in Procs : mem'[p].reqs = mem[p].reqs, NEW r \in Requests,
         \A s \in Requests : s # r => pc'[s] = pc[s] /\ loc'[s] = loc[s],
         pc'[r] \notin {"bump", "expireCount"}, loc'[r].min <= minute
  PROVE  AttemptInv'
<1>1. \A s \in Requests : loc'[s].min <= minute'
  BY DEF AttemptInv
<1>2. ASSUME NEW c \in Metered
      PROVE  /\ admitted'[c] + Cardinality(Owing(c)') <= reqs'[c] + Cardinality(Recall(c)')
             /\ Cardinality(Owing(c)') <= reqs'[c]
             /\ enabled' => reqs'[c] + Cardinality(Bumping(c)') <= Rpm + Overlap - 1
  <2>1. r \notin Owing(c)' /\ r \notin Bumping(c)'
    BY DEF Owing, Bumping
  <2>2. /\ Cardinality(Owing(c)) \in Nat /\ Cardinality(Bumping(c)) \in Nat
        /\ Cardinality(Owing(c)') \in Nat /\ Cardinality(Bumping(c)') \in Nat
        /\ Cardinality(Recall(c)) \in Nat /\ reqs[c] \in Nat /\ admitted[c] \in Nat
    BY AttemptTypes, AttemptTypesNext DEF Inv
  <2>3. Cardinality(Owing(c)') <= Cardinality(Owing(c)) /\ Cardinality(Bumping(c)') <= Cardinality(Bumping(c))
    BY <2>1, <2>2, AttemptMove
  <2>4. Recall(c)' = Recall(c)
    BY RecallSame
  <2>5. /\ admitted[c] + Cardinality(Owing(c)) <= reqs[c] + Cardinality(Recall(c))
        /\ Cardinality(Owing(c)) <= reqs[c]
        /\ enabled => reqs[c] + Cardinality(Bumping(c)) <= Rpm + Overlap - 1
    BY DEF AttemptInv
  <2> QED BY <2>2, <2>3, <2>4, <2>5, OverlapType DEF HandleStep
<1> QED BY <1>1, <1>2 DEF AttemptInv

\* A step of the limiter: what is let through was counted.
LEMMA AttemptCounted ==
  ASSUME Inv, Inv', AttemptInv, HandleStep, minute' = minute, NEW r \in Requests,
         \A s \in Requests : s # r => pc'[s] = pc[s] /\ loc'[s] = loc[s],
         loc'[r].min <= minute,
         \A c \in Metered :
           /\ admitted'[c] + (IF r \in Owing(c)' THEN 1 ELSE 0) + reqs[c] + Cardinality(Recall(c))
                <= admitted[c] + (IF r \in Owing(c) THEN 1 ELSE 0) + reqs'[c] + Cardinality(Recall(c)')
           /\ (IF r \in Owing(c)' THEN 1 ELSE 0) + reqs[c] <= reqs'[c] + (IF r \in Owing(c) THEN 1 ELSE 0)
           /\ \/ reqs'[c] + (IF r \in Bumping(c)' THEN 1 ELSE 0) <= reqs[c] + (IF r \in Bumping(c) THEN 1 ELSE 0)
              \/ reqs'[c] < Rpm
  PROVE  AttemptInv'
<1>1. \A s \in Requests : loc'[s].min <= minute'
  BY DEF AttemptInv
<1>2. ASSUME NEW c \in Metered
      PROVE  /\ admitted'[c] + Cardinality(Owing(c)') <= reqs'[c] + Cardinality(Recall(c)')
             /\ Cardinality(Owing(c)') <= reqs'[c]
             /\ enabled' => reqs'[c] + Cardinality(Bumping(c)') <= Rpm + Overlap - 1
  <2>1. /\ Cardinality(Owing(c)) \in Nat /\ Cardinality(Bumping(c)) \in Nat
        /\ Cardinality(Owing(c)') \in Nat /\ Cardinality(Bumping(c)') \in Nat
        /\ Cardinality(Bumping(c)') <= Overlap
        /\ Cardinality(Recall(c)) \in Nat /\ reqs[c] \in Nat /\ admitted[c] \in Nat
        /\ Cardinality(Recall(c)') \in Nat /\ reqs'[c] \in Nat /\ admitted'[c] \in Nat
    BY AttemptTypes, AttemptTypesNext DEF Inv
  <2>2. /\ Cardinality(Owing(c)') + (IF r \in Owing(c) THEN 1 ELSE 0)
              = Cardinality(Owing(c)) + (IF r \in Owing(c)' THEN 1 ELSE 0)
        /\ Cardinality(Bumping(c)') + (IF r \in Bumping(c) THEN 1 ELSE 0)
              = Cardinality(Bumping(c)) + (IF r \in Bumping(c)' THEN 1 ELSE 0)
    BY AttemptMove
  <2>3. /\ admitted[c] + Cardinality(Owing(c)) <= reqs[c] + Cardinality(Recall(c))
        /\ Cardinality(Owing(c)) <= reqs[c]
        /\ enabled => reqs[c] + Cardinality(Bumping(c)) <= Rpm + Overlap - 1
    BY DEF AttemptInv
  <2>4. enabled' = enabled
    BY DEF HandleStep
  <2> QED BY <2>1, <2>2, <2>3, <2>4, OverlapType
<1> QED BY <1>1, <1>2 DEF AttemptInv

LEMMA MinType == ASSUME Inv, AttemptInv, NEW r \in Requests PROVE minute \in Nat /\ loc[r].min \in Nat /\ loc[r].min <= minute
BY SignInAssumption DEF Inv, TypeOK, AttemptInv, Locals

\* The in-memory limiter is asked, wherever the attempt stands with Redis.
LEMMA EnforceAttempt ==
  ASSUME Inv, Inv', AttemptInv, HandleStep, NEW r \in Requests, UNCHANGED <<mem, admitted>>,
         pc[r] \in {"lock", "count", "bump", "expireCount"}, MemEnforce(r),
         \A c \in Metered : /\ reqs[c] <= reqs'[c]
                           /\ reqs'[c] <= reqs[c] + (IF r \in Bumping(c) THEN 1 ELSE 0)
  PROVE  AttemptInv'
<1>1. minute \in Nat
  BY MinType
<1>2. /\ minute' = minute
      /\ \A s \in Requests : s # r => pc'[s] = pc[s] /\ loc'[s] = loc[s]
      /\ pc'[r] \notin {"bump", "expireCount"}
      /\ loc'[r].min <= minute
  BY <1>1, EnforceEffect DEF Blank
<1>3. \A c \in Metered : r \notin Owing(c)' /\ r \notin Bumping(c)' /\ Recall(c)' = Recall(c)
  BY <1>2, RecallSame DEF Owing, Bumping
<1>4. \A c \in Metered : /\ Cardinality(Recall(c)) \in Nat /\ admitted[c] \in Nat /\ reqs[c] \in Nat
                         /\ reqs'[c] \in Nat
  BY AttemptTypes, AttemptTypesNext DEF Inv
<1>5. ASSUME NEW c \in Metered
      PROVE  /\ admitted'[c] + (IF r \in Owing(c)' THEN 1 ELSE 0) + reqs[c] + Cardinality(Recall(c))
                  <= admitted[c] + (IF r \in Owing(c) THEN 1 ELSE 0) + reqs'[c] + Cardinality(Recall(c)')
             /\ (IF r \in Owing(c)' THEN 1 ELSE 0) + reqs[c] <= reqs'[c] + (IF r \in Owing(c) THEN 1 ELSE 0)
             /\ reqs'[c] + (IF r \in Bumping(c)' THEN 1 ELSE 0) <= reqs[c] + (IF r \in Bumping(c) THEN 1 ELSE 0)
  BY <1>3, <1>4
<1> QED BY <1>2, <1>5, AttemptCounted

\* An attempt is admitted in the minute of its time.
LEMMA AdmitCounts ==
  ASSUME Inv, NEW op \in Metered, NEW m, Admit(op, m)
  PROVE  /\ \A c \in Metered : admitted'[c] = admitted[c] + (IF c = op /\ m = minute THEN 1 ELSE 0)
         /\ late' = late + (IF m = minute THEN 0 ELSE 1)
<1>1. admitted \in [Metered -> Nat] /\ late \in Nat
  BY DEF Inv, TypeOK
<1>2. CASE m = minute
  BY <1>1, <1>2 DEF Admit
<1>3. CASE m # minute
  BY <1>1, <1>3 DEF Admit
<1> QED BY <1>2, <1>3

\* The in-memory limiter counts what it lets through.
LEMMA MemCountAttempt == ASSUME Inv, Inv', AttemptInv, NEW r \in Requests, MemCount(r) PROVE AttemptInv'
<1>1. HandleStep
  BY LimitingHandle DEF Limiting
<1> DEFINE p == loc[r].proc
           op == loc[r].op
<1>2. /\ \A s \in Requests : s # r => pc'[s] = pc[s] /\ loc'[s] = loc[s]
      /\ minute' = minute /\ pc[r] = "memory" /\ op \in Metered /\ p \in Procs /\ reqs' = reqs
      /\ \A q \in Procs, c \in Metered : q # p \/ c # op => mem'[q].reqs[c] = mem[q].reqs[c]
      /\ pc'[r] \in {"idle", "verify", "store"} /\ loc'[r].min = 0
  BY MemCountEffect DEF counters, Blank
<1>3. minute \in Nat /\ loc'[r].min <= minute
  BY <1>2, MinType
<1>4. \A c \in Metered : /\ r \notin Owing(c) /\ r \notin Owing(c)' /\ r \notin Bumping(c) /\ r \notin Bumping(c)'
                         /\ Cardinality(Recall(c)) \in Nat /\ admitted[c] \in Nat /\ reqs[c] \in Nat
                         /\ mem[p].reqs[c].new \in Nat
  BY <1>2, AttemptTypes DEF Owing, Bumping, Inv, TypeOK, Window
<1>5. ASSUME NEW c \in Metered PROVE admitted'[c] + Cardinality(Recall(c)) <= admitted[c] + Cardinality(Recall(c)')
  <2>1. CASE UNCHANGED admitted /\ mem'[p].reqs[op].new = mem[p].reqs[op].new
    <3>1. ASSUME NEW q \in Procs PROVE mem'[q].reqs[c].new = mem[q].reqs[c].new
      BY <1>2, <2>1
    <3>2. Recall(c)' = Recall(c)
      BY <3>1, RecallSame
    <3> QED BY <1>4, <2>1, <3>2
  <2>2. CASE /\ Admit(op, loc[r].min) /\ mem[p].reqs[op].new < Rpm
             /\ mem'[p].reqs[op].new = mem[p].reqs[op].new + (IF loc[r].min = minute THEN 1 ELSE 0)
    <3>1. admitted'[c] = admitted[c] + (IF c = op /\ loc[r].min = minute THEN 1 ELSE 0)
      BY <1>2, <2>2, AdmitCounts
    <3>2. CASE c = op /\ loc[r].min = minute
      <4>1. /\ mem'[p].reqs[c].new = mem[p].reqs[c].new + 1 /\ mem[p].reqs[c].new < Rpm
            /\ \A q \in Procs : q # p => mem'[q].reqs[c] = mem[q].reqs[c]
        BY <1>2, <2>2, <3>2
      <4>2. Cardinality(Recall(c)') = Cardinality(Recall(c)) + 1
        BY <1>2, <4>1, RecallMore DEF Inv
      <4> QED BY <1>4, <3>1, <3>2, <4>2
    <3>3. CASE ~(c = op /\ loc[r].min = minute)
      <4>1. mem[p].reqs[op].new \in Nat
        BY <1>2, <1>4
      <4>2. ASSUME NEW q \in Procs PROVE mem'[q].reqs[c].new = mem[q].reqs[c].new
        <5>1. CASE q = p /\ c = op
          BY <2>2, <3>3, <4>1, <5>1
        <5>2. CASE q # p \/ c # op
          BY <1>2, <5>2
        <5> QED BY <5>1, <5>2
      <4>3. Recall(c)' = Recall(c)
        BY <4>2, RecallSame
      <4> QED BY <1>4, <3>1, <3>3, <4>3
    <3> QED BY <3>2, <3>3
  <2> QED BY <2>1, <2>2, MemCountEffect
<1>6. \A c \in Metered : Cardinality(Recall(c)') \in Nat /\ admitted'[c] \in Nat
  BY AttemptTypesNext DEF Inv
<1> HIDE DEF p, op
<1>7. ASSUME NEW c \in Metered
      PROVE  /\ admitted'[c] + (IF r \in Owing(c)' THEN 1 ELSE 0) + reqs[c] + Cardinality(Recall(c))
                  <= admitted[c] + (IF r \in Owing(c) THEN 1 ELSE 0) + reqs'[c] + Cardinality(Recall(c)')
             /\ (IF r \in Owing(c)' THEN 1 ELSE 0) + reqs[c] <= reqs'[c] + (IF r \in Owing(c) THEN 1 ELSE 0)
             /\ reqs'[c] + (IF r \in Bumping(c)' THEN 1 ELSE 0) <= reqs[c] + (IF r \in Bumping(c) THEN 1 ELSE 0)
  BY <1>2, <1>4, <1>5, <1>6
<1> QED BY <1>1, <1>2, <1>3, <1>7, AttemptCounted

\* A step before the counting, of a request that is not let through by it.
LEMMA CheckLockAttempt == ASSUME Inv, Inv', AttemptInv, NEW r \in Requests, CheckLock(r) PROVE AttemptInv'
<1>1. HandleStep
  BY LimitingHandle DEF Limiting
<1>2. pc[r] = "lock" /\ UNCHANGED <<reqs, mem, admitted>>
  BY DEF CheckLock, limits, counters, history
<1>3. minute \in Nat
  BY MinType
<1>4. CASE MemEnforce(r)
  <2>1. \A c \in Metered : reqs[c] \in Nat
    BY AttemptTypes DEF Inv
  <2> QED BY <1>1, <1>2, <1>4, <2>1, EnforceAttempt
<1>5. CASE ~MemEnforce(r)
  <2>1. PICK l : l = [loc[r] EXCEPT !.min = minute]
    OBVIOUS
  <2>2. l.min = minute
    BY <2>1 DEF Inv, TypeOK, Locals
  <2>3. Done(r) \/ Go(r, "count", l) \/ Pass(r)
    <3>1. PICK o \in Outcomes :
            CASE o # "answered" -> MemEnforce(r)
              [] o = "answered" /\ Op(r) \in locks -> Done(r)
              [] o = "answered" /\ Op(r) = "login" /\ Op(r) \notin locks -> Go(r, "count", [loc[r] EXCEPT !.min = minute])
              [] OTHER -> Pass(r)
      BY Zenon DEF CheckLock
    <3>2. o = "answered"
      BY <1>5, <3>1, Zenon
    <3> QED BY <2>1, <3>1, <3>2, Zenon
  <2>4. loc[r].op \in {"login", "register", "apiKey", "admin"}
    BY <1>2 DEF Inv, PlaceInv, Fits, Scopes
  <2>5. /\ minute' = minute
        /\ \A s \in Requests : s # r => pc'[s] = pc[s] /\ loc'[s] = loc[s]
        /\ pc'[r] \in {"idle", "count", "verify", "store", "resolve"}
        /\ loc'[r].min \in {0, minute}
    BY <2>2, <2>3, <2>4, DoneFacts, GoFacts, PassFacts DEF Blank
  <2>6. loc'[r].min <= minute
    BY <1>3, <2>5
  <2> QED BY <1>1, <1>2, <2>5, <2>6, AttemptKept
<1> QED BY <1>4, <1>5

LEMMA CountAttempt == ASSUME Inv, Inv', AttemptInv, NEW r \in Requests, Count(r) PROVE AttemptInv'
<1>1. HandleStep
  BY LimitingHandle DEF Limiting
<1>2. pc[r] = "count" /\ UNCHANGED <<reqs, mem, admitted>> /\ loc[r] \in Locals
  BY DEF Count, limits, counters, history, Inv, TypeOK
<1>3. \A c \in Metered : /\ reqs[c] \in Nat /\ admitted[c] \in Nat /\ Cardinality(Recall(c)) \in Nat
  BY AttemptTypes DEF Inv
<1>4. CASE MemEnforce(r)
  BY <1>1, <1>2, <1>3, <1>4, EnforceAttempt
<1>5. CASE ~MemEnforce(r)
  <2>1. PICK m \in loc[r].min .. minute :
          Done(r) \/ ((m = minute => reqs[Op(r)] < Rpm) /\ Go(r, "bump", [loc[r] EXCEPT !.min = m]))
    BY <1>5 DEF Count
  <2>2. CASE Done(r)
    <3>1. /\ minute' = minute
          /\ \A s \in Requests : s # r => pc'[s] = pc[s] /\ loc'[s] = loc[s]
          /\ pc'[r] = "idle" /\ loc'[r].min = 0
      BY <2>2, DoneFacts DEF Blank
    <3>2. loc'[r].min <= minute
      BY <3>1, MinType
    <3> QED BY <1>1, <1>2, <3>1, <3>2, AttemptKept
  <2>3. CASE (m = minute => reqs[Op(r)] < Rpm) /\ Go(r, "bump", [loc[r] EXCEPT !.min = m])
    <3>1. PICK l : l = [loc[r] EXCEPT !.min = m]
      OBVIOUS
    <3>2. /\ minute' = minute
          /\ \A s \in Requests : s # r => pc'[s] = pc[s] /\ loc'[s] = loc[s]
          /\ pc'[r] = "bump" /\ loc'[r] = l
      BY <2>3, <3>1, GoFacts
    <3>3. loc'[r].min = m /\ loc'[r].op = loc[r].op
      BY <1>2, <3>1, <3>2 DEF Locals
    <3>4. loc'[r].min <= minute
      BY <2>1, <3>3, MinType
    <3>5. loc[r].op \in Metered
      BY <1>2 DEF Inv, PlaceInv, Fits
    <3>6. \A c \in Metered : /\ r \notin Owing(c) /\ r \notin Owing(c)' /\ r \notin Bumping(c)
                             /\ r \in Bumping(c)' <=> (c = loc[r].op /\ m = minute)
      BY <1>2, <3>2, <3>3 DEF Owing, Bumping
    <3>7. m = minute => reqs[loc[r].op] < Rpm
      BY <2>3 DEF Op
    <3>8. \A c \in Metered : Recall(c)' = Recall(c)
      BY <1>2, RecallSame
    <3>9. ASSUME NEW c \in Metered
          PROVE  /\ admitted'[c] + (IF r \in Owing(c)' THEN 1 ELSE 0) + reqs[c] + Cardinality(Recall(c))
                      <= admitted[c] + (IF r \in Owing(c) THEN 1 ELSE 0) + reqs'[c] + Cardinality(Recall(c)')
                 /\ (IF r \in Owing(c)' THEN 1 ELSE 0) + reqs[c] <= reqs'[c] + (IF r \in Owing(c) THEN 1 ELSE 0)
                 /\ \/ reqs'[c] + (IF r \in Bumping(c)' THEN 1 ELSE 0) <= reqs[c] + (IF r \in Bumping(c) THEN 1 ELSE 0)
                    \/ reqs'[c] < Rpm
      BY <1>2, <1>3, <3>6, <3>7, <3>8
    <3> QED BY <1>1, <3>2, <3>4, <3>9, AttemptCounted
  <2> QED BY <2>1, <2>2, <2>3
<1> QED BY <1>4, <1>5

LEMMA BumpAttempt == ASSUME Inv, Inv', AttemptInv, NEW r \in Requests, Bump(r) PROVE AttemptInv'
<1>1. HandleStep
  BY LimitingHandle DEF Limiting
<1>2. pc[r] = "bump" /\ loc[r].op \in Metered
  BY DEF Bump, Inv, PlaceInv, Fits
<1>3. /\ \A c \in Metered : reqs[c] \in Nat /\ reqs'[c] \in Nat /\ admitted[c] \in Nat /\ Cardinality(Recall(c)) \in Nat
      /\ reqs \in [Metered -> Nat]
  BY AttemptTypes, AttemptTypesNext DEF Inv, TypeOK
<1>4. PICK o \in Outcomes, first \in BOOLEAN :
        /\ reqs' = IF loc[r].min = minute /\ TookEffect(o) THEN [reqs EXCEPT ![loc[r].op] = @ + 1] ELSE reqs
        /\ o # "answered" => MemEnforce(r) /\ UNCHANGED <<admitted, late>>
        /\ o = "answered" /\ first => Go(r, "expireCount", loc[r]) /\ UNCHANGED <<admitted, late>>
        /\ o = "answered" /\ ~first => Pass(r) /\ Admit(loc[r].op, loc[r].min)
  BY BumpFacts
<1>5. \A c \in Metered : reqs'[c] = reqs[c] + (IF c = loc[r].op /\ loc[r].min = minute /\ TookEffect(o) THEN 1 ELSE 0)
  BY <1>2, <1>3, <1>4
<1>6. \A c \in Metered : r \notin Owing(c) /\ (r \in Bumping(c) <=> c = loc[r].op /\ loc[r].min = minute)
  BY <1>2 DEF Owing, Bumping
<1>7. minute \in Nat /\ loc[r].min \in Nat /\ loc[r].min <= minute
  BY MinType
<1>8. CASE o # "answered"
  <2>1. UNCHANGED <<mem, admitted>> /\ MemEnforce(r)
    BY <1>4, <1>8 DEF Bump
  <2> QED BY <1>1, <1>2, <1>3, <1>5, <1>6, <2>1, EnforceAttempt
<1>9. CASE o = "answered"
  <2>1. \A c \in Metered : reqs'[c] = reqs[c] + (IF c = loc[r].op /\ loc[r].min = minute THEN 1 ELSE 0)
    BY <1>5, <1>9 DEF TookEffect
  <2>2. \A c \in Metered : Recall(c)' = Recall(c)
    BY RecallSame DEF Bump
  <2>3. CASE first
    <3>1. admitted' = admitted /\ Go(r, "expireCount", loc[r])
      BY <1>4, <1>9, <2>3
    <3>2. /\ minute' = minute
          /\ \A s \in Requests : s # r => pc'[s] = pc[s] /\ loc'[s] = loc[s]
          /\ pc'[r] = "expireCount" /\ loc'[r] = loc[r]
      BY <3>1, GoFacts
    <3>3. \A c \in Metered : r \notin Bumping(c)' /\ (r \in Owing(c)' <=> c = loc[r].op /\ loc[r].min = minute)
      BY <3>2 DEF Owing, Bumping
    <3>4. loc'[r].min <= minute
      BY <1>7, <3>2
    <3> QED BY <1>1, <1>3, <1>6, <2>1, <2>2, <3>1, <3>2, <3>3, <3>4, AttemptCounted
  <2>4. CASE ~first
    <3>1. Admit(loc[r].op, loc[r].min) /\ Pass(r)
      BY <1>4, <1>9, <2>4
    <3>2. loc[r].op \in {"login", "register", "apiKey", "admin"}
      BY <1>2 DEF Metered
    <3>3. /\ minute' = minute
          /\ \A s \in Requests : s # r => pc'[s] = pc[s] /\ loc'[s] = loc[s]
          /\ pc'[r] \in {"verify", "store", "resolve"} /\ loc'[r].min = 0
      BY <3>1, <3>2, PassFacts
    <3>4. \A c \in Metered : r \notin Bumping(c)' /\ r \notin Owing(c)'
      BY <3>3 DEF Owing, Bumping
    <3>5. loc'[r].min <= minute
      BY <1>7, <3>3
    <3>6. \A c \in Metered : admitted'[c] = admitted[c] + (IF c = loc[r].op /\ loc[r].min = minute THEN 1 ELSE 0)
      BY <1>2, <3>1, AdmitCounts
    <3> QED BY <1>1, <1>3, <1>6, <2>1, <2>2, <3>3, <3>4, <3>5, <3>6, AttemptCounted
  <2> QED BY <2>3, <2>4
<1> QED BY <1>8, <1>9

LEMMA ExpireCountAttempt == ASSUME Inv, Inv', AttemptInv, NEW r \in Requests, ExpireCount(r) PROVE AttemptInv'
<1>1. HandleStep
  BY LimitingHandle DEF Limiting
<1>2. pc[r] = "expireCount" /\ loc[r].op \in Metered /\ UNCHANGED <<reqs, mem>>
  BY DEF ExpireCount, limits, counters, Inv, PlaceInv, Fits
<1>3. \A c \in Metered : reqs[c] \in Nat /\ admitted[c] \in Nat /\ Cardinality(Recall(c)) \in Nat
  BY AttemptTypes DEF Inv
<1>4. minute \in Nat /\ loc[r].min \in Nat /\ loc[r].min <= minute
  BY MinType
<1>5. CASE MemEnforce(r) /\ UNCHANGED admitted
  BY <1>1, <1>2, <1>3, <1>5, EnforceAttempt
<1>6. CASE ~(MemEnforce(r) /\ UNCHANGED admitted)
  <2>1. Admit(loc[r].op, loc[r].min) /\ Pass(r)
    BY <1>6 DEF ExpireCount, Op
  <2>2. loc[r].op \in {"login", "register", "apiKey", "admin"}
    BY <1>2 DEF Metered
  <2>3. /\ minute' = minute
        /\ \A s \in Requests : s # r => pc'[s] = pc[s] /\ loc'[s] = loc[s]
        /\ pc'[r] \in {"verify", "store", "resolve"} /\ loc'[r].min = 0
    BY <2>1, <2>2, PassFacts
  <2>4. \A c \in Metered : /\ r \notin Bumping(c)' /\ r \notin Owing(c)' /\ r \notin Bumping(c)
                           /\ r \in Owing(c) <=> c = loc[r].op /\ loc[r].min = minute
    BY <1>2, <2>3 DEF Owing, Bumping
  <2>5. loc'[r].min <= minute
    BY <1>4, <2>3
  <2>6. \A c \in Metered : admitted'[c] = admitted[c] + (IF c = loc[r].op /\ loc[r].min = minute THEN 1 ELSE 0)
    BY <1>2, <2>1, AdmitCounts
  <2>7. \A c \in Metered : Recall(c)' = Recall(c)
    BY <1>2, RecallSame
  <2> QED BY <1>1, <1>2, <1>3, <2>3, <2>4, <2>5, <2>6, <2>7, AttemptCounted
<1> QED BY <1>5, <1>6

\* The steps of a request that meter nothing.
LEMMA RestFacts ==
  ASSUME Inv, NEW r \in Requests,
         \/ Arrive(r) \/ Verify(r) \/ Fail(r) \/ ExpireFails(r) \/ SetLock(r) \/ MemFailure(r)
         \/ ClearFails(r) \/ ClearLock(r) \/ Session(r)
  PROVE  /\ \A s \in Requests : s # r => pc'[s] = pc[s] /\ loc'[s] = loc[s]
         /\ UNCHANGED <<minute, reqs, admitted, late>>
         /\ pc'[r] \notin {"bump", "expireCount", "memory"}
         /\ pc'[r] = "count" => loc'[r].min = minute
         /\ loc'[r].min \in {0, minute, loc[r].min}
         /\ \A p \in Procs : mem'[p].reqs = mem[p].reqs
<1>1. Blank.min = 0
  BY DEF Blank
<1>2. Fits(pc[r], loc[r]) /\ loc[r] \in Locals
  BY DEF Inv, PlaceInv, TypeOK
<1>3. CASE Arrive(r)
  BY <1>3, ArriveFacts DEF Arrive, limits, counters, history
<1>4. CASE Verify(r)
  <2>1. /\ pc[r] = "verify" /\ UNCHANGED <<counters, admitted, late>>
        /\ (mem' = mem /\ Go(r, "fail", loc[r])) \/ (MemSuccess(r) /\ Go(r, "clearFails", loc[r]))
    BY <1>4 DEF Verify
  <2>2. loc[r].proc \in Procs /\ loc[r].op \in Scopes
    BY <1>2, <2>1 DEF Fits, Scopes
  <2> QED BY <2>1, <2>2, MemorySuccess, GoFacts DEF counters
<1>5. CASE Fail(r)
  <2>1. pc[r] = "fail" /\ UNCHANGED <<reqs, mem, admitted, late>>
    BY <1>5 DEF Fail, history
  <2>2. PICK l : /\ l.min = loc[r].min
                 /\ \/ Go(r, "expireFails", l) \/ Go(r, "setLock", l) \/ Done(r)
                    \/ Go(r, "memFail", loc[r])
    BY <1>5, FailMoves
  <2> QED BY <1>1, <2>1, <2>2, DoneFacts, GoFacts
<1>6. CASE ExpireFails(r) \/ SetLock(r)
  <2>1. UNCHANGED <<reqs, mem, admitted, late>>
    BY <1>6 DEF ExpireFails, SetLock, history
  <2>2. Done(r) \/ Go(r, "setLock", loc[r]) \/ Go(r, "memFail", loc[r])
    <3>1. CASE ExpireFails(r)
      BY <3>1, Zenon DEF ExpireFails
    <3>2. CASE SetLock(r)
      BY <3>2 DEF SetLock
    <3> QED BY <1>6, <3>1, <3>2
  <2> QED BY <1>1, <2>1, <2>2, DoneFacts, GoFacts
<1>7. CASE MemFailure(r)
  <2>1. pc[r] = "memFail" /\ UNCHANGED <<counters, admitted, late>>
    BY <1>7 DEF MemFailure, history
  <2>2. loc[r].proc \in Procs /\ loc[r].op \in Scopes
    BY <1>2, <2>1 DEF Fits, Scopes
  <2> QED BY <1>1, <1>7, <2>1, <2>2, MemoryFailure, DoneFacts DEF counters
<1>8. CASE ClearFails(r) \/ ClearLock(r)
  <2>1. /\ UNCHANGED <<reqs, mem, admitted, late>>
        /\ Done(r) \/ Go(r, "clearLock", loc[r]) \/ Go(r, "store", loc[r])
    BY <1>8 DEF ClearFails, ClearLock, Cleared
  <2> QED BY <1>1, <2>1, DoneFacts, GoFacts
<1>9. CASE Session(r)
  <2>1. UNCHANGED <<limits, admitted, late>> /\ (Done(r) \/ Go(r, "drop", loc[r]) \/ Go(r, "fail", loc[r]))
    BY <1>9, ResolveMoves DEF Session, Store, Resolve, Drop, history
  <2> QED BY <1>1, <2>1, DoneFacts, GoFacts DEF limits, counters
<1> QED BY <1>3, <1>4, <1>5, <1>6, <1>7, <1>8, <1>9

\* Steps in which no request moves.
LEMMA AttemptSame ==
  ASSUME Inv, Inv', AttemptInv, HandleStep, UNCHANGED <<pc, loc, minute, reqs, admitted>>,
         \A p \in Procs : mem'[p].reqs = mem[p].reqs
  PROVE  AttemptInv'
<1>1. \A c \in Metered : Owing(c)' = Owing(c) /\ Bumping(c)' = Bumping(c)
  BY DEF Owing, Bumping
<1>2. \A c \in Metered : Recall(c)' = Recall(c)
  BY RecallSame
<1> QED BY <1>1, <1>2 DEF AttemptInv, HandleStep

LEMMA NextMinuteAttempt == ASSUME Inv, Inv', AttemptInv, NextMinute PROVE AttemptInv'
<1>1. /\ minute' = minute + 1 /\ UNCHANGED <<pc, loc, enabled>>
      /\ reqs' = [c \in Metered |-> 0] /\ admitted' = [c \in Metered |-> 0]
  BY DEF NextMinute, Passing, redis
<1>2. \A r \in Requests : loc[r].min < minute'
  BY <1>1, MinType
<1>3. \A r \in Requests : loc'[r].min <= minute' /\ loc'[r].min # minute'
  <2> TAKE r \in Requests
  <2> QED BY <1>1, <1>2, MinType
<1>4. ASSUME NEW c \in Metered PROVE Cardinality(Owing(c)') = 0 /\ Cardinality(Bumping(c)') = 0
  <2>1. Owing(c)' = {} /\ Bumping(c)' = {}
    BY <1>3 DEF Owing, Bumping
  <2> QED BY <2>1, FS_EmptySet
<1>5. \A c \in Metered : reqs'[c] = 0 /\ admitted'[c] = 0 /\ Cardinality(Recall(c)') \in Nat
  BY <1>1, AttemptTypesNext DEF Inv
<1> QED BY <1>3, <1>4, <1>5, OverlapType DEF AttemptInv

LEMMA CrashAttempt == ASSUME Inv, Inv', AttemptInv, HandleStep, NEW p \in Procs, Crash(p) PROVE AttemptInv'
<1>1. /\ minute' = minute /\ reqs' = reqs /\ admitted' = [c \in Metered |-> 0]
      /\ \A r \in Requests : (pc'[r] = "idle" /\ loc'[r] = Blank) \/ (pc'[r] = pc[r] /\ loc'[r] = loc[r])
  BY DEF Crash, counters
<1>2. \A r \in Requests : loc'[r].min <= minute'
  <2> TAKE r \in Requests
  <2> QED BY <1>1, MinType DEF Blank
<1>3. ASSUME NEW c \in Metered
      PROVE  Cardinality(Owing(c)') <= Cardinality(Owing(c)) /\ Cardinality(Bumping(c)') <= Cardinality(Bumping(c))
  <2>1. Owing(c)' \in SUBSET Owing(c) /\ Owing(c) \in SUBSET Requests
    BY <1>1 DEF Owing
  <2>2. Bumping(c)' \in SUBSET Bumping(c) /\ Bumping(c) \in SUBSET Requests
    BY <1>1 DEF Bumping
  <2>3. IsFiniteSet(Owing(c)) /\ IsFiniteSet(Bumping(c))
    BY <2>1, <2>2, OverlapType, CountPart
  <2> QED BY <2>1, <2>2, <2>3, CountPart
<1>4. ASSUME NEW c \in Metered
      PROVE  /\ admitted'[c] + Cardinality(Owing(c)') <= reqs'[c] + Cardinality(Recall(c)')
             /\ Cardinality(Owing(c)') <= reqs'[c]
             /\ enabled' => reqs'[c] + Cardinality(Bumping(c)') <= Rpm + Overlap - 1
  <2>1. /\ Cardinality(Owing(c)) \in Nat /\ Cardinality(Bumping(c)) \in Nat
        /\ Cardinality(Owing(c)') \in Nat /\ Cardinality(Bumping(c)') \in Nat
        /\ Cardinality(Recall(c)') \in Nat /\ reqs[c] \in Nat
    BY AttemptTypes, AttemptTypesNext DEF Inv
  <2>2. /\ Cardinality(Owing(c)) <= reqs[c]
        /\ enabled => reqs[c] + Cardinality(Bumping(c)) <= Rpm + Overlap - 1
    BY DEF AttemptInv
  <2>3. reqs'[c] = reqs[c] /\ admitted'[c] = 0 /\ enabled' = enabled
    BY <1>1 DEF HandleStep
  <2> QED BY <1>3, <2>1, <2>2, <2>3, OverlapType
<1> QED BY <1>2, <1>4 DEF AttemptInv

LEMMA AttemptStep == ASSUME Inv, Inv', AttemptInv, [Next]_vars PROVE AttemptInv'
<1>1. HandleStep
  BY NextHandle
<1>2. CASE \E r \in Requests : CheckLock(r) \/ Count(r) \/ Bump(r) \/ ExpireCount(r) \/ MemCount(r)
  BY <1>2, CheckLockAttempt, CountAttempt, BumpAttempt, ExpireCountAttempt, MemCountAttempt
<1>3. CASE \E r \in Requests :
             \/ Arrive(r) \/ Verify(r) \/ Fail(r) \/ ExpireFails(r) \/ SetLock(r) \/ MemFailure(r)
             \/ ClearFails(r) \/ ClearLock(r) \/ Session(r)
  <2>1. PICK r \in Requests :
             \/ Arrive(r) \/ Verify(r) \/ Fail(r) \/ ExpireFails(r) \/ SetLock(r) \/ MemFailure(r)
             \/ ClearFails(r) \/ ClearLock(r) \/ Session(r)
    BY <1>3
  <2>2. /\ \A s \in Requests : s # r => pc'[s] = pc[s] /\ loc'[s] = loc[s]
        /\ UNCHANGED <<minute, reqs, admitted>>
        /\ pc'[r] \notin {"bump", "expireCount"}
        /\ loc'[r].min \in {0, minute, loc[r].min}
        /\ \A p \in Procs : mem'[p].reqs = mem[p].reqs
    BY <2>1, RestFacts
  <2>3. loc'[r].min <= minute
    BY <2>2, MinType
  <2> QED BY <1>1, <2>2, <2>3, AttemptKept
<1>4. CASE \E s \in Scopes : FailWindow(s) \/ LockEnds(s)
  BY <1>1, <1>4, AttemptSame DEF FailWindow, LockEnds, Passing
<1>5. CASE \E p \in Procs, s \in Scopes : MemAge(p, s) \/ MemLockEnds(p, s)
  <2>1. PICK p \in Procs, s \in Scopes : MemAge(p, s) \/ MemLockEnds(p, s)
    BY <1>5
  <2>2. mem \in [Procs -> Memory]
    BY DEF Inv, TypeOK, Memory
  <2>3. \/ \E n : mem' = [mem EXCEPT ![p] = [mem[p] EXCEPT !.fails = n]]
        \/ \E L : mem' = [mem EXCEPT ![p] = [mem[p] EXCEPT !.locks = L]]
    BY <2>1 DEF MemAge, MemLockEnds
  <2>4. \A q \in Procs : mem'[q].reqs = mem[q].reqs
    BY <2>2, <2>3 DEF Memory
  <2> QED BY <1>1, <2>1, <2>4, AttemptSame DEF MemAge, MemLockEnds, Passing, counters
<1>6. CASE (\E t \in Tokens : SessionExpires(t)) \/ (\E p \in Procs : BreakerCloses(p)) \/ UNCHANGED vars
  BY <1>1, <1>6, AttemptSame DEF SessionExpires, BreakerCloses, vars, limits, counters, history
<1>7. CASE \E p \in Procs : Crash(p)
  BY <1>1, <1>7, CrashAttempt
<1>8. CASE NextMinute
  BY <1>8, NextMinuteAttempt
<1> QED BY <1>2, <1>3, <1>4, <1>5, <1>6, <1>7, <1>8 DEF Next, Limiting

\* A request moves: what it is let through with the time of an earlier minute
\* was among the stale ones.
LEMMA LateMove ==
  ASSUME Inv, Inv', LateInv, minute' = minute, NEW r \in Requests,
         \A s \in Requests : s # r => pc'[s] = pc[s] /\ loc'[s] = loc[s],
         late' + (IF r \in Stale' THEN 1 ELSE 0) <= late + (IF r \in Stale THEN 1 ELSE 0)
  PROVE  LateInv'
<1>1. /\ Stale \in SUBSET Requests /\ Stale' \in SUBSET Requests
      /\ \A s \in Requests : s # r => (s \in Stale <=> s \in Stale')
  BY DEF Stale
<1>2. /\ Cardinality(Stale) \in Nat /\ Cardinality(Stale') \in Nat
      /\ Cardinality(Stale') + (IF r \in Stale THEN 1 ELSE 0) = Cardinality(Stale) + (IF r \in Stale' THEN 1 ELSE 0)
  BY <1>1, OverlapType, CountOne
<1>3. late \in Nat /\ late' \in Nat /\ Overlap \in Nat
  BY OverlapType DEF Inv, TypeOK
<1>4. Overlap' = Overlap
  BY Zenon DEF Overlap
<1> QED BY <1>2, <1>3, <1>4 DEF LateInv

\* Nobody is late yet when a minute begins or the counting starts again.
LEMMA LateAnew == ASSUME late' = 0 PROVE LateInv'
<1>1. Stale' \in SUBSET Requests
  BY DEF Stale
<1>2. Cardinality(Stale') \in Nat /\ Cardinality(Stale') <= Overlap
  BY <1>1, OverlapType, CountPart DEF Overlap
<1>3. Overlap' = Overlap
  BY Zenon DEF Overlap
<1> QED BY <1>2, <1>3 DEF LateInv

LEMMA LateSame == ASSUME LateInv, UNCHANGED <<pc, loc, minute, late>> PROVE LateInv'
<1>1. Stale' = Stale
  BY DEF Stale
<1>2. Overlap' = Overlap
  BY Zenon DEF Overlap
<1> QED BY <1>1, <1>2 DEF LateInv

LEMMA LateStep == ASSUME Inv, Inv', AttemptInv, LateInv, [Next]_vars PROVE LateInv'
<1>1. late \in Nat /\ minute \in Nat
  BY SignInAssumption DEF Inv, TypeOK
<1>2. ASSUME NEW r \in Requests, pc[r] \in {"lock", "count", "bump", "expireCount"}, MemEnforce(r), late' = late
      PROVE  LateInv'
  <2>1. /\ minute' = minute
        /\ \A s \in Requests : s # r => pc'[s] = pc[s] /\ loc'[s] = loc[s]
        /\ r \notin Stale'
    BY <1>2, EnforceEffect DEF Stale
  <2> QED BY <1>1, <1>2, <2>1, LateMove
<1>3. ASSUME NEW r \in Requests, pc[r] \in {"lock", "bump", "expireCount"}, Pass(r), late' = late \/ Admit(loc[r].op, loc[r].min),
             pc[r] = "lock" => late' = late
      PROVE  LateInv'
  <2>1. loc[r].op \in {"login", "register", "apiKey", "admin"} /\ (pc[r] # "lock" => loc[r].op \in Metered)
    BY <1>3 DEF Inv, PlaceInv, Fits, Scopes, Metered
  <2>2. /\ minute' = minute
        /\ \A s \in Requests : s # r => pc'[s] = pc[s] /\ loc'[s] = loc[s]
        /\ r \notin Stale'
    BY <1>3, <2>1, PassFacts DEF Stale
  <2>3. late' <= late + (IF r \in Stale THEN 1 ELSE 0)
    <3>1. CASE late' = late
      BY <1>1, <3>1
    <3>2. CASE late' # late
      <4>1. pc[r] \in {"bump", "expireCount"} /\ late' = late + (IF loc[r].min = minute THEN 0 ELSE 1)
        BY <1>3, <2>1, <3>2, AdmitCounts
      <4> QED BY <1>1, <4>1 DEF Stale
    <3> QED BY <3>1, <3>2
  <2>4. late' \in Nat
    BY DEF Inv, TypeOK
  <2> QED BY <1>1, <2>2, <2>3, <2>4, LateMove
<1>4. CASE \E r \in Requests : CheckLock(r)
  <2>1. PICK r \in Requests : CheckLock(r)
    BY <1>4
  <2>2. pc[r] = "lock" /\ late' = late
    BY <2>1 DEF CheckLock, history
  <2>3. PICK l : l = [loc[r] EXCEPT !.min = minute]
    OBVIOUS
  <2>4. MemEnforce(r) \/ Done(r) \/ Go(r, "count", l) \/ Pass(r)
    BY <2>1, <2>3, Zenon DEF CheckLock
  <2>5. l.min = minute
    BY <2>3 DEF Inv, TypeOK, Locals
  <2>6. CASE Done(r) \/ Go(r, "count", l)
    <3>1. /\ minute' = minute
          /\ \A s \in Requests : s # r => pc'[s] = pc[s] /\ loc'[s] = loc[s]
          /\ r \notin Stale'
      BY <2>5, <2>6, DoneFacts, GoFacts DEF Stale
    <3> QED BY <1>1, <2>2, <3>1, LateMove
  <2> QED BY <1>2, <1>3, <2>2, <2>4, <2>6
<1>5. CASE \E r \in Requests : Count(r)
  <2>1. PICK r \in Requests : Count(r)
    BY <1>5
  <2>2. pc[r] = "count" /\ late' = late /\ loc[r] \in Locals
    BY <2>1 DEF Count, history, Inv, TypeOK
  <2>3. CASE MemEnforce(r)
    BY <1>2, <2>2, <2>3
  <2>4. CASE ~MemEnforce(r)
    <3>1. PICK m \in loc[r].min .. minute : Done(r) \/ Go(r, "bump", [loc[r] EXCEPT !.min = m])
      BY <2>1, <2>4 DEF Count
    <3>2. PICK l : l = [loc[r] EXCEPT !.min = m]
      OBVIOUS
    <3>3. l.min = m /\ (m # minute => loc[r].min # minute)
      BY <1>1, <2>2, <3>1, <3>2, MinType DEF Locals
    <3>4. /\ minute' = minute
          /\ \A s \in Requests : s # r => pc'[s] = pc[s] /\ loc'[s] = loc[s]
          /\ (pc'[r] = "idle" \/ loc'[r] = l)
      BY <3>1, <3>2, DoneFacts, GoFacts
    <3>5. r \in Stale' => r \in Stale
      BY <2>2, <3>3, <3>4 DEF Stale
    <3> QED BY <1>1, <2>2, <3>4, <3>5, LateMove
  <2> QED BY <2>3, <2>4
<1>6. CASE \E r \in Requests : Bump(r)
  <2>1. PICK r \in Requests : Bump(r)
    BY <1>6
  <2>2. pc[r] = "bump"
    BY <2>1 DEF Bump
  <2>3. \/ MemEnforce(r) /\ late' = late
        \/ Go(r, "expireCount", loc[r]) /\ late' = late
        \/ Pass(r) /\ Admit(loc[r].op, loc[r].min)
    BY <2>1, BumpFacts
  <2>4. CASE Go(r, "expireCount", loc[r]) /\ late' = late
    <3>1. /\ minute' = minute
          /\ \A s \in Requests : s # r => pc'[s] = pc[s] /\ loc'[s] = loc[s]
          /\ r \in Stale' => r \in Stale
      BY <2>2, <2>4, GoFacts DEF Stale
    <3> QED BY <1>1, <2>4, <3>1, LateMove
  <2> QED BY <1>2, <1>3, <2>2, <2>3, <2>4
<1>7. CASE \E r \in Requests : ExpireCount(r)
  <2>1. PICK r \in Requests : ExpireCount(r)
    BY <1>7
  <2>2. pc[r] = "expireCount"
    BY <2>1 DEF ExpireCount
  <2>3. \/ MemEnforce(r) /\ late' = late
        \/ Pass(r) /\ Admit(loc[r].op, loc[r].min)
    BY <2>1 DEF ExpireCount, Op
  <2> QED BY <1>2, <1>3, <2>2, <2>3
<1>8. CASE \E r \in Requests : MemCount(r)
  <2>1. PICK r \in Requests : MemCount(r)
    BY <1>8
  <2>2. /\ minute' = minute /\ loc[r].op \in Metered
        /\ \A s \in Requests : s # r => pc'[s] = pc[s] /\ loc'[s] = loc[s]
        /\ r \notin Stale' /\ pc[r] = "memory"
        /\ late' = late \/ Admit(loc[r].op, loc[r].min)
    BY <2>1, MemCountEffect DEF Stale
  <2>3. late' = late \/ late' = late + (IF loc[r].min = minute THEN 0 ELSE 1)
    BY <2>2, AdmitCounts
  <2>4. late' <= late + (IF r \in Stale THEN 1 ELSE 0)
    BY <1>1, <2>2, <2>3 DEF Stale
  <2>5. late' \in Nat
    BY DEF Inv, TypeOK
  <2> QED BY <1>1, <2>2, <2>4, <2>5, LateMove
<1>9. CASE \E r \in Requests :
             \/ Arrive(r) \/ Verify(r) \/ Fail(r) \/ ExpireFails(r) \/ SetLock(r) \/ MemFailure(r)
             \/ ClearFails(r) \/ ClearLock(r) \/ Session(r)
  <2>1. PICK r \in Requests :
             \/ Arrive(r) \/ Verify(r) \/ Fail(r) \/ ExpireFails(r) \/ SetLock(r) \/ MemFailure(r)
             \/ ClearFails(r) \/ ClearLock(r) \/ Session(r)
    BY <1>9
  <2>2. /\ \A s \in Requests : s # r => pc'[s] = pc[s] /\ loc'[s] = loc[s]
        /\ minute' = minute /\ late' = late /\ r \notin Stale'
    BY <2>1, RestFacts DEF Stale
  <2> QED BY <1>1, <2>2, LateMove
<1>10. CASE \/ \E s \in Scopes : FailWindow(s) \/ LockEnds(s)
            \/ \E p \in Procs, s \in Scopes : MemAge(p, s) \/ MemLockEnds(p, s)
            \/ \E t \in Tokens : SessionExpires(t)
            \/ \E p \in Procs : BreakerCloses(p)
            \/ UNCHANGED vars
  BY <1>10, LateSame DEF FailWindow, LockEnds, MemAge, MemLockEnds, Passing, SessionExpires, BreakerCloses,
     vars, history
<1>11. CASE NextMinute \/ \E p \in Procs : Crash(p)
  BY <1>11, LateAnew DEF NextMinute, Crash
<1> QED BY <1>4, <1>5, <1>6, <1>7, <1>8, <1>9, <1>10, <1>11 DEF Next, Limiting

-----------------------------------------------------------------------------
(* Guesses.                                                                *)

FlyingAt(q, l) == q \in {"count", "bump", "expireCount", "memory", "verify", "fail", "memFail"} /\ l.op = "login"

\* Logins past the check of the lock.
Flying == {r \in Requests : FlyingAt(pc[r], loc[r])}

\* Logins whose failure is not counted yet.
Failing == {r \in Requests : pc[r] \in {"fail", "memFail"} /\ loc[r].op = "login"}

\* Logins on their way to set the lock.
Closing == {r \in Requests : /\ pc[r] \in {"expireFails", "setLock"} /\ loc[r].op = "login"
                             /\ loc[r].n >= Threshold}

\* The place where a failure of a request at q in process p would be counted now
\* is locked.  One at "memFail" is bound for the memory.
Shut(q, p) == IF q # "memFail" /\ Available(p) THEN "login" \in locks ELSE "login" \in mem[p].locks

\* Logins that passed a check elsewhere, or before the lock.
Stray == {r \in Flying : Shut(pc[r], loc[r].proc)}

\* Processes whose own memory is locked.
Lockers == {p \in Procs : "login" \in mem[p].locks}

\* The failures short of the threshold that each place has counted.
Noted == IF fails["login"].n < Threshold - 1 THEN fails["login"].n ELSE Threshold - 1
Tally == Under(Procs, Threshold - 1, [p \in Procs |-> mem[p].fails["login"]])

\* What a lock costs: it can be set while every request is past its check.
Held == IF "login" \in locks THEN Overlap ELSE Cardinality(Closing)
HeldInMemory == Overlap * Cardinality(Lockers)

\* What the breakers cost: each opens and closes, and each time everybody may
\* be past a check of another place.
Opened == Overlap * Cardinality(Open)
Budget == IF enabled THEN 2 * Overlap * faults ELSE 0

\* Every guess was counted where it was looked at, or is about to be, or was
\* past the check of a place that locked since.
GuessInv ==
  guesses + Cardinality(Stray) + Opened
    <= Noted + Cardinality(Tally) + Cardinality(Failing) + Held + HeldInMemory + Budget

LEMMA Multiples ==
  ASSUME NEW n \in Nat, NEW a \in Nat, NEW b \in Nat
  PROVE  /\ n * a \in Nat
         /\ b = a => n * b = n * a
         /\ b = a + 1 => n * b = n * a + n
         /\ a < b => n * a + n <= n * b
         /\ a <= b => n * a <= n * b
<1>1. n * a \in Nat
  OBVIOUS
<1>2. b = a + 1 => n * b = n * a + n
  OBVIOUS
<1>3. ASSUME a < b PROVE n * a + n <= n * b
  <2>1. PICK d \in Nat : b = a + 1 + d
    <3>1. b - a - 1 \in Nat /\ b = a + 1 + (b - a - 1)
      BY <1>3
    <3> QED BY <3>1
  <2>2. n * b = n * a + n + n * d /\ n * d \in Nat
    BY <2>1
  <2> QED BY <1>1, <2>2
<1>4. a <= b => n * a <= n * b
  <2>1. CASE a = b
    BY <1>1, <2>1
  <2>2. CASE a < b
    <3>1. n * b \in Nat
      OBVIOUS
    <3> QED BY <1>1, <1>3, <2>2, <3>1
  <2> QED BY <2>1, <2>2
<1> QED BY <1>1, <1>2, <1>3, <1>4

LEMMA GuessTypes ==
  ASSUME TypeOK
  PROVE  /\ guesses \in Nat /\ Noted \in Nat /\ fails["login"].n \in Nat
         /\ Cardinality(Tally) \in Nat /\ Cardinality(Open) \in Nat /\ Cardinality(Lockers) \in Nat
         /\ Cardinality(Flying) \in Nat /\ Cardinality(Failing) \in Nat
         /\ Cardinality(Closing) \in Nat /\ Cardinality(Stray) \in Nat
         /\ Cardinality(Flying) + Cardinality(Closing) <= Overlap
         /\ Cardinality(Failing) <= Cardinality(Flying) /\ Cardinality(Stray) <= Cardinality(Flying)
         /\ Held \in Nat /\ HeldInMemory \in Nat /\ Opened \in Nat /\ Budget \in Nat
         /\ [p \in Procs |-> mem[p].fails["login"]] \in [Procs -> Nat]
<1>1. /\ Flying \in SUBSET Requests /\ Closing \in SUBSET Requests
      /\ Failing \in SUBSET Flying /\ Stray \in SUBSET Flying /\ Flying \cap Closing = {}
  BY DEF Flying, FlyingAt, Closing, Failing, Stray
<1>2. /\ IsFiniteSet(Flying)
      /\ Cardinality(Flying) \in Nat /\ Cardinality(Closing) \in Nat
      /\ Cardinality(Flying) + Cardinality(Closing) <= Overlap
  BY <1>1, OverlapType, CountPart, CountApart DEF Overlap
<1>3. /\ Cardinality(Failing) \in Nat /\ Cardinality(Stray) \in Nat
      /\ Cardinality(Failing) <= Cardinality(Flying) /\ Cardinality(Stray) <= Cardinality(Flying)
  BY <1>1, <1>2, CountPart
<1>4. Open \in SUBSET Procs /\ Lockers \in SUBSET Procs
  BY DEF Open, Lockers
<1>5. Cardinality(Open) \in Nat /\ Cardinality(Lockers) \in Nat
  BY <1>4, OverlapType, CountPart
<1>6. Threshold - 1 \in Nat
  BY OverlapType
<1>7. Cardinality(Tally) \in Nat
  BY <1>6, OverlapType, UnderCount DEF Tally
<1>8. fails["login"].n \in Nat
  BY DEF TypeOK, Scopes
<1>9. Noted \in Nat
  BY <1>6, <1>8 DEF Noted
<1>10. Held \in Nat
  BY <1>2, OverlapType DEF Held
<1>11. HeldInMemory \in Nat /\ Opened \in Nat
  BY <1>5, OverlapType, Multiples DEF HeldInMemory, Opened
<1>12. Budget \in Nat
  <2>1. 2 * Overlap \in Nat /\ faults \in Nat
    BY OverlapType, RedisAssumption DEF TypeOK, HandleTypeOK
  <2>2. 2 * Overlap * faults \in Nat
    BY <2>1, Multiples
  <2> QED BY <2>2 DEF Budget
<1>13. guesses \in Nat /\ [p \in Procs |-> mem[p].fails["login"]] \in [Procs -> Nat]
  BY DEF TypeOK, Scopes
<1> QED BY <1>2, <1>3, <1>5, <1>7, <1>8, <1>9, <1>10, <1>11, <1>12, <1>13

LEMMA GuessTypesNext ==
  ASSUME TypeOK'
  PROVE  /\ guesses' \in Nat /\ Noted' \in Nat /\ fails'["login"].n \in Nat
         /\ Cardinality(Tally') \in Nat /\ Cardinality(Open') \in Nat /\ Cardinality(Lockers') \in Nat
         /\ Cardinality(Flying') \in Nat /\ Cardinality(Failing') \in Nat
         /\ Cardinality(Closing') \in Nat /\ Cardinality(Stray') \in Nat
         /\ Cardinality(Flying') + Cardinality(Closing') <= Overlap
         /\ Cardinality(Failing') <= Cardinality(Flying') /\ Cardinality(Stray') <= Cardinality(Flying')
         /\ Held' \in Nat /\ HeldInMemory' \in Nat /\ Opened' \in Nat /\ Budget' \in Nat
         /\ [p \in Procs |-> mem'[p].fails["login"]] \in [Procs -> Nat]
<1>1. /\ Flying' \in SUBSET Requests /\ Closing' \in SUBSET Requests
      /\ Failing' \in SUBSET Flying' /\ Stray' \in SUBSET Flying' /\ Flying' \cap Closing' = {}
  BY DEF Flying, FlyingAt, Closing, Failing, Stray
<1>2. /\ IsFiniteSet(Flying')
      /\ Cardinality(Flying') \in Nat /\ Cardinality(Closing') \in Nat
      /\ Cardinality(Flying') + Cardinality(Closing') <= Overlap
  BY <1>1, OverlapType, CountPart, CountApart DEF Overlap
<1>3. /\ Cardinality(Failing') \in Nat /\ Cardinality(Stray') \in Nat
      /\ Cardinality(Failing') <= Cardinality(Flying') /\ Cardinality(Stray') <= Cardinality(Flying')
  BY <1>1, <1>2, CountPart
<1>4. Open' \in SUBSET Procs /\ Lockers' \in SUBSET Procs
  BY DEF Open, Lockers
<1>5. Cardinality(Open') \in Nat /\ Cardinality(Lockers') \in Nat
  BY <1>4, OverlapType, CountPart
<1>6. Threshold - 1 \in Nat
  BY OverlapType
<1>7. Cardinality(Tally') \in Nat
  BY <1>6, OverlapType, UnderCount DEF Tally
<1>8. fails'["login"].n \in Nat
  BY DEF TypeOK, Scopes
<1>9. Noted' \in Nat
  BY <1>6, <1>8 DEF Noted
<1>10. Held' \in Nat
  BY <1>2, OverlapType DEF Held, Overlap
<1>11. HeldInMemory' \in Nat /\ Opened' \in Nat
  BY <1>5, OverlapType, Multiples DEF HeldInMemory, Opened, Overlap
<1>12. Budget' \in Nat
  <2>1. 2 * Overlap \in Nat /\ faults' \in Nat
    BY OverlapType, RedisAssumption DEF TypeOK, HandleTypeOK
  <2>2. 2 * Overlap * faults' \in Nat
    BY <2>1, Multiples
  <2> QED BY <2>2 DEF Budget, Overlap
<1>13. guesses' \in Nat /\ [p \in Procs |-> mem'[p].fails["login"]] \in [Procs -> Nat]
  BY DEF TypeOK, Scopes
<1> QED BY <1>2, <1>3, <1>5, <1>7, <1>8, <1>9, <1>10, <1>11, <1>12, <1>13

\* The strays of the next state, before the breakers change.
Ahead == {r \in Requests : /\ FlyingAt(pc'[r], loc'[r])
                           /\ IF pc'[r] # "memFail" /\ enabled /\ ~blocked[loc'[r].proc] THEN "login" \in locks'
                              ELSE "login" \in mem'[loc'[r].proc].locks}

LEMMA AheadCount ==
  /\ Ahead \in SUBSET Flying' /\ Ahead \in SUBSET Requests
  /\ Cardinality(Ahead) \in Nat /\ Cardinality(Ahead) <= Cardinality(Flying')
<1>1. Ahead \in SUBSET Flying' /\ Flying' \in SUBSET Requests
  BY DEF Ahead, Flying
<1>2. IsFiniteSet(Flying')
  BY <1>1, OverlapType, CountPart
<1> QED BY <1>1, <1>2, CountPart

\* Breakers that close pay for the requests they make stray.
LEMMA HandleCalm ==
  ASSUME Inv, Inv', enabled' = enabled, faults' = faults, \A p \in Procs : blocked'[p] => blocked[p]
  PROVE  Cardinality(Stray') + Opened' <= Cardinality(Ahead) + Opened /\ Budget' = Budget
<1>1. Overlap' = Overlap /\ Overlap \in Nat
  BY OverlapType DEF Overlap
<1>2. Budget' = Budget
  BY <1>1 DEF Budget
<1>3. CASE blocked' = blocked
  <2>1. Stray' = Ahead
    BY <1>3 DEF Stray, Flying, Ahead, Shut, Available
  <2>2. Opened' = Opened
    BY <1>1, <1>3 DEF Opened, Open
  <2> QED BY <1>2, <2>1, <2>2, AheadCount, GuessTypes DEF Inv
<1>4. CASE blocked' # blocked
  <2>1. blocked \in [Procs -> BOOLEAN] /\ blocked' \in [Procs -> BOOLEAN]
    BY DEF Inv, TypeOK, HandleTypeOK
  <2>2. PICK p \in Procs : blocked[p] /\ ~blocked'[p]
    <3>1. \E p \in Procs : blocked[p] # blocked'[p]
      BY <1>4, <2>1
    <3> QED BY <2>1, <3>1
  <2>3. Open' \in SUBSET (Open \ {p}) /\ p \in Open /\ Open \in SUBSET Procs
    BY <2>2 DEF Open
  <2>4. IsFiniteSet(Open)
    BY <2>3, OverlapType, CountPart
  <2>5. IsFiniteSet(Open \ {p}) /\ Cardinality(Open \ {p}) = Cardinality(Open) - 1
    BY <2>3, <2>4, FS_RemoveElement
  <2>6. Cardinality(Open') <= Cardinality(Open) - 1
    BY <2>3, <2>5, FS_Subset
  <2>7. /\ Cardinality(Stray') \in Nat /\ Cardinality(Open) \in Nat /\ Cardinality(Open') \in Nat
        /\ Opened \in Nat /\ Opened' \in Nat
        /\ Cardinality(Stray') <= Overlap
    BY GuessTypes, GuessTypesNext, OverlapType DEF Inv
  <2>8. Opened' + Overlap <= Opened
    <3>1. Cardinality(Open') < Cardinality(Open)
      BY <2>6, <2>7
    <3>2. Overlap * Cardinality(Open') + Overlap <= Overlap * Cardinality(Open)
      BY <1>1, <2>7, <3>1, Multiples
    <3> QED BY <1>1, <3>2 DEF Opened
  <2>9. Cardinality(Ahead) \in Nat
    BY AheadCount
  <2>10. Cardinality(Stray') + Opened' <= Opened
    <3>1. ASSUME NEW a \in Nat, NEW b \in Nat, NEW c \in Nat, NEW d \in Nat, a <= b, c + b <= d
          PROVE  a + c <= d
      BY <3>1
    <3>2. Cardinality(Stray') \in Nat /\ Cardinality(Stray') <= Overlap /\ Opened' \in Nat /\ Opened \in Nat
      BY <2>7
    <3>3. Opened' + Overlap <= Opened
      BY <2>8
    <3> QED BY <1>1, <3>1, <3>2, <3>3
  <2> QED BY <1>2, <2>7, <2>9, <2>10
<1> QED BY <1>3, <1>4

\* A fault pays for the breaker it opens, and for the requests that makes stray.
LEMMA HandleFault ==
  ASSUME Inv, Inv', enabled, enabled' = enabled, faults' = faults + 1, NEW p \in Procs,
         \A q \in Procs : q # p => blocked'[q] = blocked[q]
  PROVE  Cardinality(Stray') + Opened' <= Cardinality(Flying') + Opened + Overlap /\ Budget' = Budget + 2 * Overlap
<1>1. Overlap' = Overlap /\ Overlap \in Nat
  BY OverlapType DEF Overlap
<1>2. Open \in SUBSET Procs /\ Open' \in SUBSET Procs /\ \A q \in Procs : q # p => (q \in Open <=> q \in Open')
  BY DEF Open
<1>3. Cardinality(Open') <= Cardinality(Open) + 1
  <2>1. Cardinality(Open') + (IF p \in Open THEN 1 ELSE 0) = Cardinality(Open) + (IF p \in Open' THEN 1 ELSE 0)
    BY <1>2, OverlapType, CountOne
  <2>2. Cardinality(Open) \in Nat /\ Cardinality(Open') \in Nat
    BY GuessTypes, GuessTypesNext DEF Inv
  <2> QED BY <2>1, <2>2
<1>4. /\ Cardinality(Stray') \in Nat /\ Cardinality(Open) \in Nat /\ Cardinality(Open') \in Nat
      /\ Opened \in Nat /\ Opened' \in Nat /\ Cardinality(Flying') \in Nat
      /\ Cardinality(Stray') <= Cardinality(Flying')
  BY GuessTypes, GuessTypesNext DEF Inv
<1>5. Overlap * Cardinality(Open') <= Overlap * (Cardinality(Open) + 1)
  BY <1>1, <1>3, <1>4, Multiples
<1>6. Overlap * (Cardinality(Open) + 1) = Overlap * Cardinality(Open) + Overlap
  BY <1>1, <1>4, Multiples
<1>7. Opened' <= Opened + Overlap
  BY <1>1, <1>5, <1>6 DEF Opened
<1>8. faults \in Nat /\ 2 * Overlap \in Nat
  BY <1>1, RedisAssumption DEF Inv, TypeOK, HandleTypeOK
<1>9. 2 * Overlap * (faults + 1) = 2 * Overlap * faults + 2 * Overlap
  BY <1>8, Multiples
<1>10. Budget' = Budget + 2 * Overlap
  BY <1>1, <1>9 DEF Budget
<1> QED BY <1>1, <1>4, <1>7, <1>10

\* One request moves: who is flying, failing and closing.
LEMMA GuessMove ==
  ASSUME NEW r, \A s \in Requests : s # r => pc'[s] = pc[s] /\ loc'[s] = loc[s]
  PROVE  /\ Cardinality(Failing') + (IF r \in Failing THEN 1 ELSE 0)
              = Cardinality(Failing) + (IF r \in Failing' THEN 1 ELSE 0)
         /\ Cardinality(Closing') + (IF r \in Closing THEN 1 ELSE 0)
              = Cardinality(Closing) + (IF r \in Closing' THEN 1 ELSE 0)
         /\ Cardinality(Flying') + (IF r \in Flying THEN 1 ELSE 0)
              = Cardinality(Flying) + (IF r \in Flying' THEN 1 ELSE 0)
<1>1. /\ Failing \in SUBSET Requests /\ Failing' \in SUBSET Requests
      /\ \A s \in Requests : s # r => (s \in Failing <=> s \in Failing')
  BY DEF Failing
<1>2. /\ Closing \in SUBSET Requests /\ Closing' \in SUBSET Requests
      /\ \A s \in Requests : s # r => (s \in Closing <=> s \in Closing')
  BY DEF Closing
<1>3. /\ Flying \in SUBSET Requests /\ Flying' \in SUBSET Requests
      /\ \A s \in Requests : s # r => (s \in Flying <=> s \in Flying')
  BY DEF Flying, FlyingAt
<1>4. Cardinality(Failing') + (IF r \in Failing THEN 1 ELSE 0)
        = Cardinality(Failing) + (IF r \in Failing' THEN 1 ELSE 0)
  BY <1>1, OverlapType, CountOne
<1>5. Cardinality(Closing') + (IF r \in Closing THEN 1 ELSE 0)
        = Cardinality(Closing) + (IF r \in Closing' THEN 1 ELSE 0)
  BY <1>2, OverlapType, CountOne
<1>6. Cardinality(Flying') + (IF r \in Flying THEN 1 ELSE 0)
        = Cardinality(Flying) + (IF r \in Flying' THEN 1 ELSE 0)
  BY <1>3, OverlapType, CountOne
<1> QED BY <1>4, <1>5, <1>6

\* Which places are locked for logins, and what they counted, stays.
SameLogins ==
  /\ "login" \in locks' <=> "login" \in locks
  /\ fails'["login"].n = fails["login"].n
  /\ \A p \in Procs : /\ "login" \in mem'[p].locks <=> "login" \in mem[p].locks
                      /\ mem'[p].fails["login"] = mem[p].fails["login"]

\* ... and who strays.
LEMMA AheadMove ==
  ASSUME Inv, Inv', NEW r, \A s \in Requests : s # r => pc'[s] = pc[s] /\ loc'[s] = loc[s],
         "login" \in locks' <=> "login" \in locks,
         \A p \in Procs : "login" \in mem'[p].locks <=> "login" \in mem[p].locks
  PROVE  Cardinality(Ahead) + (IF r \in Stray THEN 1 ELSE 0) = Cardinality(Stray) + (IF r \in Ahead THEN 1 ELSE 0)
<1>1. Stray \in SUBSET Requests /\ Ahead \in SUBSET Requests
  BY DEF Stray, Flying, Ahead
<1>2. ASSUME NEW s \in Requests, s # r PROVE s \in Stray <=> s \in Ahead
  <2>1. pc'[s] = pc[s] /\ loc'[s] = loc[s]
    BY <1>2
  <2>2. FlyingAt(pc[s], loc[s]) => loc[s].proc \in Procs
    BY DEF FlyingAt, Inv, PlaceInv, Fits
  <2>3. s \in Stray <=> /\ FlyingAt(pc[s], loc[s])
                        /\ IF pc[s] # "memFail" /\ enabled /\ ~blocked[loc[s].proc] THEN "login" \in locks
                           ELSE "login" \in mem[loc[s].proc].locks
    BY DEF Stray, Flying, Shut, Available
  <2>4. s \in Ahead <=> /\ FlyingAt(pc[s], loc[s])
                        /\ IF pc[s] # "memFail" /\ enabled /\ ~blocked[loc[s].proc] THEN "login" \in locks'
                           ELSE "login" \in mem'[loc[s].proc].locks
    BY <2>1 DEF Ahead
  <2> QED BY <2>2, <2>3, <2>4
<1> QED BY <1>1, <1>2, OverlapType, CountOne

LEMMA PlacesSame ==
  ASSUME SameLogins
  PROVE  Noted' = Noted /\ Tally' = Tally /\ Lockers' = Lockers /\ HeldInMemory' = HeldInMemory
<1>1. Noted' = Noted
  BY DEF Noted, SameLogins
<1>2. [p \in Procs |-> mem'[p].fails["login"]] = [p \in Procs |-> mem[p].fails["login"]]
  BY DEF SameLogins
<1>3. Tally' = Tally
  BY <1>2 DEF Tally
<1>4. Lockers' = Lockers
  BY DEF Lockers, SameLogins
<1> QED BY <1>1, <1>3, <1>4 DEF HeldInMemory, Overlap

\* A step without a fault, but for the breakers that close.
LEMMA CalmGuess ==
  ASSUME Inv, Inv', GuessInv, HandleStep, faults' = faults,
         guesses' + Cardinality(Ahead) + Noted + Cardinality(Tally) + Cardinality(Failing) + Held + HeldInMemory
           <= guesses + Cardinality(Stray) + Noted' + Cardinality(Tally') + Cardinality(Failing') + Held' + HeldInMemory'
  PROVE  GuessInv'
<1>1. \A p \in Procs : blocked'[p] => blocked[p]
  <2>1. faults \in Nat
    BY RedisAssumption DEF Inv, TypeOK, HandleTypeOK
  <2> QED BY <2>1 DEF HandleStep
<1>2. Cardinality(Stray') + Opened' <= Cardinality(Ahead) + Opened /\ Budget' = Budget
  BY <1>1, HandleCalm DEF HandleStep
<1>3. /\ guesses \in Nat /\ Noted \in Nat /\ Cardinality(Tally) \in Nat /\ Cardinality(Failing) \in Nat
      /\ Held \in Nat /\ HeldInMemory \in Nat /\ Opened \in Nat /\ Budget \in Nat /\ Cardinality(Stray) \in Nat
  BY GuessTypes DEF Inv
<1>4. /\ guesses' \in Nat /\ Noted' \in Nat /\ Cardinality(Tally') \in Nat /\ Cardinality(Failing') \in Nat
      /\ Held' \in Nat /\ HeldInMemory' \in Nat /\ Opened' \in Nat /\ Cardinality(Stray') \in Nat
  BY GuessTypesNext DEF Inv
<1>5. Cardinality(Ahead) \in Nat
  BY AheadCount
<1>6. guesses + Cardinality(Stray) + Opened
        <= Noted + Cardinality(Tally) + Cardinality(Failing) + Held + HeldInMemory + Budget
  BY DEF GuessInv
<1>7. guesses' + Cardinality(Stray') + Opened'
        <= Noted' + Cardinality(Tally') + Cardinality(Failing') + Held' + HeldInMemory' + Budget'
  BY <1>2, <1>3, <1>4, <1>5, <1>6
<1> QED BY <1>7 DEF GuessInv

\* A step with a fault may lose one failure or one lock that is due.
LEMMA FaultyGuess ==
  ASSUME Inv, Inv', GuessInv, HandleStep, enabled, faults' = faults + 1, guesses' = guesses,
         Noted <= Noted', Cardinality(Tally) <= Cardinality(Tally'), HeldInMemory <= HeldInMemory',
         Cardinality(Flying') + Cardinality(Failing) + Held <= Overlap + Cardinality(Failing') + Held'
  PROVE  GuessInv'
<1>1. \E p \in Procs : \A q \in Procs : q # p => blocked'[q] = blocked[q]
  <2>1. faults \in Nat
    BY RedisAssumption DEF Inv, TypeOK, HandleTypeOK
  <2> QED BY <2>1 DEF HandleStep
<1>2. Cardinality(Stray') + Opened' <= Cardinality(Flying') + Opened + Overlap /\ Budget' = Budget + 2 * Overlap
  BY <1>1, HandleFault DEF HandleStep
<1>3. /\ guesses \in Nat /\ Noted \in Nat /\ Cardinality(Tally) \in Nat /\ Cardinality(Failing) \in Nat
      /\ Held \in Nat /\ HeldInMemory \in Nat /\ Opened \in Nat /\ Budget \in Nat /\ Cardinality(Stray) \in Nat
  BY GuessTypes DEF Inv
<1>4. /\ Noted' \in Nat /\ Cardinality(Tally') \in Nat /\ Cardinality(Failing') \in Nat
      /\ Held' \in Nat /\ HeldInMemory' \in Nat /\ Opened' \in Nat /\ Cardinality(Stray') \in Nat
      /\ Cardinality(Flying') \in Nat
  BY GuessTypesNext DEF Inv
<1>5. Overlap \in Nat
  BY OverlapType
<1>6. guesses + Cardinality(Stray) + Opened
        <= Noted + Cardinality(Tally) + Cardinality(Failing) + Held + HeldInMemory + Budget
  BY DEF GuessInv
<1>7. guesses' + Cardinality(Stray') + Opened'
        <= Noted' + Cardinality(Tally') + Cardinality(Failing') + Held' + HeldInMemory' + Budget'
  BY <1>2, <1>3, <1>4, <1>5, <1>6
<1> QED BY <1>7 DEF GuessInv

\* Whoever is not about to guess, fail or lock changes nothing.
LEMMA Aside ==
  ASSUME Inv, Inv', GuessInv, HandleStep, faults' = faults \/ enabled, guesses' = guesses, SameLogins,
         NEW r, \A s \in Requests : s # r => pc'[s] = pc[s] /\ loc'[s] = loc[s],
         r \in Failing => r \in Failing', r \in Closing => r \in Closing',
         faults' # faults \/ (r \in Ahead => r \in Stray)
  PROVE  GuessInv'
<1>1. Cardinality(Failing) <= Cardinality(Failing') /\ Cardinality(Closing) <= Cardinality(Closing')
  BY GuessMove, GuessTypes, GuessTypesNext DEF Inv
<1>2. Noted' = Noted /\ Tally' = Tally /\ HeldInMemory' = HeldInMemory
  BY PlacesSame
<1>3. Held <= Held'
  <2>1. Overlap' = Overlap /\ Overlap \in Nat
    BY OverlapType DEF Overlap
  <2> QED BY <1>1, <2>1, GuessTypes DEF Held, SameLogins, Inv
<1>4. /\ guesses \in Nat /\ Noted \in Nat /\ Cardinality(Tally) \in Nat /\ Cardinality(Failing) \in Nat
      /\ Held \in Nat /\ HeldInMemory \in Nat /\ Cardinality(Stray) \in Nat
      /\ Cardinality(Failing') \in Nat /\ Held' \in Nat
      /\ Cardinality(Flying') \in Nat /\ Cardinality(Flying') <= Overlap /\ Overlap \in Nat
  BY GuessTypes, GuessTypesNext, OverlapType DEF Inv
<1>5. CASE faults' = faults
  <2>1. Cardinality(Ahead) <= Cardinality(Stray) /\ Cardinality(Ahead) \in Nat
    <3>1. Cardinality(Ahead) \in Nat
      BY AheadCount
    <3>2. Cardinality(Ahead) + (IF r \in Stray THEN 1 ELSE 0) = Cardinality(Stray) + (IF r \in Ahead THEN 1 ELSE 0)
      BY AheadMove DEF SameLogins
    <3>3. r \in Ahead => r \in Stray
      BY <1>5
    <3> QED BY <1>4, <3>1, <3>2, <3>3
  <2>2. guesses' + Cardinality(Ahead) + Noted + Cardinality(Tally) + Cardinality(Failing) + Held + HeldInMemory
          <= guesses + Cardinality(Stray) + Noted' + Cardinality(Tally') + Cardinality(Failing') + Held' + HeldInMemory'
    BY <1>1, <1>2, <1>3, <1>4, <2>1
  <2> QED BY <1>5, <2>2, CalmGuess
<1>6. CASE faults' # faults
  <2>1. enabled /\ faults' = faults + 1
    BY <1>6 DEF HandleStep
  <2>2. Cardinality(Flying') + Cardinality(Failing) + Held <= Overlap + Cardinality(Failing') + Held'
    BY <1>1, <1>3, <1>4
  <2>3. Noted <= Noted' /\ Cardinality(Tally) <= Cardinality(Tally') /\ HeldInMemory <= HeldInMemory'
    BY <1>2, <1>4
  <2> QED BY <2>1, <2>2, <2>3, FaultyGuess
<1> QED BY <1>5, <1>6

\* The same when no request moves.
LEMMA AllAside ==
  ASSUME Inv, Inv', GuessInv, HandleStep, faults' = faults, guesses' = guesses, SameLogins, UNCHANGED <<pc, loc>>
  PROVE  GuessInv'
<1>1. PICK r : r = "none"
  OBVIOUS
<1>2. r \in Failing <=> r \in Failing'
  BY DEF Failing
<1>3. r \in Closing <=> r \in Closing'
  BY DEF Closing
<1>4. r \in Ahead => r \in Stray
  <2>1. ASSUME r \in Ahead PROVE r \in Stray
    <3>1. r \in Requests /\ FlyingAt(pc[r], loc[r])
      BY <2>1 DEF Ahead
    <3>2. loc[r].proc \in Procs
      BY <3>1 DEF FlyingAt, Inv, PlaceInv, Fits
    <3> QED BY <2>1, <3>1, <3>2 DEF Ahead, Stray, Flying, Shut, Available, SameLogins
  <2> QED BY <2>1
<1> QED BY <1>2, <1>3, <1>4, Aside

LEMMA Doubles ==
  ASSUME NEW n \in Nat, NEW a \in Nat
  PROVE  2 * n * a = n * a + n * a /\ n * a \in Nat /\ n * 0 = 0
OBVIOUS

LEMMA AtMostSum ==
  ASSUME NEW a \in Nat, NEW b \in Nat, NEW c \in Nat, c <= a \/ c <= b
  PROVE  c <= a + b
OBVIOUS

\* A success, the end of a window or a lock, or a crash: whoever strays does
\* so because some place is locked.
LEMMA Reset ==
  ASSUME Inv', OffInv', OpenInv', guesses' = 0
  PROVE  GuessInv'
<1>1. /\ Cardinality(Stray') \in Nat /\ Cardinality(Open') \in Nat /\ Cardinality(Lockers') \in Nat
      /\ Noted' \in Nat /\ Cardinality(Tally') \in Nat /\ Cardinality(Failing') \in Nat
      /\ Held' \in Nat /\ HeldInMemory' \in Nat /\ Opened' \in Nat /\ Budget' \in Nat
      /\ Cardinality(Stray') <= Overlap /\ Overlap \in Nat
  BY GuessTypesNext, OverlapType DEF Inv
<1>2. Opened' <= Budget'
  <2>1. faults' \in Nat
    BY RedisAssumption DEF Inv, TypeOK, HandleTypeOK
  <2>2. CASE enabled'
    <3>1. Overlap * Cardinality(Open') <= Overlap * faults'
      BY <1>1, <2>1, Multiples DEF OpenInv
    <3>2. 2 * Overlap * faults' = Overlap * faults' + Overlap * faults' /\ Overlap * faults' \in Nat
      BY <1>1, <2>1, Doubles
    <3>3. Opened' = Overlap * Cardinality(Open') /\ Budget' = 2 * Overlap * faults'
      BY <2>2 DEF Opened, Budget, Overlap
    <3> QED BY <1>1, <3>1, <3>2, <3>3
  <2>3. CASE ~enabled'
    <3>1. Open' = {}
      BY <2>3 DEF Open, OffInv
    <3>2. Cardinality(Open') = 0
      BY <3>1, FS_EmptySet
    <3>3. Opened' = 0
      BY <1>1, <3>2, Multiples DEF Opened, Overlap
    <3> QED BY <1>1, <3>3
  <2> QED BY <2>2, <2>3
<1>3. Cardinality(Stray') <= Held' + HeldInMemory'
  <2>1. CASE Stray' = {}
    <3>1. Cardinality(Stray') = 0
      BY <2>1, FS_EmptySet
    <3>2. Cardinality(Stray') <= Held'
      BY <1>1, <3>1
    <3> QED BY <1>1, <3>2, AtMostSum
  <2>2. CASE Stray' # {}
    <3>1. PICK r : r \in Stray'
      BY <2>2
    <3>2. /\ FlyingAt(pc'[r], loc'[r]) /\ r \in Requests
          /\ "login" \in locks' \/ "login" \in mem'[loc'[r].proc].locks
      BY <3>1 DEF Stray, Flying, Shut, FlyingAt
    <3>3. loc'[r].proc \in Procs
      BY <3>2 DEF FlyingAt, Inv, PlaceInv, Fits
    <3>4. CASE "login" \in locks'
      <4>1. Held' = Overlap
        BY <3>4 DEF Held, Overlap
      <4>2. Cardinality(Stray') <= Held'
        BY <1>1, <4>1
      <4> QED BY <1>1, <4>2, AtMostSum
    <3>5. CASE "login" \notin locks'
      <4>1. loc'[r].proc \in Lockers'
        BY <3>2, <3>3, <3>5 DEF Lockers
      <4>2. Lockers' \in SUBSET Procs
        BY DEF Lockers
      <4>3. IsFiniteSet(Lockers')
        BY <4>2, OverlapType, CountPart
      <4>4. Cardinality(Lockers') # 0
        BY <4>1, <4>3, FS_EmptySet
      <4>5. 0 < Cardinality(Lockers') /\ 0 \in Nat
        BY <1>1, <4>4
      <4>6. Overlap * 0 + Overlap <= Overlap * Cardinality(Lockers')
        BY <1>1, <4>5, Multiples
      <4>7. HeldInMemory' = Overlap * Cardinality(Lockers')
        BY DEF HeldInMemory, Overlap
      <4>8. Cardinality(Stray') <= HeldInMemory'
        BY <1>1, <4>6, <4>7, Doubles
      <4> QED BY <1>1, <4>8, AtMostSum
    <3> QED BY <3>4, <3>5
  <2> QED BY <2>1, <2>2
<1>4. guesses' + Cardinality(Stray') + Opened'
        <= Noted' + Cardinality(Tally') + Cardinality(Failing') + Held' + HeldInMemory' + Budget'
  BY <1>1, <1>2, <1>3
<1> QED BY <1>4 DEF GuessInv

\* Without Redis no command of it fails.
LEMMA FaultEnabled ==
  ASSUME Inv, OffInv, NEW r \in Requests, Limiting(r) \/ Session(r)
  PROVE  faults' = faults \/ enabled
<1> SUFFICES ASSUME ~enabled PROVE faults' = faults
  OBVIOUS
<1>1. OffPlace(pc[r], loc[r]) /\ Fits(pc[r], loc[r])
  BY DEF OffInv, Inv, PlaceInv
<1>2. \/ UNCHANGED redis
      \/ \E last \in BOOLEAN, guarded \in BOOLEAN, o \in Outcomes : Command(loc[r].proc, TRUE, last, guarded, o)
  <2>1. CASE CheckLock(r) \/ Count(r)
    BY <1>1, <2>1, OffLimiter DEF Proc
  <2>2. CASE MemCount(r) \/ MemFailure(r) \/ Verify(r)
    BY <2>2 DEF MemCount, MemFailure, Verify
  <2>3. CASE Bump(r) \/ ExpireCount(r) \/ ExpireFails(r) \/ SetLock(r) \/ ClearLock(r)
    BY <1>1, <2>3 DEF OffPlace, Bump, ExpireCount, ExpireFails, SetLock, ClearLock
  <2>4. CASE Fail(r)
    BY <2>4, FailMoves DEF Proc
  <2>5. CASE ClearFails(r)
    BY <2>5 DEF ClearFails, Proc
  <2>6. CASE Store(r) \/ Drop(r)
    BY <2>6 DEF Store, Drop, Execute, Proc
  <2>7. CASE Resolve(r)
    <3>1. \E o \in Outcomes : Execute(Proc(r), o) \/ UNCHANGED redis
      BY <2>7, Zenon DEF Resolve
    <3> QED BY <3>1 DEF Execute, Proc
  <2> QED BY <2>1, <2>2, <2>3, <2>4, <2>5, <2>6, <2>7 DEF Limiting, Session
<1>3. \A last \in BOOLEAN, guarded \in BOOLEAN, o \in Outcomes :
        Command(loc[r].proc, TRUE, last, guarded, o) => faults' = faults
  BY DEF Command, Available
<1> QED BY <1>2, <1>3 DEF redis

\* Whoever goes on between the checks strays as before.
LEMMA FliesOn ==
  ASSUME Inv, NEW r \in Requests, pc[r] \in {"count", "bump", "expireCount", "memory", "verify"}, pc'[r] # "memFail",
         loc'[r].op = "login" => loc[r].op = "login" /\ loc'[r].proc = loc[r].proc,
         "login" \in locks' <=> "login" \in locks,
         \A p \in Procs : "login" \in mem'[p].locks <=> "login" \in mem[p].locks
  PROVE  r \in Ahead => r \in Stray
<1>1. SUFFICES ASSUME r \in Ahead PROVE r \in Stray
  OBVIOUS
<1>2. loc[r].op = "login" /\ loc'[r].proc = loc[r].proc
  BY <1>1 DEF Ahead, FlyingAt
<1>3. loc[r].proc \in Procs
  BY DEF Inv, PlaceInv, Fits
<1>4. FlyingAt(pc[r], loc[r])
  BY <1>2 DEF FlyingAt
<1> QED BY <1>1, <1>2, <1>3, <1>4 DEF Ahead, Stray, Flying, Shut, Available

\* The steps of the check: whoever passes does so where it is not locked.
LEMMA CheckLockGuess == ASSUME Inv, Inv', OffInv, GuessInv, NEW r \in Requests, CheckLock(r) PROVE GuessInv'
<1>1. HandleStep /\ (faults' = faults \/ enabled)
  BY LimitingHandle, FaultEnabled DEF Limiting
<1>2. pc[r] = "lock" /\ UNCHANGED <<fails, locks, mem, guesses>>
  BY DEF CheckLock, limits, counters, history
<1>3. loc[r].proc \in Procs /\ loc[r].op \in Scopes /\ loc[r].op \in {"login", "register", "apiKey", "admin"}
  BY <1>2 DEF Inv, PlaceInv, Fits, Scopes
<1>4. PICK l : l = [loc[r] EXCEPT !.min = minute]
  OBVIOUS
<1>5. l.op = loc[r].op /\ l.proc = loc[r].proc
  BY <1>4 DEF Inv, TypeOK, Locals
<1>6. PICK o \in Outcomes :
        /\ Command(Proc(r), TRUE, Op(r) # "login" /\ Op(r) \notin locks, TRUE, o)
        /\ CASE o # "answered" -> MemEnforce(r)
             [] o = "answered" /\ Op(r) \in locks -> Done(r)
             [] o = "answered" /\ Op(r) = "login" /\ Op(r) \notin locks -> Go(r, "count", l)
             [] OTHER -> Pass(r)
  BY <1>4, Zenon DEF CheckLock
<1>7. /\ o = "unsent" => ~Available(loc[r].proc)
      /\ o = "answered" => Available(loc[r].proc)
      /\ o \in {"lost", "failed"} => faults' = faults + 1
  BY <1>3, <1>6, CommandHandle DEF Proc
<1>8. faults \in Nat
  BY RedisAssumption DEF Inv, TypeOK, HandleTypeOK
<1>9. r \notin Failing /\ r \notin Closing
  BY <1>2 DEF Failing, Closing
<1>10. SameLogins
  BY <1>2 DEF SameLogins
<1>11. CASE o # "answered"
  <2>1. MemEnforce(r)
    BY <1>6, <1>11, Zenon
  <2>2. /\ \A s \in Requests : s # r => pc'[s] = pc[s] /\ loc'[s] = loc[s]
        /\ \/ pc'[r] = "idle"
           \/ /\ loc'[r].op = loc[r].op /\ loc'[r].proc = loc[r].proc
              /\ loc[r].op \notin mem[loc[r].proc].locks
    BY <1>2, <2>1, EnforceEffect
  <2>3. faults' # faults \/ (r \in Ahead => r \in Stray)
    <3>1. CASE o = "unsent"
      <4>1. r \notin Ahead
        BY <1>2, <1>3, <1>7, <2>2, <3>1 DEF Ahead, FlyingAt, Available
      <4> QED BY <4>1
    <3>2. CASE o \in {"lost", "failed"}
      BY <1>7, <1>8, <3>2
    <3> QED BY <1>11, <3>1, <3>2 DEF Outcomes
  <2> QED BY <1>1, <1>2, <1>9, <1>10, <2>2, <2>3, Aside
<1>12. CASE o = "answered"
  <2>1. Done(r) \/ (loc[r].op \notin locks /\ (Go(r, "count", l) \/ Pass(r)))
    BY <1>6, <1>12, Zenon DEF Op
  <2>2. /\ \A s \in Requests : s # r => pc'[s] = pc[s] /\ loc'[s] = loc[s]
        /\ \/ pc'[r] = "idle"
           \/ /\ loc'[r].op = loc[r].op /\ loc'[r].proc = loc[r].proc /\ loc[r].op \notin locks
              /\ pc'[r] \in {"count", "verify", "store", "resolve"}
    BY <1>3, <1>5, <2>1, DoneFacts, GoFacts, PassFacts
  <2>3. r \notin Ahead
    BY <1>2, <1>7, <1>12, <2>2 DEF Ahead, FlyingAt, Available
  <2> QED BY <1>1, <1>2, <1>9, <1>10, <2>2, <2>3, Aside
<1> QED BY <1>11, <1>12

\* The attempts of the minute: whoever is let through strays as before.
LEMMA MeterMoves ==
  ASSUME Inv, NEW r \in Requests, Count(r) \/ Bump(r) \/ ExpireCount(r) \/ MemCount(r)
  PROVE  /\ pc[r] \in {"count", "bump", "expireCount", "memory"} /\ UNCHANGED <<fails, locks, guesses>>
         /\ \A q \in Procs : mem'[q].locks = mem[q].locks /\ mem'[q].fails = mem[q].fails
         /\ \A s \in Requests : s # r => pc'[s] = pc[s] /\ loc'[s] = loc[s]
         /\ pc'[r] # "memFail" /\ pc'[r] # "fail"
         /\ loc'[r].op = "login" => loc[r].op = "login" /\ loc'[r].proc = loc[r].proc
<1>1. CASE MemCount(r)
  <2>1. /\ pc[r] = "memory" /\ UNCHANGED <<counters, guesses>>
        /\ \A s \in Requests : s # r => pc'[s] = pc[s] /\ loc'[s] = loc[s]
        /\ \A q \in Procs : mem'[q].fails = mem[q].fails /\ mem'[q].locks = mem[q].locks
        /\ \/ pc'[r] = "idle" /\ loc'[r] = Blank
           \/ pc'[r] \in {"verify", "store"} /\ loc'[r].op = loc[r].op /\ loc'[r].proc = loc[r].proc
    BY <1>1, MemCountEffect
  <2> QED BY <2>1 DEF counters, Blank
<1>2. CASE Count(r) \/ Bump(r) \/ ExpireCount(r)
  <2>1. pc[r] \in {"count", "bump", "expireCount"} /\ UNCHANGED <<fails, locks, mem, guesses>>
    BY <1>2 DEF Count, Bump, ExpireCount, limits, counters, history
  <2>2. loc[r].op \in {"login", "register", "apiKey", "admin"} /\ loc[r] \in Locals
    BY <2>1 DEF Inv, TypeOK, PlaceInv, Fits, Metered, Scopes
  <2>3. MemEnforce(r) \/ Done(r) \/ Pass(r) \/ Go(r, "expireCount", loc[r])
          \/ \E m : Go(r, "bump", [loc[r] EXCEPT !.min = m])
    <3>1. CASE Count(r)
      BY <3>1 DEF Count
    <3>2. CASE Bump(r)
      BY <3>2, BumpFacts
    <3>3. CASE ExpireCount(r)
      BY <3>3 DEF ExpireCount
    <3> QED BY <1>2, <3>1, <3>2, <3>3
  <2>4. CASE MemEnforce(r)
    BY <2>1, <2>4, EnforceEffect DEF Blank
  <2>5. CASE Done(r)
    BY <2>1, <2>5, DoneFacts DEF Blank
  <2>6. CASE Pass(r)
    BY <2>1, <2>2, <2>6, PassFacts
  <2>7. CASE Go(r, "expireCount", loc[r])
    BY <2>1, <2>7, GoFacts
  <2>8. CASE \E m : Go(r, "bump", [loc[r] EXCEPT !.min = m])
    <3>1. PICK m : Go(r, "bump", [loc[r] EXCEPT !.min = m])
      BY <2>8
    <3>2. PICK l : l = [loc[r] EXCEPT !.min = m]
      OBVIOUS
    <3>3. l.op = loc[r].op /\ l.proc = loc[r].proc /\ Go(r, "bump", l)
      BY <2>2, <3>1, <3>2 DEF Locals
    <3> QED BY <2>1, <3>3, GoFacts
  <2> QED BY <2>3, <2>4, <2>5, <2>6, <2>7, <2>8
<1> QED BY <1>1, <1>2

LEMMA MeterGuess ==
  ASSUME Inv, Inv', OffInv, GuessInv, NEW r \in Requests, Count(r) \/ Bump(r) \/ ExpireCount(r) \/ MemCount(r)
  PROVE  GuessInv'
<1>1. HandleStep /\ (faults' = faults \/ enabled)
  BY LimitingHandle, FaultEnabled DEF Limiting
<1>2. /\ pc[r] \in {"count", "bump", "expireCount", "memory"} /\ UNCHANGED <<fails, locks, guesses>>
      /\ \A q \in Procs : mem'[q].locks = mem[q].locks /\ mem'[q].fails = mem[q].fails
      /\ \A s \in Requests : s # r => pc'[s] = pc[s] /\ loc'[s] = loc[s]
      /\ pc'[r] # "memFail"
      /\ loc'[r].op = "login" => loc[r].op = "login" /\ loc'[r].proc = loc[r].proc
  BY MeterMoves
<1>3. r \in Ahead => r \in Stray
  BY <1>2, FliesOn
<1>4. r \notin Failing /\ r \notin Closing
  BY <1>2 DEF Failing, Closing
<1>5. SameLogins
  BY <1>2 DEF SameLogins
<1> QED BY <1>1, <1>2, <1>3, <1>4, <1>5, Aside

\* What is recorded of keys and administrators leaves the logins alone.
LEMMA OtherScope ==
  ASSUME Inv, NEW r \in Requests, loc[r].proc \in Procs, loc[r].op \in Scopes, loc[r].op # "login",
         mem' = mem \/ MemSuccess(r) \/ MemFailure(r)
  PROVE  \A q \in Procs : /\ "login" \in mem'[q].locks <=> "login" \in mem[q].locks
                          /\ mem'[q].fails["login"] = mem[q].fails["login"]
<1>1. "login" \in Scopes
  BY DEF Scopes
<1>2. CASE mem' = mem
  BY <1>2
<1>3. ASSUME MemSuccess(r) \/ MemFailure(r), NEW q \in Procs
      PROVE  /\ "login" \in mem'[q].locks <=> "login" \in mem[q].locks
             /\ mem'[q].fails["login"] = mem[q].fails["login"]
  <2>1. CASE MemSuccess(r)
    <3>1. CASE q = loc[r].proc
      BY <1>1, <2>1, <3>1, MemorySuccess
    <3>2. CASE q # loc[r].proc
      BY <2>1, <3>2, MemorySuccess
    <3> QED BY <3>1, <3>2
  <2>2. CASE MemFailure(r)
    <3>1. CASE q = loc[r].proc
      <4>1. mem'[q].fails["login"] = mem[q].fails["login"]
        BY <1>1, <2>2, <3>1, MemoryFailure
      <4>2. mem'[q].locks = mem[q].locks \cup
              (IF mem[loc[r].proc].fails[loc[r].op] + 1 >= Threshold THEN {loc[r].op} ELSE {})
        BY <2>2, <3>1, MemoryFailure
      <4> QED BY <4>1, <4>2
    <3>2. CASE q # loc[r].proc
      BY <2>2, <3>2, MemoryFailure
    <3> QED BY <3>1, <3>2
  <2> QED BY <1>3, <2>1, <2>2
<1> QED BY <1>2, <1>3

\* A failed login that a process remembers: it is one more, or the memory is
\* locked already, or it locks now.
LEMMA MemoryFailureLogin ==
  ASSUME Inv, NEW r \in Requests, loc[r].proc \in Procs, loc[r].op = "login", MemFailure(r)
  PROVE  /\ Done(r)
         /\ Cardinality(Tally) <= Cardinality(Tally') /\ HeldInMemory <= HeldInMemory'
         /\ \/ /\ Cardinality(Tally') = Cardinality(Tally) + 1
               /\ \A q \in Procs : "login" \in mem'[q].locks <=> "login" \in mem[q].locks
            \/ /\ "login" \in mem[loc[r].proc].locks
               /\ \A q \in Procs : "login" \in mem'[q].locks <=> "login" \in mem[q].locks
            \/ HeldInMemory' = HeldInMemory + Overlap
<1>1. "login" \in Scopes
  BY DEF Scopes
<1>2. PICK p \in Procs : p = loc[r].proc
  OBVIOUS
<1>3. /\ Done(r)
      /\ \A q \in Procs : q # p => mem'[q] = mem[q]
      /\ mem'[p].fails["login"] = mem[p].fails["login"] + 1
      /\ mem'[p].locks = mem[p].locks \cup (IF mem[p].fails["login"] + 1 >= Threshold THEN {"login"} ELSE {})
  BY <1>1, <1>2, MemoryFailure
<1>4. PICK f : f = [q \in Procs |-> mem[q].fails["login"]]
  OBVIOUS
<1>5. PICK g : g = [q \in Procs |-> mem'[q].fails["login"]]
  OBVIOUS
<1>6. mem[p].fails["login"] \in Nat /\ f \in [Procs -> Nat]
  BY <1>1, <1>4, GuessTypes DEF Inv, TypeOK
<1>7. g[p] = f[p] + 1 /\ \A q \in Procs : q # p => g[q] = f[q]
  BY <1>3, <1>4, <1>5
<1>8. g \in [Procs -> Nat]
  <2>1. ASSUME NEW q \in Procs PROVE g[q] \in Nat
    <3>1. CASE q = p
      BY <1>6, <1>7, <3>1
    <3>2. CASE q # p
      BY <1>6, <1>7, <3>2
    <3> QED BY <3>1, <3>2
  <2> QED BY <1>5, <2>1
<1>9. Threshold - 1 \in Nat /\ Threshold \in Nat /\ IsFiniteSet(Procs) /\ Overlap \in Nat
  BY OverlapType, SignInAssumption
<1>10. Cardinality(Under(Procs, Threshold - 1, g))
         = Cardinality(Under(Procs, Threshold - 1, f)) + (IF f[p] < Threshold - 1 THEN 1 ELSE 0)
  BY <1>6, <1>7, <1>8, <1>9, UnderOneMore
<1>11. Tally = Under(Procs, Threshold - 1, f) /\ Tally' = Under(Procs, Threshold - 1, g)
  BY <1>4, <1>5 DEF Tally
<1>12. Cardinality(Tally') = Cardinality(Tally) + (IF f[p] < Threshold - 1 THEN 1 ELSE 0) /\ Cardinality(Tally) \in Nat
  BY <1>10, <1>11, GuessTypes DEF Inv
<1>13. Lockers \in SUBSET Procs /\ IsFiniteSet(Lockers) /\ Cardinality(Lockers) \in Nat
  <2>1. Lockers \in SUBSET Procs
    BY DEF Lockers
  <2> QED BY <1>9, <2>1, CountPart
<1>14. Overlap' = Overlap /\ HeldInMemory \in Nat
  BY GuessTypes DEF Overlap, Inv
<1>15. CASE f[p] < Threshold - 1
  <2>1. mem[p].fails["login"] = f[p] /\ ~(mem[p].fails["login"] + 1 >= Threshold)
    BY <1>4, <1>6, <1>9, <1>15
  <2>2. mem'[p].locks = mem[p].locks
    BY <1>3, <2>1
  <2>3. \A q \in Procs : "login" \in mem'[q].locks <=> "login" \in mem[q].locks
    BY <1>3, <2>2
  <2>4. Lockers' = Lockers
    BY <2>3 DEF Lockers
  <2>5. HeldInMemory' = HeldInMemory
    BY <1>14, <2>4 DEF HeldInMemory
  <2>6. Cardinality(Tally') = Cardinality(Tally) + 1
    BY <1>12, <1>15
  <2>7. HeldInMemory <= HeldInMemory' /\ Cardinality(Tally) <= Cardinality(Tally')
    BY <1>12, <1>14, <2>5, <2>6
  <2> QED BY <1>3, <2>3, <2>6, <2>7
<1>16. CASE ~(f[p] < Threshold - 1)
  <2>1. mem[p].fails["login"] + 1 >= Threshold
    BY <1>4, <1>6, <1>9, <1>16
  <2>2. mem'[p].locks = mem[p].locks \cup {"login"}
    BY <1>3, <2>1
  <2>3. Cardinality(Tally) <= Cardinality(Tally')
    BY <1>12, <1>16
  <2>4. CASE "login" \in mem[p].locks
    <3>1. \A q \in Procs : "login" \in mem'[q].locks <=> "login" \in mem[q].locks
      BY <1>3, <2>2, <2>4
    <3>2. Lockers' = Lockers
      BY <3>1 DEF Lockers
    <3>3. HeldInMemory' = HeldInMemory
      BY <1>14, <3>2 DEF HeldInMemory
    <3>4. HeldInMemory <= HeldInMemory'
      BY <1>14, <3>3
    <3> QED BY <1>2, <1>3, <2>3, <2>4, <3>1, <3>4
  <2>5. CASE "login" \notin mem[p].locks
    <3>1. p \notin Lockers /\ Lockers' = Lockers \cup {p}
      BY <1>3, <2>2, <2>5 DEF Lockers
    <3>2. Cardinality(Lockers') = Cardinality(Lockers) + 1
      BY <1>13, <3>1, FS_AddElement
    <3>3. Overlap * Cardinality(Lockers') = Overlap * Cardinality(Lockers) + Overlap
      BY <1>9, <1>13, <3>2, Multiples
    <3>4. HeldInMemory' = HeldInMemory + Overlap
      BY <3>3 DEF HeldInMemory, Overlap
    <3>5. HeldInMemory <= HeldInMemory'
      BY <1>9, <1>14, <3>4
    <3> QED BY <1>3, <2>3, <3>4, <3>5
  <2> QED BY <2>4, <2>5
<1> QED BY <1>15, <1>16

\* Arrivals and sessions: no request is past a check of a lock.
LEMMA SessionGuess ==
  ASSUME Inv, Inv', OffInv, GuessInv, NEW r \in Requests, Arrive(r) \/ Session(r) PROVE GuessInv'
<1>1. HandleStep /\ (faults' = faults \/ enabled)
  BY SessionHandle, SameHandle, FaultEnabled DEF Arrive, redis
<1>2. UNCHANGED <<limits, guesses>>
  BY DEF Arrive, Session, Store, Resolve, Drop, history
<1>3. SameLogins
  BY <1>2 DEF SameLogins, limits, counters
<1>4. /\ \A s \in Requests : s # r => pc'[s] = pc[s] /\ loc'[s] = loc[s]
      /\ pc[r] \in {"idle", "store", "resolve", "drop"}
      /\ ~FlyingAt(pc'[r], loc'[r])
  <2>1. CASE Arrive(r)
    <3>1. /\ \A s \in Requests : s # r => pc'[s] = pc[s] /\ loc'[s] = loc[s]
          /\ pc[r] = "idle" /\ pc'[r] \in {"lock", "count", "resolve"}
          /\ pc'[r] = "count" => loc'[r].op = "register"
      BY <2>1, ArriveFacts
    <3> QED BY <3>1 DEF FlyingAt
  <2>2. CASE Session(r)
    <3>1. pc[r] \in {"store", "resolve", "drop"}
      BY <2>2 DEF Session, Store, Resolve, Drop
    <3>2. \/ Done(r)
          \/ loc[r].op # "login" /\ (Go(r, "drop", loc[r]) \/ Go(r, "fail", loc[r]))
      BY <2>2, ResolveMoves DEF Session, Store, Drop
    <3>3. CASE Done(r)
      BY <3>1, <3>3, DoneFacts DEF FlyingAt
    <3>4. CASE loc[r].op # "login" /\ (Go(r, "drop", loc[r]) \/ Go(r, "fail", loc[r]))
      BY <3>1, <3>4, GoFacts DEF FlyingAt
    <3> QED BY <3>2, <3>3, <3>4
  <2> QED BY <2>1, <2>2
<1>5. r \notin Failing /\ r \notin Closing /\ r \notin Ahead
  BY <1>4 DEF Failing, Closing, Ahead
<1> QED BY <1>1, <1>2, <1>3, <1>4, <1>5, Aside

\* The verdict: a guess is about to be counted.
LEMMA VerifyGuess ==
  ASSUME Inv, Inv', OffInv', OpenInv', GuessInv, NEW r \in Requests, Verify(r) PROVE GuessInv'
<1>1. /\ HandleStep /\ faults' = faults /\ pc[r] = "verify" /\ UNCHANGED <<fails, locks>>
      /\ \/ Go(r, "clearFails", loc[r]) /\ MemSuccess(r) /\ Forgive(r)
         \/ /\ Go(r, "fail", loc[r]) /\ mem' = mem
            /\ guesses' = IF loc[r].op = "login" THEN guesses + 1 ELSE guesses
  BY SameHandle DEF Verify, redis, counters, Op
<1>2. loc[r].proc \in Procs /\ loc[r].op \in Scopes
  BY <1>1 DEF Inv, PlaceInv, Fits, Scopes
<1>3. r \notin Failing /\ r \notin Closing
  BY <1>1 DEF Failing, Closing
<1>4. \A s \in Requests : s # r => pc'[s] = pc[s] /\ loc'[s] = loc[s]
  BY <1>1, GoFacts
<1>5. pc'[r] \in {"clearFails", "fail"} /\ loc'[r] = loc[r]
  BY <1>1, GoFacts
<1>6. CASE loc[r].op # "login"
  <2>1. guesses' = guesses
    BY <1>1, <1>6 DEF Forgive, Op
  <2>2. mem' = mem \/ MemSuccess(r)
    BY <1>1
  <2>3. SameLogins
    BY <1>1, <1>2, <1>6, <2>2, OtherScope DEF SameLogins
  <2>4. r \notin Ahead
    BY <1>5, <1>6 DEF Ahead, FlyingAt
  <2> QED BY <1>1, <1>3, <1>4, <2>1, <2>3, <2>4, Aside
<1>7. CASE loc[r].op = "login" /\ Go(r, "clearFails", loc[r]) /\ Forgive(r)
  BY <1>7, Reset DEF Forgive, Op
<1>8. CASE loc[r].op = "login" /\ Go(r, "fail", loc[r]) /\ mem' = mem /\ guesses' = guesses + 1
  <2>1. pc'[r] = "fail"
    BY <1>8, GoFacts
  <2>2. r \in Failing' /\ r \notin Closing'
    BY <1>5, <1>8, <2>1 DEF Failing, Closing
  <2>3. Cardinality(Failing') = Cardinality(Failing) + 1 /\ Cardinality(Closing') = Cardinality(Closing)
    BY <1>3, <1>4, <2>2, GuessMove, GuessTypes, GuessTypesNext DEF Inv
  <2>4. SameLogins
    BY <1>1, <1>8 DEF SameLogins
  <2>5. r \in Ahead => r \in Stray
    BY <1>1, <1>5, <2>4, FliesOn DEF SameLogins
  <2>6. Cardinality(Ahead) <= Cardinality(Stray) /\ Cardinality(Ahead) \in Nat /\ Cardinality(Stray) \in Nat
    <3>1. Cardinality(Ahead) \in Nat /\ Cardinality(Stray) \in Nat
      BY AheadCount, GuessTypes DEF Inv
    <3>2. Cardinality(Ahead) + (IF r \in Stray THEN 1 ELSE 0) = Cardinality(Stray) + (IF r \in Ahead THEN 1 ELSE 0)
      BY <1>4, <2>4, AheadMove DEF SameLogins
    <3> QED BY <2>5, <3>1, <3>2
  <2>7. Noted' = Noted /\ Tally' = Tally /\ HeldInMemory' = HeldInMemory
    BY <2>4, PlacesSame
  <2>8. Held' = Held
    <3>1. Overlap' = Overlap
      BY DEF Overlap
    <3> QED BY <1>1, <2>3, <3>1 DEF Held
  <2>9. /\ guesses \in Nat /\ Noted \in Nat /\ Cardinality(Tally) \in Nat /\ Cardinality(Failing) \in Nat
        /\ Held \in Nat /\ HeldInMemory \in Nat
    BY GuessTypes DEF Inv
  <2>10. guesses' + Cardinality(Ahead) + Noted + Cardinality(Tally) + Cardinality(Failing) + Held + HeldInMemory
           <= guesses + Cardinality(Stray) + Noted' + Cardinality(Tally') + Cardinality(Failing') + Held' + HeldInMemory'
    BY <1>8, <2>3, <2>6, <2>7, <2>8, <2>9
  <2> QED BY <1>1, <2>10, CalmGuess
<1> QED BY <1>1, <1>6, <1>7, <1>8

\* A success that reaches Redis resets; one that does not changes nothing.
LEMMA ClearGuess ==
  ASSUME Inv, Inv', OffInv, OffInv', OpenInv', GuessInv, NEW r \in Requests, ClearFails(r) \/ ClearLock(r)
  PROVE  GuessInv'
<1>1. HandleStep /\ (faults' = faults \/ enabled)
  BY LimitingHandle, FaultEnabled DEF Limiting
<1>2. pc[r] \in {"clearFails", "clearLock"} /\ mem' = mem
  BY DEF ClearFails, ClearLock
<1>3. /\ guesses' = guesses \/ Forgive(r)
      /\ \/ fails' = fails \/ (Forgive(r) /\ fails' = [fails EXCEPT ![loc[r].op] = NoCount])
      /\ \/ locks' = locks \/ (Forgive(r) /\ locks' = locks \ {loc[r].op})
      /\ Done(r) \/ Go(r, "clearLock", loc[r]) \/ Go(r, "store", loc[r])
  BY DEF ClearFails, ClearLock, Cleared, Op
<1>4. CASE Forgive(r) /\ loc[r].op = "login"
  BY <1>4, Reset DEF Forgive, Op
<1>5. CASE ~(Forgive(r) /\ loc[r].op = "login")
  <2>1. guesses' = guesses
    BY <1>3, <1>5 DEF Forgive, Op
  <2>2. "login" \in locks' <=> "login" \in locks
    BY <1>3, <1>5
  <2>3. fails'["login"].n = fails["login"].n
    <3>1. fails \in [Scopes -> Counts] /\ "login" \in Scopes
      BY DEF Inv, TypeOK, Counts, Scopes
    <3> QED BY <1>3, <1>5, <3>1
  <2>4. SameLogins
    BY <1>2, <2>2, <2>3 DEF SameLogins
  <2>5. /\ \A s \in Requests : s # r => pc'[s] = pc[s] /\ loc'[s] = loc[s]
        /\ pc'[r] \in {"idle", "clearLock", "store"}
    BY <1>3, DoneFacts, GoFacts
  <2>6. r \notin Failing /\ r \notin Closing /\ r \notin Ahead
    BY <1>2, <2>5 DEF Failing, Closing, Ahead, FlyingAt
  <2> QED BY <1>1, <2>1, <2>4, <2>5, <2>6, Aside
<1> QED BY <1>4, <1>5

\* What _record_failure_counter does: the counter, and where the request goes.
LEMMA FailEffect ==
  ASSUME Inv, NEW r \in Requests, Fail(r), NEW s, loc[r].op = s
  PROVE  /\ pc[r] = "fail" /\ loc[r].proc \in Procs /\ s \in Scopes
         /\ fails \in [Scopes -> Counts]
         /\ UNCHANGED <<locks, mem, guesses>>
         /\ \E o \in Outcomes, n \in Nat, last \in BOOLEAN :
              /\ n = fails[s].n + 1
              /\ Command(loc[r].proc, TRUE, last, TRUE, o)
              /\ fails' = IF TookEffect(o) THEN [fails EXCEPT ![s].n = n] ELSE fails
              /\ o # "answered" => Go(r, "memFail", loc[r])
              /\ o = "answered" =>
                   \/ n < Threshold /\ (Done(r) \/ Go(r, "expireFails", [loc[r] EXCEPT !.n = n]))
                   \/ n >= Threshold /\ \E q \in {"expireFails", "setLock"} : Go(r, q, [loc[r] EXCEPT !.n = n])
<1>1. pc[r] = "fail" /\ UNCHANGED <<locks, mem, guesses>>
  BY DEF Fail, history
<1>2. loc[r].proc \in Procs /\ s \in Scopes /\ fails \in [Scopes -> Counts]
  BY <1>1 DEF Inv, PlaceInv, Fits, TypeOK, Counts
<1>3. PICK n : n = fails[Op(r)].n + 1
  OBVIOUS
<1>4. PICK o \in Outcomes :
        /\ Command(Proc(r), TRUE, n > 1 /\ n < Threshold, TRUE, o)
        /\ fails' = IF TookEffect(o) THEN [fails EXCEPT ![Op(r)].n = n] ELSE fails
        /\ CASE o # "answered" -> Go(r, "memFail", loc[r])
             [] o = "answered" /\ n = 1 -> Go(r, "expireFails", [loc[r] EXCEPT !.n = n])
             [] o = "answered" /\ n > 1 /\ n >= Threshold -> Go(r, "setLock", [loc[r] EXCEPT !.n = n])
             [] OTHER -> Done(r)
  BY <1>3, Zenon DEF Fail
<1>5. PICK k \in Nat : k = fails[s].n
  BY <1>2 DEF Counts
<1>6. n = k + 1
  BY <1>3, <1>5 DEF Op
<1>7. n \in Nat /\ n > 0 /\ Threshold \in Nat \ {0}
  BY <1>6, SignInAssumption
<1>8. ASSUME o = "answered"
      PROVE  \/ n < Threshold /\ (Done(r) \/ Go(r, "expireFails", [loc[r] EXCEPT !.n = n]))
             \/ n >= Threshold /\ \E q \in {"expireFails", "setLock"} : Go(r, q, [loc[r] EXCEPT !.n = n])
  <2>1. CASE n = 1
    <3>1. ~(n > 1)
      BY <2>1
    <3>2. Go(r, "expireFails", [loc[r] EXCEPT !.n = n])
      BY <1>4, <1>8, <2>1, <3>1, Zenon
    <3>3. n < Threshold \/ n >= Threshold
      BY <1>7
    <3> QED BY <3>2, <3>3
  <2>2. CASE n # 1 /\ n > 1 /\ n >= Threshold
    <3>1. Go(r, "setLock", [loc[r] EXCEPT !.n = n])
      BY <1>4, <1>8, <2>2, Zenon
    <3> QED BY <2>2, <3>1
  <2>3. CASE n # 1 /\ ~(n > 1 /\ n >= Threshold)
    <3>1. Done(r)
      BY <1>4, <1>8, <2>3, Zenon
    <3>2. n < Threshold
      BY <1>7, <2>3
    <3> QED BY <3>1, <3>2
  <2> QED BY <2>1, <2>2, <2>3
<1>9. PICK last \in BOOLEAN : last = (n > 1 /\ n < Threshold)
  OBVIOUS
<1>10. Command(loc[r].proc, TRUE, last, TRUE, o)
  BY <1>4, <1>9 DEF Proc
<1>11. /\ n = fails[s].n + 1
       /\ fails' = IF TookEffect(o) THEN [fails EXCEPT ![s].n = n] ELSE fails
  BY <1>3, <1>4 DEF Op
<1>12. o # "answered" => Go(r, "memFail", loc[r])
  BY <1>4, Zenon
<1> HIDE DEF Fail
<1> QED BY <1>1, <1>2, <1>7, <1>8, <1>10, <1>11, <1>12

\* Keys and administrators: not a login's business.
LEMMA FailOther ==
  ASSUME Inv, Inv', OffInv, GuessInv, NEW r \in Requests, Fail(r), loc[r].op # "login" PROVE GuessInv'
<1>1. HandleStep /\ (faults' = faults \/ enabled)
  BY LimitingHandle, FaultEnabled DEF Limiting
<1>2. /\ pc[r] = "fail" /\ loc[r].proc \in Procs /\ loc[r].op \in Scopes
      /\ fails \in [Scopes -> Counts] /\ UNCHANGED <<locks, mem, guesses>>
  BY FailEffect
<1>3. fails' = fails \/ \E n : fails' = [fails EXCEPT ![loc[r].op].n = n]
  BY DEF Fail, Op
<1>4. fails'["login"] = fails["login"]
  BY <1>2, <1>3 DEF Counts, Scopes
<1>5. SameLogins
  BY <1>2, <1>4 DEF SameLogins
<1>6. PICK l : /\ l.op = loc[r].op
               /\ Go(r, "memFail", loc[r]) \/ Go(r, "expireFails", l) \/ Go(r, "setLock", l) \/ Done(r)
  BY FailMoves
<1>7. /\ \A s \in Requests : s # r => pc'[s] = pc[s] /\ loc'[s] = loc[s]
      /\ pc'[r] \in {"idle", "memFail", "expireFails", "setLock"}
      /\ loc'[r].op # "login"
  BY <1>6, DoneFacts, GoFacts DEF Blank
<1>8. r \notin Failing /\ r \notin Closing /\ r \notin Ahead
  BY <1>2, <1>7 DEF Failing, Closing, Ahead, FlyingAt
<1> QED BY <1>1, <1>2, <1>5, <1>7, <1>8, Aside

\* A wrong password is counted in Redis ...
LEMMA FailAnswered ==
  ASSUME Inv, Inv', GuessInv, HandleStep, faults' = faults, NEW r \in Requests,
         pc[r] = "fail", loc[r].op = "login", Available(loc[r].proc), UNCHANGED <<locks, guesses, mem>>,
         NEW n \in Nat, n = fails["login"].n + 1, fails'["login"].n = n,
         \/ n < Threshold /\ (Done(r) \/ Go(r, "expireFails", [loc[r] EXCEPT !.n = n]))
         \/ n >= Threshold /\ \E q \in {"expireFails", "setLock"} : Go(r, q, [loc[r] EXCEPT !.n = n])
  PROVE  GuessInv'
<1>1. /\ \A s \in Requests : s # r => pc'[s] = pc[s] /\ loc'[s] = loc[s]
      /\ pc'[r] \in {"idle", "expireFails", "setLock"}
      /\ n >= Threshold => pc'[r] # "idle" /\ loc'[r].op = "login" /\ loc'[r].n = n
      /\ n < Threshold => loc'[r] = Blank \/ loc'[r].n = n
  <2>1. PICK l : l = [loc[r] EXCEPT !.n = n]
    OBVIOUS
  <2>2. l.n = n /\ l.op = "login"
    <3>1. loc[r] \in Locals
      BY DEF Inv, TypeOK
    <3> QED BY <2>1, <3>1 DEF Locals
  <2>3. ~(n < Threshold /\ n >= Threshold)
    BY SignInAssumption
  <2>4. CASE Done(r) /\ n < Threshold
    BY <2>3, <2>4, DoneFacts
  <2>5. CASE n < Threshold /\ Go(r, "expireFails", l)
    BY <2>2, <2>3, <2>5, GoFacts
  <2>6. CASE n >= Threshold /\ \E q \in {"expireFails", "setLock"} : Go(r, q, l)
    BY <2>2, <2>3, <2>6, GoFacts
  <2> QED BY <2>1, <2>4, <2>5, <2>6
<1>2. r \in Failing /\ r \notin Closing /\ r \notin Failing' /\ r \notin Ahead
  BY <1>1 DEF Failing, Closing, Ahead, FlyingAt
<1>3. r \in Closing' <=> n >= Threshold
  <2>1. Threshold \in Nat \ {0} /\ Blank.n = 0
    BY SignInAssumption DEF Blank
  <2>2. CASE n >= Threshold
    BY <1>1, <2>2 DEF Closing
  <2>3. CASE ~(n >= Threshold)
    <3>1. ~(loc'[r].n >= Threshold)
      BY <1>1, <2>1, <2>3
    <3> QED BY <2>3, <3>1 DEF Closing
  <2> QED BY <2>2, <2>3
<1>4. r \in Stray <=> "login" \in locks
  BY DEF Stray, Flying, FlyingAt, Shut
<1>5. /\ guesses \in Nat /\ Noted \in Nat /\ Cardinality(Tally) \in Nat /\ Cardinality(Failing) \in Nat
      /\ Held \in Nat /\ HeldInMemory \in Nat /\ Cardinality(Stray) \in Nat /\ Cardinality(Closing) \in Nat
      /\ Cardinality(Ahead) \in Nat /\ Cardinality(Failing') \in Nat /\ Cardinality(Closing') \in Nat
      /\ fails["login"].n \in Nat /\ Threshold - 1 \in Nat
  BY AheadCount, GuessTypes, GuessTypesNext, OverlapType DEF Inv
<1>6. Cardinality(Failing') + 1 = Cardinality(Failing)
  BY <1>1, <1>2, <1>5, GuessMove
<1>7. Cardinality(Closing') = Cardinality(Closing) + (IF n >= Threshold THEN 1 ELSE 0)
  <2>1. Cardinality(Closing') + (IF r \in Closing THEN 1 ELSE 0)
          = Cardinality(Closing) + (IF r \in Closing' THEN 1 ELSE 0)
    BY <1>1, GuessMove
  <2> QED BY <1>2, <1>3, <1>5, <2>1
<1>8. Cardinality(Ahead) + (IF "login" \in locks THEN 1 ELSE 0) = Cardinality(Stray)
  <2>1. Cardinality(Ahead) + (IF r \in Stray THEN 1 ELSE 0) = Cardinality(Stray) + (IF r \in Ahead THEN 1 ELSE 0)
    BY <1>1, AheadMove
  <2> QED BY <1>2, <1>4, <1>5, <2>1
<1>9. Tally' = Tally /\ HeldInMemory' = HeldInMemory
  <2>1. [p \in Procs |-> mem'[p].fails["login"]] = [p \in Procs |-> mem[p].fails["login"]]
    OBVIOUS
  <2>2. Lockers' = Lockers
    BY DEF Lockers
  <2> QED BY <2>1, <2>2 DEF Tally, HeldInMemory, Overlap
<1>10. Noted <= Noted' /\ (n < Threshold => Noted' = Noted + 1) /\ Noted' \in Nat
  <2>1. Noted = IF n - 1 < Threshold - 1 THEN n - 1 ELSE Threshold - 1
    BY <1>5 DEF Noted
  <2>2. Noted' = IF n < Threshold - 1 THEN n ELSE Threshold - 1
    BY DEF Noted
  <2>3. Threshold \in Nat
    BY SignInAssumption
  <2> QED BY <1>5, <2>1, <2>2, <2>3
<1>11. Held' = IF "login" \in locks THEN Held ELSE Held + (IF n >= Threshold THEN 1 ELSE 0)
  BY <1>7 DEF Held, Overlap
<1>12. guesses' + Cardinality(Ahead) + Noted + Cardinality(Tally) + Cardinality(Failing) + Held + HeldInMemory
         <= guesses + Cardinality(Stray) + Noted' + Cardinality(Tally') + Cardinality(Failing') + Held' + HeldInMemory'
  <2>1. Threshold \in Nat
    BY SignInAssumption
  <2>2. CASE n < Threshold
    <3>1. Held' = Held /\ Cardinality(Ahead) <= Cardinality(Stray)
      BY <1>5, <1>8, <1>11, <2>1, <2>2
    <3> QED BY <1>5, <1>6, <1>9, <1>10, <2>2, <3>1
  <2>3. CASE ~(n < Threshold)
    <3>1. n >= Threshold
      BY <2>1, <2>3
    <3>2. Cardinality(Ahead) + Held + 1 <= Cardinality(Stray) + Held' /\ Held' \in Nat
      BY <1>5, <1>8, <1>11, <3>1
    <3> QED BY <1>5, <1>6, <1>9, <1>10, <3>2
  <2> QED BY <2>2, <2>3
<1> QED BY <1>12, CalmGuess

\* ... or, when Redis is out of reach, by the process.
LEMMA MemFailGuess == ASSUME Inv, Inv', GuessInv, NEW r \in Requests, MemFailure(r) PROVE GuessInv'
<1> HandleStep /\ faults' = faults /\ pc[r] = "memFail" /\ loc[r].proc \in Procs /\ loc[r].op \in Scopes
    /\ UNCHANGED <<fails, locks, guesses>>
  <2>1. pc[r] = "memFail" /\ UNCHANGED <<redis, fails, locks, guesses>>
    BY DEF MemFailure, counters, history
  <2>2. loc[r].proc \in Procs /\ loc[r].op \in Scopes
    BY <2>1 DEF Inv, PlaceInv, Fits
  <2> QED BY <2>1, <2>2, SameHandle DEF redis
<1>0. CASE loc[r].op # "login"
  <2>1. Done(r)
    BY DEF MemFailure
  <2>2. (\A s \in Requests : s # r => pc'[s] = pc[s] /\ loc'[s] = loc[s]) /\ pc'[r] = "idle"
    BY <2>1, DoneFacts
  <2>3. SameLogins
    BY <1>0, OtherScope DEF SameLogins
  <2>4. r \notin Failing /\ r \notin Closing /\ r \notin Ahead
    BY <1>0, <2>2 DEF Failing, Closing, Ahead, FlyingAt
  <2> QED BY <2>2, <2>3, <2>4, Aside
<1> SUFFICES ASSUME loc[r].op = "login" PROVE GuessInv'
  BY <1>0
<1>1. /\ Done(r)
      /\ Cardinality(Tally) <= Cardinality(Tally') /\ HeldInMemory <= HeldInMemory'
      /\ \/ /\ Cardinality(Tally') = Cardinality(Tally) + 1
            /\ \A q \in Procs : "login" \in mem'[q].locks <=> "login" \in mem[q].locks
         \/ /\ "login" \in mem[loc[r].proc].locks
            /\ \A q \in Procs : "login" \in mem'[q].locks <=> "login" \in mem[q].locks
         \/ HeldInMemory' = HeldInMemory + Overlap
  BY MemoryFailureLogin
<1>2. (\A s \in Requests : s # r => pc'[s] = pc[s] /\ loc'[s] = loc[s]) /\ pc'[r] = "idle"
  BY <1>1, DoneFacts
<1>3. /\ r \in Failing /\ r \notin Closing /\ r \notin Failing' /\ r \notin Closing' /\ r \notin Ahead
      /\ r \in Flying /\ r \notin Flying'
  BY <1>2 DEF Failing, Closing, Ahead, FlyingAt, Flying
<1>4. r \in Stray <=> "login" \in mem[loc[r].proc].locks
  BY DEF Stray, Flying, FlyingAt, Shut
<1>5. /\ guesses \in Nat /\ Noted \in Nat /\ Cardinality(Tally) \in Nat /\ Cardinality(Failing) \in Nat
      /\ Held \in Nat /\ HeldInMemory \in Nat /\ Cardinality(Stray) \in Nat /\ Cardinality(Closing) \in Nat
      /\ Cardinality(Flying) \in Nat /\ Cardinality(Flying) <= Overlap /\ Overlap \in Nat
  BY GuessTypes, OverlapType DEF Inv
<1>6. /\ Cardinality(Ahead) \in Nat /\ Cardinality(Failing') \in Nat /\ Cardinality(Closing') \in Nat
      /\ Cardinality(Tally') \in Nat /\ HeldInMemory' \in Nat /\ Cardinality(Flying') \in Nat
      /\ Cardinality(Ahead) <= Cardinality(Flying')
  BY AheadCount, GuessTypesNext DEF Inv
<1>7. /\ Cardinality(Failing') + 1 = Cardinality(Failing) /\ Cardinality(Closing') = Cardinality(Closing)
      /\ Cardinality(Flying') + 1 = Cardinality(Flying)
  BY <1>2, <1>3, <1>5, <1>6, GuessMove
<1>8. Noted' = Noted /\ Held' = Held
  BY <1>7 DEF Noted, Held, Overlap
<1>9. Cardinality(Ahead) + Cardinality(Tally) + HeldInMemory + 1
         <= Cardinality(Stray) + Cardinality(Tally') + HeldInMemory'
  <2>1. CASE HeldInMemory' = HeldInMemory + Overlap
    <3>1. Cardinality(Ahead) + 1 <= Overlap
      BY <1>5, <1>6, <1>7
    <3> QED BY <1>1, <1>5, <1>6, <2>1, <3>1
  <2>2. CASE \A q \in Procs : "login" \in mem'[q].locks <=> "login" \in mem[q].locks
    <3>1. Cardinality(Ahead) + (IF r \in Stray THEN 1 ELSE 0) = Cardinality(Stray) + (IF r \in Ahead THEN 1 ELSE 0)
      BY <1>2, <2>2, AheadMove
    <3>2. Cardinality(Ahead) + (IF r \in Stray THEN 1 ELSE 0) = Cardinality(Stray)
      BY <1>3, <1>5, <3>1
    <3>3. CASE HeldInMemory' # HeldInMemory + Overlap
      <4>1. Cardinality(Tally') = Cardinality(Tally) + 1 \/ r \in Stray
        BY <1>1, <1>4, <3>3
      <4> QED BY <1>1, <1>5, <1>6, <3>2, <4>1
    <3> QED BY <2>1, <3>3
  <2> QED BY <1>1, <2>1, <2>2
<1>10. guesses' + Cardinality(Ahead) + Noted + Cardinality(Tally) + Cardinality(Failing) + Held + HeldInMemory
         <= guesses + Cardinality(Stray) + Noted' + Cardinality(Tally') + Cardinality(Failing') + Held' + HeldInMemory'
  BY <1>5, <1>6, <1>7, <1>8, <1>9
<1> QED BY <1>10, CalmGuess

\* An error sends the failure to the memory: the request still owes it.
LEMMA FailGuess ==
  ASSUME Inv, Inv', OffInv, GuessInv, NEW r \in Requests, Fail(r) PROVE GuessInv'
<1>1. CASE loc[r].op # "login"
  BY <1>1, FailOther
<1>2. CASE loc[r].op = "login"
  <2>1. HandleStep /\ (faults' = faults \/ enabled)
    BY LimitingHandle, FaultEnabled DEF Limiting
  <2>2. /\ pc[r] = "fail" /\ loc[r].proc \in Procs
        /\ fails \in [Scopes -> Counts] /\ UNCHANGED <<locks, mem, guesses>>
    BY FailEffect
  <2>3. PICK o \in Outcomes, n \in Nat, last \in BOOLEAN :
              /\ n = fails["login"].n + 1
              /\ Command(loc[r].proc, TRUE, last, TRUE, o)
              /\ fails' = IF TookEffect(o) THEN [fails EXCEPT !["login"].n = n] ELSE fails
              /\ o # "answered" => Go(r, "memFail", loc[r])
              /\ o = "answered" =>
                   \/ n < Threshold /\ (Done(r) \/ Go(r, "expireFails", [loc[r] EXCEPT !.n = n]))
                   \/ n >= Threshold /\ \E q \in {"expireFails", "setLock"} : Go(r, q, [loc[r] EXCEPT !.n = n])
    BY <1>2, FailEffect
  <2>4. /\ o \in {"answered", "unsent"} => faults' = faults
        /\ o \in {"lost", "failed"} => faults' = faults + 1
        /\ o = "unsent" => ~Available(loc[r].proc)
        /\ o # "unsent" => Available(loc[r].proc)
    BY <2>2, <2>3, CommandHandle
  <2>5. fails["login"].n \in Nat /\ fails'["login"].n = IF TookEffect(o) THEN n ELSE fails["login"].n
    <3>1. "login" \in Scopes
      BY DEF Scopes
    <3> QED BY <2>2, <2>3, <3>1 DEF Counts
  <2>6. CASE o = "answered"
    <3>1. fails'["login"].n = n /\ faults' = faults /\ Available(loc[r].proc)
      BY <2>4, <2>5, <2>6 DEF TookEffect
    <3> QED BY <1>2, <2>1, <2>2, <2>3, <2>6, <3>1, FailAnswered
  <2>7. CASE o \in {"unsent", "lost", "failed"}
    <3>1. /\ \A s \in Requests : s # r => pc'[s] = pc[s] /\ loc'[s] = loc[s]
          /\ pc'[r] = "memFail" /\ loc'[r] = loc[r]
      BY <2>3, <2>7, GoFacts
    <3>2. r \in Failing /\ r \notin Closing /\ r \in Failing' /\ r \notin Closing' /\ r \in Flying /\ r \in Flying'
      BY <1>2, <2>2, <3>1 DEF Failing, Closing, FlyingAt, Flying
    <3>3. CASE o = "unsent"
      <4>1. fails' = fails
        BY <2>3, <3>3 DEF TookEffect
      <4>2. SameLogins
        BY <2>2, <4>1 DEF SameLogins
      <4>3. r \in Ahead => r \in Stray
        BY <1>2, <2>2, <2>4, <3>1, <3>2, <3>3 DEF Ahead, Stray, Shut
      <4> QED BY <2>1, <2>2, <3>1, <3>2, <4>2, <4>3, Aside
    <3>4. CASE o \in {"lost", "failed"}
      <4>1. faults' = faults + 1 /\ faults \in Nat
        BY <2>4, <3>4, RedisAssumption DEF Inv, TypeOK, HandleTypeOK
      <4>2. /\ Cardinality(Failing) \in Nat /\ Cardinality(Closing) \in Nat /\ Held \in Nat
            /\ Cardinality(Tally) \in Nat /\ HeldInMemory \in Nat /\ Overlap \in Nat
            /\ Cardinality(Failing') \in Nat /\ Cardinality(Closing') \in Nat /\ Cardinality(Flying') \in Nat
            /\ Cardinality(Flying') + Cardinality(Closing') <= Overlap
        BY GuessTypes, GuessTypesNext, OverlapType DEF Inv
      <4>3. Cardinality(Failing') = Cardinality(Failing) /\ Cardinality(Closing') = Cardinality(Closing)
        BY <3>1, <3>2, <4>2, GuessMove
      <4>4. Held' = Held
        BY <2>2, <4>3 DEF Held, Overlap
      <4>5. Noted <= Noted'
        <5>1. fails["login"].n <= fails'["login"].n /\ fails'["login"].n \in Nat
          BY <2>3, <2>5
        <5>2. Threshold - 1 \in Nat
          BY OverlapType
        <5> QED BY <2>5, <5>1, <5>2 DEF Noted
      <4>6. Tally' = Tally /\ HeldInMemory' = HeldInMemory
        <5>1. [p \in Procs |-> mem'[p].fails["login"]] = [p \in Procs |-> mem[p].fails["login"]]
          BY <2>2
        <5>2. Lockers' = Lockers
          BY <2>2 DEF Lockers
        <5> QED BY <5>1, <5>2 DEF Tally, HeldInMemory, Overlap
      <4>7. Cardinality(Flying') + Cardinality(Failing) + Held <= Overlap + Cardinality(Failing') + Held'
        BY <4>2, <4>3, <4>4
      <4>8. enabled /\ Cardinality(Tally) <= Cardinality(Tally') /\ HeldInMemory <= HeldInMemory'
        BY <2>1, <4>1, <4>2, <4>6
      <4> QED BY <2>1, <2>2, <4>1, <4>5, <4>7, <4>8, FaultyGuess
    <3> QED BY <2>7, <3>3, <3>4
  <2> QED BY <2>6, <2>7 DEF Outcomes
<1> QED BY <1>1, <1>2

\* The expiry of the counter, the lock: what they do.
LEMMA LockEffect ==
  ASSUME Inv, NEW r \in Requests, ExpireFails(r) \/ SetLock(r)
  PROVE  /\ pc[r] \in {"expireFails", "setLock"} /\ loc[r].proc \in Procs /\ loc[r].op \in Scopes
         /\ guesses' = guesses /\ \A s \in Scopes : fails'[s].n = fails[s].n
         /\ locks' \in {locks, locks \cup {loc[r].op}}
         /\ mem' = mem
         /\ \E o \in Outcomes, last \in BOOLEAN :
              /\ Command(loc[r].proc, FALSE, last, TRUE, o)
              /\ o # "answered" => Go(r, "memFail", loc[r])
              /\ o = "answered" =>
                   \/ SetLock(r) /\ pc[r] = "setLock" /\ Done(r) /\ locks' = locks \cup {loc[r].op}
                   \/ /\ pc[r] = "expireFails" /\ locks' = locks
                      /\ IF loc[r].n >= Threshold THEN Go(r, "setLock", loc[r]) ELSE Done(r)
<1>1. pc[r] \in {"expireFails", "setLock"} /\ guesses' = guesses /\ mem' = mem
  BY DEF ExpireFails, SetLock, history
<1>2. loc[r].proc \in Procs /\ loc[r].op \in Scopes
  BY <1>1 DEF Inv, PlaceInv, Fits
<1>3. fails \in [Scopes -> Counts]
  BY DEF Inv, TypeOK, Counts
<1>4. CASE ExpireFails(r)
  <2>1. \A s \in Scopes : fails'[s].n = fails[s].n
    <3>1. fails' = fails \/ fails' = [fails EXCEPT ![loc[r].op].ttl = TRUE]
      BY <1>4 DEF ExpireFails, Op
    <3> QED BY <1>2, <1>3, <3>1 DEF Counts
  <2>2. pc[r] = "expireFails" /\ locks' = locks
    BY <1>4 DEF ExpireFails
  <2>3. PICK o \in Outcomes :
          /\ Command(Proc(r), FALSE, loc[r].n < Threshold, TRUE, o)
          /\ CASE o # "answered" -> Go(r, "memFail", loc[r])
               [] o = "answered" /\ loc[r].n >= Threshold -> Go(r, "setLock", loc[r])
               [] OTHER -> Done(r)
    BY <1>4, Zenon DEF ExpireFails
  <2>4. PICK last \in BOOLEAN : last = (loc[r].n < Threshold)
    <3>1. (loc[r].n < Threshold) \in BOOLEAN
      BY SignInAssumption DEF Inv, TypeOK, Locals
    <3> QED BY <3>1
  <2>5. Command(loc[r].proc, FALSE, last, TRUE, o)
    BY <2>3, <2>4 DEF Proc
  <2>6. /\ o # "answered" => Go(r, "memFail", loc[r])
        /\ o = "answered" => IF loc[r].n >= Threshold THEN Go(r, "setLock", loc[r]) ELSE Done(r)
    BY <2>3, Zenon
  <2> HIDE DEF ExpireFails
  <2> QED BY <1>1, <1>2, <2>1, <2>2, <2>5, <2>6
<1>5. CASE SetLock(r)
  <2>1. /\ pc[r] = "setLock" /\ fails' = fails
        /\ \E o \in Outcomes :
             /\ Command(loc[r].proc, FALSE, TRUE, TRUE, o)
             /\ locks' = IF TookEffect(o) THEN locks \cup {loc[r].op} ELSE locks
             /\ IF o # "answered" THEN Go(r, "memFail", loc[r]) ELSE Done(r)
    BY <1>5 DEF SetLock, Op, Proc
  <2> QED BY <1>1, <1>2, <1>5, <2>1 DEF TookEffect
<1> QED BY <1>4, <1>5

LEMMA LockMoves ==
  ASSUME Inv, NEW r \in Requests, ExpireFails(r) \/ SetLock(r)
  PROVE  /\ \A s \in Requests : s # r => pc'[s] = pc[s] /\ loc'[s] = loc[s]
         /\ pc'[r] \in {"idle", "setLock", "memFail"}
         /\ pc'[r] # "idle" => loc'[r] = loc[r]
<1>1. Done(r) \/ Go(r, "setLock", loc[r]) \/ Go(r, "memFail", loc[r])
  <2>1. PICK o \in Outcomes :
              /\ o # "answered" => Go(r, "memFail", loc[r])
              /\ o = "answered" =>
                   \/ SetLock(r) /\ pc[r] = "setLock" /\ Done(r) /\ locks' = locks \cup {loc[r].op}
                   \/ /\ pc[r] = "expireFails" /\ locks' = locks
                      /\ IF loc[r].n >= Threshold THEN Go(r, "setLock", loc[r]) ELSE Done(r)
    BY LockEffect
  <2> QED BY <2>1
<1> QED BY <1>1, DoneFacts, GoFacts

LEMMA LockOther ==
  ASSUME Inv, Inv', OffInv, GuessInv, NEW r \in Requests, ExpireFails(r) \/ SetLock(r), loc[r].op # "login"
  PROVE  GuessInv'
<1>1. HandleStep /\ (faults' = faults \/ enabled)
  BY LimitingHandle, FaultEnabled DEF Limiting
<1>2. /\ pc[r] \in {"expireFails", "setLock"} /\ loc[r].proc \in Procs /\ loc[r].op \in Scopes
      /\ guesses' = guesses /\ \A s \in Scopes : fails'[s].n = fails[s].n
      /\ locks' \in {locks, locks \cup {loc[r].op}} /\ mem' = mem
  BY LockEffect
<1>3. SameLogins
  BY <1>2 DEF SameLogins, Scopes
<1>4. /\ \A s \in Requests : s # r => pc'[s] = pc[s] /\ loc'[s] = loc[s]
      /\ pc'[r] # "idle" => loc'[r] = loc[r]
      /\ pc'[r] \in {"idle", "setLock", "memFail"}
  BY LockMoves
<1>5. r \notin Failing /\ r \notin Closing /\ r \notin Ahead
  BY <1>2, <1>4 DEF Failing, Closing, Ahead, FlyingAt
<1> QED BY <1>1, <1>2, <1>3, <1>4, <1>5, Aside

\* Before the lock, each request that is past the check or about to set the
\* lock is one of Overlap; after it the lock pays for all of them.
LEMMA LockGuess ==
  ASSUME Inv, Inv', OffInv, GuessInv, NEW r \in Requests, ExpireFails(r) \/ SetLock(r) PROVE GuessInv'
<1>1. CASE loc[r].op # "login"
  BY <1>1, LockOther
<1>2. CASE loc[r].op = "login"
  <2>1. HandleStep /\ (faults' = faults \/ enabled)
    BY LimitingHandle, FaultEnabled DEF Limiting
  <2>2. /\ pc[r] \in {"expireFails", "setLock"} /\ loc[r].proc \in Procs
        /\ guesses' = guesses /\ \A s \in Scopes : fails'[s].n = fails[s].n
        /\ locks' \in {locks, locks \cup {loc[r].op}} /\ mem' = mem
    BY LockEffect
  <2>3. PICK o \in Outcomes, last \in BOOLEAN :
              /\ Command(loc[r].proc, FALSE, last, TRUE, o)
              /\ o # "answered" => Go(r, "memFail", loc[r])
              /\ o = "answered" =>
                   \/ SetLock(r) /\ pc[r] = "setLock" /\ Done(r) /\ locks' = locks \cup {loc[r].op}
                   \/ /\ pc[r] = "expireFails" /\ locks' = locks
                      /\ IF loc[r].n >= Threshold THEN Go(r, "setLock", loc[r]) ELSE Done(r)
    BY LockEffect
  <2>4. /\ o = "answered" => faults' = faults
        /\ o # "answered" => faults' = faults + 1
    BY <2>2, <2>3, CommandHandle DEF Outcomes
  <2>5. /\ \A s \in Requests : s # r => pc'[s] = pc[s] /\ loc'[s] = loc[s]
        /\ o = "answered" => pc'[r] \in {"idle", "setLock"}
        /\ o # "answered" => pc'[r] = "memFail" /\ loc'[r] = loc[r]
    <3>1. (o = "answered" /\ Done(r)) \/ (o = "answered" /\ Go(r, "setLock", loc[r]))
            \/ (o # "answered" /\ Go(r, "memFail", loc[r]))
      BY <2>3
    <3> QED BY <3>1, DoneFacts, GoFacts
  <2>6. r \notin Failing /\ r \notin Flying /\ r \notin Stray
    BY <2>2 DEF Failing, Flying, Stray, FlyingAt
  <2>7. /\ guesses \in Nat /\ Noted \in Nat /\ Cardinality(Tally) \in Nat /\ Cardinality(Failing) \in Nat
        /\ Held \in Nat /\ HeldInMemory \in Nat /\ Cardinality(Stray) \in Nat /\ Cardinality(Closing) \in Nat
        /\ Cardinality(Flying) \in Nat /\ Cardinality(Flying) + Cardinality(Closing) <= Overlap /\ Overlap \in Nat
    BY GuessTypes, OverlapType DEF Inv
  <2>8. /\ Cardinality(Ahead) \in Nat /\ Cardinality(Failing') \in Nat /\ Cardinality(Flying') \in Nat
        /\ Cardinality(Closing') \in Nat /\ Held' \in Nat /\ Cardinality(Ahead) <= Cardinality(Flying')
        /\ Cardinality(Flying') <= Overlap
    BY AheadCount, GuessTypesNext, OverlapType DEF Inv
  <2>9. fails'["login"].n = fails["login"].n
    BY <2>2 DEF Scopes
  <2>10. Noted' = Noted
    BY <2>9 DEF Noted
  <2>11. Overlap' = Overlap
    BY DEF Overlap
  <2>12. Tally' = Tally /\ HeldInMemory' = HeldInMemory
    <3>1. [p \in Procs |-> mem'[p].fails["login"]] = [p \in Procs |-> mem[p].fails["login"]]
      BY <2>2
    <3>2. Lockers' = Lockers
      BY <2>2 DEF Lockers
    <3> QED BY <3>1, <3>2 DEF Tally, HeldInMemory, Overlap
  <2>13. CASE o # "answered"
    <3>1. r \in Failing' /\ r \notin Closing'
      BY <1>2, <2>5, <2>13 DEF Failing, Closing
    <3>2. Cardinality(Failing') = Cardinality(Failing) + 1
      BY <2>5, <2>6, <2>7, <2>8, <3>1, GuessMove
    <3>3. Held <= Held' + 1
      <4>1. Cardinality(Closing) <= Cardinality(Closing') + 1
        BY <2>5, <2>7, <2>8, <3>1, GuessMove
      <4>2. CASE "login" \in locks'
        <5>1. Held' = Overlap
          BY <2>11, <4>2 DEF Held
        <5> QED BY <2>7, <5>1 DEF Held
      <4>3. CASE "login" \notin locks'
        <5>1. Held' = Cardinality(Closing') /\ Held = Cardinality(Closing)
          BY <2>2, <4>3 DEF Held
        <5> QED BY <4>1, <5>1
      <4> QED BY <4>2, <4>3
    <3>4. Cardinality(Flying') + Cardinality(Failing) + Held <= Overlap + Cardinality(Failing') + Held'
      <4>1. ASSUME NEW a \in Nat, NEW b \in Nat, NEW c \in Nat, NEW d \in Nat, NEW m \in Nat, NEW n \in Nat,
                   a <= m, c = b + 1, d <= n + 1
            PROVE  a + b + d <= m + c + n
        BY <4>1
      <4> QED BY <2>7, <2>8, <3>2, <3>3, <4>1
    <3>5. enabled /\ faults' = faults + 1 /\ faults \in Nat
      BY <2>1, <2>4, <2>13, RedisAssumption DEF Inv, TypeOK, HandleTypeOK
    <3>6. Noted <= Noted' /\ Cardinality(Tally) <= Cardinality(Tally') /\ HeldInMemory <= HeldInMemory'
      BY <2>7, <2>10, <2>12
    <3> QED BY <2>1, <2>2, <3>4, <3>5, <3>6, FaultyGuess
  <2>14. CASE o = "answered" /\ pc[r] = "setLock"
    <3>1. "login" \in locks'
      BY <1>2, <2>3, <2>14
    <3>2. r \notin Failing' /\ r \notin Flying' /\ r \notin Ahead
      BY <2>5, <2>14 DEF Failing, Flying, Ahead, FlyingAt
    <3>3. Cardinality(Failing') = Cardinality(Failing) /\ Cardinality(Flying') = Cardinality(Flying)
      BY <2>5, <2>6, <2>7, <2>8, <3>2, GuessMove
    <3>4. Held' = Overlap
      BY <2>11, <3>1 DEF Held
    <3>5. Cardinality(Ahead) + Held <= Cardinality(Stray) + Held'
      <4>1. CASE "login" \in locks
        <5>1. Held = Overlap
          BY <4>1 DEF Held
        <5>2. Cardinality(Ahead) + (IF r \in Stray THEN 1 ELSE 0) = Cardinality(Stray) + (IF r \in Ahead THEN 1 ELSE 0)
          BY <2>2, <2>5, <3>1, <4>1, AheadMove
        <5>3. Cardinality(Ahead) = Cardinality(Stray)
          BY <2>6, <2>7, <2>8, <3>2, <5>2
        <5> QED BY <2>7, <2>8, <3>4, <5>1, <5>3
      <4>2. CASE "login" \notin locks
        <5>1. Held = Cardinality(Closing)
          BY <4>2 DEF Held
        <5> QED BY <2>7, <2>8, <3>3, <3>4, <5>1
      <4> QED BY <4>1, <4>2
    <3>6. guesses' + Cardinality(Ahead) + Noted + Cardinality(Tally) + Cardinality(Failing) + Held + HeldInMemory
            <= guesses + Cardinality(Stray) + Noted' + Cardinality(Tally') + Cardinality(Failing') + Held' + HeldInMemory'
      BY <2>2, <2>7, <2>8, <2>10, <2>12, <3>3, <3>5
    <3> QED BY <2>1, <2>4, <2>14, <3>6, CalmGuess
  <2>15. CASE o = "answered" /\ pc[r] = "expireFails"
    <3>1. locks' = locks /\ IF loc[r].n >= Threshold THEN Go(r, "setLock", loc[r]) ELSE Done(r)
      BY <2>3, <2>15
    <3>2. SameLogins
      BY <2>2, <2>9, <3>1 DEF SameLogins
    <3>3. r \in Closing => r \in Closing'
      BY <1>2, <3>1, GoFacts DEF Closing
    <3>4. r \notin Ahead
      BY <2>5, <2>15 DEF Ahead, FlyingAt
    <3> QED BY <2>1, <2>2, <2>4, <2>5, <2>6, <2>15, <3>2, <3>3, <3>4, Aside
  <2> QED BY <2>2, <2>13, <2>14, <2>15
<1> QED BY <1>1, <1>2

LEMMA GuessStep ==
  ASSUME Inv, Inv', OffInv, OffInv', OpenInv', GuessInv, [Next]_vars PROVE GuessInv'
<1>1. CASE \E r \in Requests : CheckLock(r) \/ Count(r) \/ Bump(r) \/ ExpireCount(r) \/ MemCount(r)
  BY <1>1, CheckLockGuess, MeterGuess
<1>2. CASE \E r \in Requests : Verify(r) \/ ClearFails(r) \/ ClearLock(r)
  BY <1>2, VerifyGuess, ClearGuess
<1>3. CASE \E r \in Requests : Fail(r) \/ ExpireFails(r) \/ SetLock(r) \/ MemFailure(r)
  BY <1>3, FailGuess, LockGuess, MemFailGuess
<1>4. CASE \E r \in Requests : Arrive(r) \/ Session(r)
  BY <1>4, SessionGuess
<1>5. CASE \/ \E s \in Scopes : FailWindow(s) \/ LockEnds(s)
           \/ \E p \in Procs, s \in Scopes : MemAge(p, s) \/ MemLockEnds(p, s)
           \/ \E p \in Procs : Crash(p)
  <2>1. guesses' = 0
    BY <1>5 DEF FailWindow, LockEnds, MemAge, MemLockEnds, Crash
  <2> QED BY <2>1, Reset
<1>6. CASE \/ \E t \in Tokens : SessionExpires(t)
           \/ \E p \in Procs : BreakerCloses(p)
           \/ UNCHANGED vars
  <2>1. UNCHANGED <<limits, pc, loc, guesses, faults>>
    BY <1>6 DEF SessionExpires, BreakerCloses, Cooldown, vars, history, redis
  <2>2. SameLogins
    BY <2>1 DEF SameLogins, limits, counters
  <2>3. HandleStep
    BY <1>6, NextHandle
  <2> QED BY <2>1, <2>2, <2>3, AllAside
<1>7. CASE NextMinute
  <2>1. UNCHANGED <<redis, fails, locks, guesses, pc, loc>>
    BY <1>7 DEF NextMinute, Passing
  <2>2. \A p \in Procs : mem'[p].locks = mem[p].locks /\ mem'[p].fails = mem[p].fails
    <3>1. mem \in [Procs -> Memory]
      BY DEF Inv, TypeOK, Memory
    <3>2. mem' = [p \in Procs |-> [mem[p] EXCEPT !.reqs =
                     [c \in Metered |-> [old |-> @[c].old + @[c].new, new |-> 0]]]]
      BY <1>7 DEF NextMinute
    <3> QED BY <3>1, <3>2 DEF Memory
  <2>3. SameLogins
    BY <2>1, <2>2 DEF SameLogins
  <2> QED BY <2>1, <2>3, SameHandle, AllAside DEF redis
<1> QED BY <1>1, <1>2, <1>3, <1>4, <1>5, <1>6, <1>7 DEF Next, Limiting

-----------------------------------------------------------------------------
(* The bounds.                                                             *)

LimitInv == OffInv /\ CalmInv /\ OpenInv /\ AttemptInv /\ LateInv /\ GuessInv

LEMMA InitLimits == Init => LimitInv
<1> SUFFICES ASSUME Init PROVE LimitInv
  OBVIOUS
<1>1. Inv
  BY InitInv
<1>2. /\ faults = 0 /\ (\A p \in Procs : ~blocked[p] /\ mem[p] = Forgotten)
      /\ fails = [s \in Scopes |-> NoCount] /\ locks = {} /\ reqs = [c \in Metered |-> 0]
      /\ \A r \in Requests : pc[r] = "idle" /\ loc[r] = Blank
      /\ minute = 0 /\ guesses = 0 /\ admitted = [c \in Metered |-> 0] /\ late = 0
  BY DEF Init, HandleInit
<1>3. OffInv /\ CalmInv
  BY <1>2 DEF OffInv, OffPlace, CalmInv
<1>4. Open = {} /\ Stray = {}
  BY <1>2 DEF Open, Stray, Flying, FlyingAt
<1>5. Cardinality(Open) = 0 /\ Cardinality(Stray) = 0
  BY <1>4, FS_EmptySet
<1>6. OpenInv
  BY <1>2, <1>5 DEF OpenInv
<1>7. AttemptInv
  <2>1. ASSUME NEW c \in Metered
        PROVE  /\ Cardinality(Owing(c)) = 0 /\ Cardinality(Bumping(c)) = 0
               /\ reqs[c] = 0 /\ admitted[c] = 0 /\ Cardinality(Recall(c)) \in Nat
    <3>1. Owing(c) = {} /\ Bumping(c) = {}
      BY <1>2 DEF Owing, Bumping
    <3> QED BY <1>1, <1>2, <3>1, FS_EmptySet, AttemptTypes DEF Inv
  <2>2. \A r \in Requests : loc[r].min <= minute
    BY <1>2 DEF Blank
  <2> QED BY <2>1, <2>2, OverlapType DEF AttemptInv
<1>8. GuessInv
  <2>1. /\ Noted \in Nat /\ Cardinality(Tally) \in Nat /\ Cardinality(Failing) \in Nat
        /\ Held \in Nat /\ HeldInMemory \in Nat /\ Budget \in Nat
    BY <1>1, GuessTypes DEF Inv
  <2>2. Opened = 0
    BY <1>5, OverlapType, Doubles DEF Opened
  <2>3. guesses + Cardinality(Stray) + Opened
          <= Noted + Cardinality(Tally) + Cardinality(Failing) + Held + HeldInMemory + Budget
    BY <1>2, <1>5, <2>1, <2>2
  <2> QED BY <2>3 DEF GuessInv
<1>9. LateInv
  <2>1. Stale = {}
    BY <1>2 DEF Stale
  <2>2. Cardinality(Stale) = 0
    BY <2>1, FS_EmptySet
  <2> QED BY <1>2, <2>2, OverlapType DEF LateInv
<1> QED BY <1>3, <1>6, <1>7, <1>8, <1>9 DEF LimitInv

LEMMA StepLimits == Inv /\ Inv' /\ LimitInv /\ [Next]_vars => LimitInv'
<1> SUFFICES ASSUME Inv, Inv', LimitInv, [Next]_vars PROVE LimitInv'
  OBVIOUS
<1>1. HandleStep
  BY NextHandle
<1>2. OffInv' /\ CalmInv' /\ OpenInv'
  BY <1>1, OffStep, CalmStep, OpenStep DEF LimitInv
<1>3. AttemptInv' /\ LateInv'
  BY AttemptStep, LateStep DEF LimitInv
<1>4. GuessInv'
  BY <1>2, GuessStep DEF LimitInv
<1> QED BY <1>2, <1>3, <1>4 DEF LimitInv

LEMMA LimitInvariance == Spec => []LimitInv
BY InitLimits, StepLimits, Invariance, PTL DEF Spec

LEMMA PlaceTypes ==
  /\ Redises \in {0, 1} /\ Memories \in Nat /\ Cardinality(Procs) \in Nat
  /\ Redises = 0 <=> ~enabled
BY OverlapType, FS_CardinalityType DEF Redises, Memories

LEMMA Spread == ASSUME NEW a \in Nat, NEW b \in Nat, NEW m \in Nat
                PROVE  (a + b) * m = a * m + b * m /\ m * (a + b) = m * a + m * b /\ a * m = m * a /\ a * m \in Nat
OBVIOUS

\* What the processes remember of attempts.
LEMMA RecallBound ==
  ASSUME Inv, CalmInv, NEW c \in Metered PROVE Cardinality(Recall(c)) <= Rpm * Memories /\ Rpm * Memories \in Nat
<1>1. Rpm \in Nat /\ Memories \in Nat /\ Cardinality(Procs) \in Nat
  BY OverlapType, PlaceTypes
<1>2. Cardinality(Recall(c)) <= Cardinality(Procs) * Rpm
  BY <1>1, OverlapType, UnderCount DEF Recall
<1>3. Cardinality(Procs) * Rpm = Rpm * Cardinality(Procs) /\ Rpm * Memories \in Nat
  BY <1>1, Spread
<1>4. CASE enabled /\ faults = 0
  <2>1. \A p \in Procs : mem[p].reqs[c].new = 0
    BY <1>4 DEF CalmInv, Forgotten, NoneYet
  <2>2. [p \in Procs |-> mem[p].reqs[c].new] = [p \in Procs |-> 0]
    BY <2>1
  <2>3. Under(Procs, Rpm, [p \in Procs |-> 0]) = {}
    BY DEF Under
  <2>4. Cardinality(Recall(c)) = 0
    BY <2>2, <2>3, FS_EmptySet DEF Recall
  <2> QED BY <1>3, <2>4
<1>5. CASE ~(enabled /\ faults = 0)
  <2>1. Memories = Cardinality(Procs)
    BY <1>5 DEF Memories
  <2> QED BY <1>2, <1>3, <2>1
<1> QED BY <1>4, <1>5

LEMMA AttemptsFollow == Inv /\ LimitInv => AttemptsBounded
<1> SUFFICES ASSUME Inv, LimitInv PROVE AttemptsBounded
  OBVIOUS
<1>0. late <= Cardinality(Requests)
  <2>1. Stale \in SUBSET Requests
    BY DEF Stale
  <2>2. Cardinality(Stale) \in Nat /\ late \in Nat /\ Overlap \in Nat
    BY <2>1, OverlapType, CountPart DEF Inv, TypeOK
  <2>3. late + Cardinality(Stale) <= Overlap
    BY DEF LimitInv, LateInv
  <2>4. late <= Overlap
    BY <2>2, <2>3
  <2> QED BY <2>4 DEF Overlap
<1> SUFFICES ASSUME NEW c \in Metered
             PROVE  admitted[c] <= Rpm * (Redises + Memories) + Redises * (Cardinality(Requests) - 1)
  BY <1>0 DEF AttemptsBounded
<1>1. /\ admitted[c] \in Nat /\ reqs[c] \in Nat /\ Cardinality(Owing(c)) \in Nat
      /\ Cardinality(Bumping(c)) \in Nat /\ Cardinality(Recall(c)) \in Nat
      /\ Rpm \in Nat \ {0} /\ Overlap \in Nat
  BY AttemptTypes, OverlapType DEF Inv
<1>2. Cardinality(Recall(c)) <= Rpm * Memories /\ Rpm * Memories \in Nat
  BY RecallBound DEF LimitInv
<1>3. /\ admitted[c] + Cardinality(Owing(c)) <= reqs[c] + Cardinality(Recall(c))
      /\ enabled => reqs[c] + Cardinality(Bumping(c)) <= Rpm + Overlap - 1
  BY DEF LimitInv, AttemptInv
<1>4. CASE enabled
  <2>1. Redises = 1 /\ Memories \in Nat
    BY <1>4, PlaceTypes DEF Redises
  <2>2. Rpm * (Redises + Memories) = Rpm + Rpm * Memories
    BY <1>1, <2>1, Spread
  <2>3. Redises * (Cardinality(Requests) - 1) = Overlap - 1
    BY <1>1, <2>1 DEF Overlap
  <2>4. admitted[c] <= Rpm + Rpm * Memories + (Overlap - 1)
    BY <1>1, <1>2, <1>3, <1>4
  <2> QED BY <2>2, <2>3, <2>4
<1>5. CASE ~enabled
  <2>1. Redises = 0 /\ Memories \in Nat
    BY <1>5, PlaceTypes DEF Redises
  <2>2. Rpm * (Redises + Memories) = Rpm * Memories
    BY <2>1
  <2>3. Redises * (Cardinality(Requests) - 1) = 0
    BY <1>1, <2>1 DEF Overlap
  <2>4. reqs[c] = 0
    BY <1>5 DEF LimitInv, OffInv
  <2>5. admitted[c] <= Rpm * Memories
    BY <1>1, <1>2, <1>3, <2>4
  <2> QED BY <1>2, <2>2, <2>3, <2>5
<1> QED BY <1>4, <1>5

\* The failures short of the threshold, in every place.
LEMMA CountedBound ==
  ASSUME Inv, LimitInv
  PROVE  /\ Noted <= (Threshold - 1) * Redises /\ (Threshold - 1) * Redises \in Nat
         /\ Cardinality(Tally) <= (Threshold - 1) * Memories /\ (Threshold - 1) * Memories \in Nat
<1>1. /\ Threshold - 1 \in Nat /\ Memories \in Nat /\ Cardinality(Procs) \in Nat /\ Redises \in Nat
      /\ fails["login"].n \in Nat
  BY OverlapType, PlaceTypes, GuessTypes DEF Inv
<1>2. Noted <= (Threshold - 1) * Redises /\ (Threshold - 1) * Redises \in Nat
  <2>1. CASE enabled
    <3>1. (Threshold - 1) * Redises = Threshold - 1
      BY <1>1, <2>1 DEF Redises
    <3> QED BY <1>1, <3>1 DEF Noted
  <2>2. CASE ~enabled
    <3>1. (Threshold - 1) * Redises = 0
      BY <1>1, <2>2 DEF Redises
    <3>2. fails["login"].n = 0
      <4>1. fails = [s \in Scopes |-> NoCount] /\ "login" \in Scopes
        BY <2>2 DEF LimitInv, OffInv, Scopes
      <4>2. fails["login"] = NoCount
        BY <4>1
      <4> QED BY <4>2 DEF NoCount
    <3>3. Noted = 0
      BY <1>1, <3>2, OverlapType DEF Noted
    <3> QED BY <3>1, <3>3
  <2> QED BY <2>1, <2>2
<1>3. Cardinality(Tally) <= Cardinality(Procs) * (Threshold - 1)
  BY <1>1, OverlapType, UnderCount DEF Tally
<1>4. PICK t \in Nat : t = Threshold - 1
  BY <1>1
<1>5. Cardinality(Procs) * t = t * Cardinality(Procs) /\ t * Memories \in Nat
  BY <1>1, <1>4, Spread
<1>6. Cardinality(Tally) <= t * Memories
  <2>1. CASE enabled /\ faults = 0
    <3>1. \A p \in Procs : mem[p].fails["login"] = 0
      BY <2>1 DEF LimitInv, CalmInv, Forgotten, Scopes
    <3>2. [p \in Procs |-> mem[p].fails["login"]] = [p \in Procs |-> 0]
      BY <3>1
    <3>3. Under(Procs, Threshold - 1, [p \in Procs |-> 0]) = {}
      BY <1>1 DEF Under
    <3>4. Cardinality(Tally) = 0
      BY <3>2, <3>3, FS_EmptySet DEF Tally
    <3> QED BY <1>5, <3>4
  <2>2. CASE ~(enabled /\ faults = 0)
    <3>1. Memories = Cardinality(Procs)
      BY <2>2 DEF Memories
    <3> QED BY <1>3, <1>4, <1>5, <3>1
  <2> QED BY <2>1, <2>2
<1> QED BY <1>2, <1>4, <1>5, <1>6

\* The failures due and the locks: once every place is locked, whoever is
\* about to fail strays.
LEMMA HeldBound ==
  ASSUME Inv, LimitInv
  PROVE  Cardinality(Failing) + Held + HeldInMemory <= Cardinality(Stray) + Overlap * (Redises + Memories)
<1>1. /\ Cardinality(Failing) \in Nat /\ Cardinality(Stray) \in Nat /\ Held \in Nat /\ HeldInMemory \in Nat
      /\ Cardinality(Closing) \in Nat /\ Cardinality(Flying) \in Nat /\ Cardinality(Lockers) \in Nat
      /\ Cardinality(Failing) <= Cardinality(Flying)
      /\ Cardinality(Flying) + Cardinality(Closing) <= Overlap
      /\ Overlap \in Nat /\ Redises \in {0, 1} /\ Memories \in Nat /\ Cardinality(Procs) \in Nat
  BY GuessTypes, OverlapType, PlaceTypes DEF Inv
<1>2. Cardinality(Lockers) <= Memories
  <2>1. CASE enabled /\ faults = 0
    <3>1. Lockers = {}
      BY <2>1 DEF LimitInv, CalmInv, Forgotten, Lockers
    <3> QED BY <1>1, <3>1, FS_EmptySet
  <2>2. CASE ~(enabled /\ faults = 0)
    <3>1. Memories = Cardinality(Procs) /\ Lockers \in SUBSET Procs
      BY <2>2 DEF Memories, Lockers
    <3> QED BY <3>1, OverlapType, CountPart
  <2> QED BY <2>1, <2>2
<1>3. HeldInMemory = Overlap * Cardinality(Lockers)
  BY DEF HeldInMemory
<1>4. Redises + Memories \in Nat
  BY <1>1
<1>5. ASSUME Cardinality(Lockers) = Memories, enabled => "login" \in locks
      PROVE  Cardinality(Failing) <= Cardinality(Stray)
  <2>1. ASSUME NEW r \in Failing PROVE r \in Stray
    <3>1. r \in Flying /\ loc[r].proc \in Procs
      BY <2>1 DEF Failing, Flying, FlyingAt, Inv, PlaceInv, Fits
    <3>2. CASE pc[r] # "memFail" /\ Available(loc[r].proc)
      BY <1>5, <3>1, <3>2 DEF Stray, Shut, Available
    <3>3. CASE pc[r] = "memFail" \/ ~Available(loc[r].proc)
      <4>1. ~(enabled /\ faults = 0)
        BY <3>1, <3>3 DEF Available, Inv, BreakerInv, LimitInv, CalmInv, Flying
      <4>2. Cardinality(Lockers) = Cardinality(Procs) /\ Lockers \in SUBSET Procs
        BY <1>5, <4>1 DEF Memories, Lockers
      <4>3. Lockers = Procs
        BY <4>2, OverlapType, FS_Subset
      <4>4. "login" \in mem[loc[r].proc].locks
        BY <3>1, <4>3 DEF Lockers
      <4> QED BY <3>1, <3>3, <4>4 DEF Stray, Shut
    <3> QED BY <3>2, <3>3
  <2>2. Stray \in SUBSET Requests /\ Failing \in SUBSET Stray
    BY <2>1 DEF Stray, Flying
  <2>3. IsFiniteSet(Stray)
    BY <2>2, OverlapType, CountPart
  <2> QED BY <2>2, <2>3, CountPart
<1>6. CASE Cardinality(Lockers) + 1 <= Redises + Memories /\ "login" \notin locks
  <2>1. Held = Cardinality(Closing)
    BY <1>6 DEF Held
  <2>2. Cardinality(Lockers) < Redises + Memories
    BY <1>1, <1>6
  <2>3. Overlap * Cardinality(Lockers) + Overlap <= Overlap * (Redises + Memories)
    BY <1>1, <1>4, <2>2, Multiples
  <2>4. Overlap * (Redises + Memories) \in Nat
    BY <1>1, <1>4, Multiples
  <2> QED BY <1>1, <1>3, <2>1, <2>3, <2>4
<1>7. CASE Cardinality(Lockers) + 1 <= Memories /\ "login" \in locks
  <2>1. Held = Overlap /\ enabled
    BY <1>7 DEF Held, LimitInv, OffInv
  <2>2. Redises = 1
    BY <2>1 DEF Redises
  <2>3. Cardinality(Lockers) + 1 \in Nat /\ Cardinality(Lockers) + 1 < Redises + Memories
    BY <1>1, <1>7, <2>2
  <2>4. Overlap * (Cardinality(Lockers) + 1) + Overlap <= Overlap * (Redises + Memories)
    BY <1>1, <1>4, <2>3, Multiples
  <2>5. Overlap * (Cardinality(Lockers) + 1) = Overlap * Cardinality(Lockers) + Overlap
    BY <1>1, <2>3, Multiples
  <2>6. Overlap * (Redises + Memories) \in Nat
    BY <1>1, <1>4, Multiples
  <2> QED BY <1>1, <1>3, <2>1, <2>4, <2>5, <2>6
<1>8. CASE Cardinality(Lockers) = Memories /\ "login" \in locks
  <2>1. Held = Overlap /\ enabled
    BY <1>8 DEF Held, LimitInv, OffInv
  <2>2. Redises = 1
    BY <2>1 DEF Redises
  <2>3. Overlap * (Redises + Memories) = Overlap * Memories + Overlap
    BY <1>1, <1>4, <2>2, Multiples
  <2>4. Cardinality(Failing) <= Cardinality(Stray)
    BY <1>5, <1>8
  <2> QED BY <1>1, <1>3, <1>8, <2>1, <2>3, <2>4
<1>9. CASE Cardinality(Lockers) = Memories /\ Redises = 0
  <2>1. ~enabled
    BY <1>9, PlaceTypes
  <2>2. Cardinality(Failing) <= Cardinality(Stray)
    BY <1>5, <1>9, <2>1
  <2>3. Closing = {} /\ "login" \notin locks
    BY <2>1 DEF LimitInv, OffInv, OffPlace, Closing
  <2>4. Held = 0
    BY <2>3, FS_EmptySet DEF Held
  <2>5. Overlap * (Redises + Memories) = Overlap * Cardinality(Lockers)
    BY <1>1, <1>9
  <2>6. HeldInMemory = Overlap * (Redises + Memories)
    BY <1>3, <2>5
  <2> HIDE DEF Redises, Memories
  <2> QED BY <1>1, <2>2, <2>4, <2>6
<1>10. /\ Cardinality(Lockers) + 1 <= Memories \/ Cardinality(Lockers) = Memories
       /\ Cardinality(Lockers) + 1 <= Redises + Memories \/ (Cardinality(Lockers) = Memories /\ Redises = 0)
  BY <1>1, <1>2
<1> QED BY <1>6, <1>7, <1>8, <1>9, <1>10, Zenon

LEMMA GuessesFollow == Inv /\ LimitInv => GuessesBounded
<1> SUFFICES ASSUME Inv, LimitInv PROVE GuessesBounded
  OBVIOUS
<1>1. /\ guesses \in Nat /\ Noted \in Nat /\ Cardinality(Tally) \in Nat /\ Cardinality(Failing) \in Nat
      /\ Held \in Nat /\ HeldInMemory \in Nat /\ Budget \in Nat /\ Cardinality(Stray) \in Nat /\ Opened \in Nat
      /\ Overlap \in Nat /\ Memories \in Nat /\ Redises \in {0, 1} /\ Threshold - 1 \in Nat
      /\ faults \in Nat
  BY GuessTypes, OverlapType, PlaceTypes, RedisAssumption DEF Inv, TypeOK, HandleTypeOK
<1>2. guesses + Cardinality(Stray) + Opened
        <= Noted + Cardinality(Tally) + Cardinality(Failing) + Held + HeldInMemory + Budget
  BY DEF LimitInv, GuessInv
<1>3. Cardinality(Failing) + Held + HeldInMemory <= Cardinality(Stray) + Overlap * (Redises + Memories)
  BY HeldBound
<1>4. /\ Noted <= (Threshold - 1) * Redises /\ (Threshold - 1) * Redises \in Nat
      /\ Cardinality(Tally) <= (Threshold - 1) * Memories /\ (Threshold - 1) * Memories \in Nat
  BY CountedBound
<1>5. Budget = 2 * Overlap * Redises * faults
  <2>1. CASE enabled
    <3>1. Redises = 1 /\ 2 * Overlap \in Nat
      BY <1>1, <2>1 DEF Redises
    <3>2. 2 * Overlap * Redises = 2 * Overlap
      BY <1>1, <3>1
    <3> QED BY <2>1, <3>2 DEF Budget
  <2>2. CASE ~enabled
    <3>1. 2 * Overlap * Redises = 0
      BY <1>1, <2>2 DEF Redises
    <3> QED BY <1>1, <2>2, <3>1 DEF Budget
  <2> QED BY <2>1, <2>2
<1>6. PICK t \in Nat : t = Threshold - 1
  BY <1>1
<1>7. PICK m \in Nat : m = Redises + Memories
  BY <1>1
<1>8. (t + Overlap) * m = t * m + Overlap * m /\ t * m \in Nat /\ Overlap * m \in Nat
  BY <1>1, Spread
<1>9. t * m = t * Redises + t * Memories
  BY <1>1, <1>7, Spread
<1>10. Noted + Cardinality(Tally) <= t * m
  BY <1>1, <1>4, <1>6, <1>9
<1>11. guesses <= (t + Overlap) * m + Budget
  <2>1. Cardinality(Failing) + Held + HeldInMemory <= Cardinality(Stray) + Overlap * m
    BY <1>3, <1>7
  <2> QED BY <1>1, <1>2, <1>8, <1>10, <2>1
<1>12. guesses <= (Threshold - 1 + Overlap) * (Redises + Memories) + 2 * Overlap * Redises * faults
  BY <1>5, <1>6, <1>7, <1>11
<1> QED BY <1>12 DEF GuessesBounded, Overlap

\* Attempts let through that took the time in one minute: the limit once for
\* each place that counts, and one for each other request that was past the GET
\* of Redis.  Of those that took it in an earlier minute, in one minute: one for
\* each request at a time.
THEOREM AttemptsHeld == Spec => []AttemptsBounded
BY AttemptsFollow, Invariance, LimitInvariance, PTL

\* Wrong passwords looked at: short of the threshold for each place that
\* counts, but for the requests past their check when it locks or when a
\* breaker opens or closes.
THEOREM GuessesHeld == Spec => []GuessesBounded
BY GuessesFollow, Invariance, LimitInvariance, PTL
=============================================================================
