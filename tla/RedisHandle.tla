----------------------------- MODULE RedisHandle -----------------------------
(***************************************************************************)
(* RedisHandle of redis_support.py as its callers see it: one handle per   *)
(* process, with a circuit breaker in front of every script of commands.   *)
(* A command is answered, is lost after it took effect, fails without      *)
(* effect, or is never sent because the breaker is open.  Nothing is       *)
(* retried.                                                                *)
(***************************************************************************)
EXTENDS Integers, FiniteSets

CONSTANTS
  Procs,      \* processes, each with its own handle
  MaxFaults   \* commands that may be lost or fail, and crashes (bound)

ASSUME RedisAssumption == IsFiniteSet(Procs) /\ MaxFaults \in Nat

VARIABLES
  enabled,   \* REDIS_MODE and REDIS_URL; never changes
  blocked,   \* per process: _blocked_until lies ahead
  faults     \* faults so far

redis == <<enabled, blocked, faults>>

Outcomes == {"answered", "lost", "failed", "unsent"}

HandleTypeOK ==
  /\ enabled \in BOOLEAN
  /\ blocked \in [Procs -> BOOLEAN]
  /\ faults \in 0 .. MaxFaults

HandleInit ==
  /\ enabled \in BOOLEAN
  /\ blocked = [p \in Procs |-> FALSE]
  /\ faults = 0

TookEffect(o) == o \in {"answered", "lost"}

\* get_client: a disabled or blocked handle raises RedisUnavailable.
Available(p) == enabled /\ ~blocked[p]

\* One command.  first: the script asks for the client; last: a success ends
\* the script, so that execute marks it; guarded: it runs inside execute, so
\* that a failure opens the breaker.
Command(p, first, last, guarded, o) ==
  /\ o \in IF first /\ ~Available(p) THEN {"unsent"}
           ELSE {"answered"} \cup IF faults < MaxFaults THEN {"lost", "failed"} ELSE {}
  /\ faults' = IF o \in {"lost", "failed"} THEN faults + 1 ELSE faults
  /\ blocked' = [blocked EXCEPT ![p] = (@ \/ (guarded /\ o \in {"lost", "failed"}))
                                         /\ ~(guarded /\ last /\ o = "answered")]
  /\ UNCHANGED enabled

\* A script that is one command.
Execute(p, o) == Command(p, TRUE, TRUE, TRUE, o)

\* The five seconds are over.
Cooldown(p) ==
  /\ blocked[p]
  /\ blocked' = [blocked EXCEPT ![p] = FALSE]
  /\ UNCHANGED <<enabled, faults>>

\* A new process starts with a closed breaker.
Restart(p) ==
  /\ faults < MaxFaults
  /\ faults' = faults + 1
  /\ blocked' = [blocked EXCEPT ![p] = FALSE]
  /\ UNCHANGED enabled
=============================================================================
