--------------------------- MODULE MCUploadLimits ---------------------------
EXTENDS UploadLimits, TLC

Symmetry == Permutations(Requests) \cup Permutations(Procs)

\* The limit of all anonymous uploads is the tighter one per minute; only that
\* of an address is one per hour.
LimitPerMinute == [s \in Scopes |-> IF s = Global THEN 1 ELSE 2]
LimitPerHour == [s \in Scopes |-> IF s \in Anons THEN 2 ELSE 0]
=============================================================================
