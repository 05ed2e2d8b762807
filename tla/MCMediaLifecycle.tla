------------------------- MODULE MCMediaLifecycle -------------------------
EXTENDS MediaLifecycle, TLC

\* Requests and media are interchangeable; an owned album is not an anonymous one.
Symmetry == Permutations(Requests) \cup Permutations(Media)
=============================================================================
