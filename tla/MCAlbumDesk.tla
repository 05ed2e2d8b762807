----------------------------- MODULE MCAlbumDesk -----------------------------
EXTENDS AlbumDesk

CONSTANTS k1, k2, k3

\* Two patches that touch the same settings in opposite order, and one whose
\* second setting is locked.
SomePatches == {<<<<k1, 1>>, <<k2, 1>>>>, <<<<k2, 0>>, <<k1, 0>>>>, <<<<k1, 1>>, <<k3, 1>>>>}
Zeros == [k \in Keys |-> 0]
Symmetry == Permutations(Requests) \cup Permutations(Links)
=============================================================================
