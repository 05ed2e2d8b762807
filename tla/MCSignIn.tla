------------------------------ MODULE MCSignIn ------------------------------
EXTENDS SignIn, TLC

Symmetry == Permutations(Requests) \cup Permutations(Procs) \cup Permutations(Tokens)
=============================================================================
