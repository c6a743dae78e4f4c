-------------------------- MODULE MCAuthProfiles --------------------------
(* An instance of AuthProfiles whose logins, threads and turns are alike.  *)
EXTENDS AuthProfiles, TLC

Symmetry == Permutations(Sessions) \union Permutations(Threads) \union Permutations(Turns)
=============================================================================
