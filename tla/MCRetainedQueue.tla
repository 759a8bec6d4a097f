-------------------------- MODULE MCRetainedQueue --------------------------
(***************************************************************************)
(* Small instances of RetainedQueue for TLC: two clients and two inputs.   *)
(* Which calls the clients make, and how many, is given in each .cfg.      *)
(***************************************************************************)
EXTENDS RetainedQueue, TLC

CONSTANTS c1, c2, i1, i2

\* Callers and inputs are never compared or ordered, so both sets are
\* symmetric; the runs with liveness properties do not use this.
Symmetry == Permutations({c1, c2}) \cup Permutations({i1, i2})
=============================================================================
