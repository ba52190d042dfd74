---------------------------- MODULE MCAuthStore ----------------------------
(* A small instance of AuthStore: two authorities, one of which can change *)
(* its key.                                                                *)
EXTENDS AuthStore, TLC

CONSTANTS p1, p2, a1, a2, k1, k2, k3, t1, t2

Symmetry == Permutations({p1, p2}) \cup Permutations({a1, a2})
              \cup Permutations({k1, k2, k3}) \cup Permutations({t1, t2})
=============================================================================
