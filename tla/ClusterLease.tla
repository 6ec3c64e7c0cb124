---------------------------- MODULE ClusterLease ----------------------------
(***************************************************************************)
(* One row of cluster_leases and what the repository functions do to it    *)
(* (app/repositories/cluster.py); each is one write_transaction on the     *)
(* coordination database.  ttl is lease_expires_at - now in seconds, down  *)
(* to -1 for any lease that expired earlier.  A row is never deleted, so   *)
(* its fencing token never restarts; token 0 stands for no row yet.        *)
(***************************************************************************)
EXTENDS Integers

CONSTANT Nobody  \* the holder of a lease that was never acquired

NoLease == [holder |-> Nobody, token |-> 0, ttl |-> -1]

\* acquire_cluster_lease finds the lease expired when expires <= now, while
\* active_cluster_lease finds it active when expires >= now: with ttl = 0 it is
\* both, for one second.
Expired(l) == l.ttl <= 0
Active(l)  == l.ttl >= 0

\* (Operators named ..._M are slips this code could contain.  No definition
\* uses them; they show which property would notice.)
AcquirableUnexpired_M(l, h) == l.holder \in {h, Nobody}

Acquirable(l, h) == l.holder = h \/ Expired(l)

\* The holder renews an unexpired lease under its token; any other acquisition
\* is a change of ownership with a new token.
Acquired(l, h, ttl) ==
    [holder |-> h,
     token  |-> IF l.holder # h \/ Expired(l) THEN l.token + 1 ELSE l.token,
     ttl    |-> ttl]

\* release_cluster_lease expires the lease, for its holder and token only.
Released(l, h, t) ==
    IF l.holder = h /\ l.token = t THEN [l EXCEPT !.ttl = -1] ELSE l

\* A second passes.
Aged(l) == [l EXCEPT !.ttl = IF @ >= 0 THEN @ - 1 ELSE @]
=============================================================================
