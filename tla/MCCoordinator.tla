---------------------------- MODULE MCCoordinator ----------------------------
(***************************************************************************)
(* A small instance of the coordinator.  One worker k1 with two boots that *)
(* talk over each other, and one observation of a second worker k2.        *)
(***************************************************************************)
EXTENDS Coordinator

CONSTANTS k1, k2, b1, b2, i1, i2, i3, i4, r1, r2, t1

Hello(k, b, g, e) == [key |-> k, boot |-> b, src_gen |-> g, obs_gen |-> g, epoch |-> e]

\* The two boots of k1, the first one again under a later epoch, and k2.
MCHellos == {Hello(k1, b1, 1, 1), Hello(k1, b2, 2, 1), Hello(k1, b1, 1, 2),
             Hello(k2, b1, 1, 1)}

Obs(id, k, b, g, e, s, r) ==
  [id |-> id, key |-> k, boot |-> b, src_gen |-> g, obs_gen |-> g, epoch |-> e,
   seq |-> s, request |-> r, obs_ts |-> None, health |-> None]

MCObservations ==
  { Obs(i1, k1, b1, 1, 1, 1, r1),
    \* a second observation with that sequence number (another type, so
    \* another id), and a later one
    Obs(i2, k1, b1, 1, 1, 1, r1),
    Obs(i3, k1, b1, 1, 2, 2, None),
    \* the second boot reuses an id of the first with another payload
    Obs(i1, k1, b2, 2, 1, 1, r2),
    [Obs(i4, k1, b2, 2, 1, 0, r1) EXCEPT !.health = "DEGRADED", !.obs_ts = t1],
    \* same boot, only the observation generation is ahead
    [Obs(i4, k1, b1, 1, 1, 3, r1) EXCEPT !.obs_gen = 2],
    Obs(i2, k2, b1, 1, 1, 1, r1) }
=============================================================================
