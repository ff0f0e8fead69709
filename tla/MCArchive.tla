----------------------------- MODULE MCArchive -----------------------------
(***************************************************************************)
(* A small instance of the archive: one worker and its restart, two        *)
(* observations, two saves to the same path.                               *)
(***************************************************************************)
EXTENDS Archive

CONSTANTS k1, b1, b2, i1, i2, r1

MCHellos == {[key |-> k1, boot |-> b1, src_gen |-> 1, obs_gen |-> 1, epoch |-> 1],
             [key |-> k1, boot |-> b2, src_gen |-> 2, obs_gen |-> 2, epoch |-> 1]}

Obs(id, b, g, s, r) ==
  [id |-> id, key |-> k1, boot |-> b, src_gen |-> g, obs_gen |-> g, epoch |-> 1,
   seq |-> s, request |-> r, obs_ts |-> None, health |-> None]

\* One observation of each boot; the first belongs to no request.
MCObservations == {Obs(i1, b1, 1, 1, None), Obs(i2, b2, 2, 1, r1)}
=============================================================================
