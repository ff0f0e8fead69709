------------------------ MODULE MCCoordinatorServer ------------------------
(***************************************************************************)
(* Small scenarios for the server: a worker k1 whose first process p1 (boot*)
(* b1) is followed by p2 (boot b2) and p3 (boot b3).                       *)
(***************************************************************************)
EXTENDS CoordinatorServer

CONSTANTS k1, b1, b2, b3, p1, p2, p3, r1

Hello(k, b, g) == [key |-> k, boot |-> b, src_gen |-> g, obs_gen |-> g, epoch |-> 1]

\* derive_observation_id is a function of source, worker, boot, sequence
\* number and type; every observation here has the same type.
Obs(k, b, g, s) ==
  [id |-> <<k, b, s>>, key |-> k, boot |-> b, src_gen |-> g, obs_gen |-> g,
   epoch |-> 1, seq |-> s, request |-> r1, obs_ts |-> None, health |-> None]

MCConfig == [p \in Procs |-> CASE p = p1 -> Hello(k1, b1, 1)
                               [] p = p2 -> Hello(k1, b2, 2)
                               [] p = p3 -> Hello(k1, b3, 3)]

MCAfter == [p \in Procs |-> CASE p = p1 -> {} [] p = p2 -> {p1} [] p = p3 -> {p2}]

\* p1 and p2 send two observations each, p2 a copy of its first one, p3 one.
MCScript ==
  [p \in Procs |->
     CASE p = p1 -> <<Obs(k1, b1, 1, 1), Obs(k1, b1, 1, 2)>>
       [] p = p2 -> <<Obs(k1, b2, 2, 1), Obs(k1, b2, 2, 2), Obs(k1, b2, 2, 1)>>
       [] p = p3 -> <<Obs(k1, b3, 3, 1)>>]

\* p2 has evidence before and after an observation with an infinite double,
\* and ends with one of another type that repeats its first sequence number.
IdleScript ==
  [p \in Procs |->
     CASE p = p1 -> <<Obs(k1, b1, 1, 1), Obs(k1, b1, 1, 2)>>
       [] p = p2 -> <<Obs(k1, b2, 2, 1), Obs(k1, b2, 2, 2), Obs(k1, b2, 2, 3),
                      [Obs(k1, b2, 2, 1) EXCEPT !.id = <<k1, b2, 4>>]>>]
IdleUndecodable == {<<k1, b2, 2>>}

\* More observations than fit into the two buffers of a connection.
FireScript == [p \in Procs |-> [s \in 1..4 |-> Obs(k1, b1, 1, s)]]

Sent(script) == UNION {{script[p][i] : i \in 1..Len(script[p])} : p \in Procs}
Ids(observations) == {o.id : o \in observations}

MCHellos == {MCConfig[p] : p \in Procs}
MCObservations == Sent(MCScript)
MCObsIds == Ids(MCObservations)
IdleObservations == Sent(IdleScript)
IdleObsIds == Ids(IdleObservations)
FireObservations == Sent(FireScript)
FireObsIds == Ids(FireObservations)
=============================================================================
