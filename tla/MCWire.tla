------------------------------- MODULE MCWire -------------------------------
(***************************************************************************)
(* Three short frames.                                                     *)
(***************************************************************************)
EXTENDS Wire

\* One with a payload, one that the reader does not know, and a BYE.
Offsets == <<0, 13, 25, 37>>

\* Short enough to end inside the stream, and too long for it.
Lengths == {8, 20, 300}
=============================================================================
