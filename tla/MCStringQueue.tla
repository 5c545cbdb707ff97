-------------------------- MODULE MCStringQueue --------------------------
(***************************************************************************)
(* StringQueue for TLC: the empty string, a short one, and one that fills  *)
(* the ring of three with its terminator.                                  *)
(***************************************************************************)
EXTENDS StringQueue

CONSTANTS a, b
StringsOfTwo == {<<>>, <<a>>, <<b, a>>}
=============================================================================
