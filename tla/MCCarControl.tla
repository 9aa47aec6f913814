---------------------------- MODULE MCCarControl ----------------------------
(***************************************************************************)
(* Instances of CarControl for TLC.                                        *)
(***************************************************************************)
EXTENDS CarControlHistory

\* '0', '1', '2' and the '_' of a message read from its middle.
MCByte == {48, 49, 50, 95}

\* A turn, back, and the edge of the dead zone of both axes.
MCCommand == {<<-90, 0>>, <<0, -90>>, <<60, -60>>}

\* Every direction, for a search that ends at the first counterexample.
MCCommandAll == MCCommand \cup {<<0, 61>>, <<90, 0>>}
=============================================================================
