----------------------------- MODULE MCBtHandler -----------------------------
(***************************************************************************)
(* The instance of BtHandler for TLC.                                      *)
(***************************************************************************)
EXTENDS BtHandler

\* Full ahead in a turn, and full back.
MCPosition == {<<100, 57>>, <<0, -100>>}

MCGarbage == {-128}
=============================================================================
