-------------------------- MODULE MCFirstFirmware --------------------------
(***************************************************************************)
(* The instance of FirstFirmware for TLC.                                  *)
(***************************************************************************)
EXTENDS FirstFirmware

\* Axes -50, -80, and what is left of it when its first four bytes have been
\* missed, which is decoded to a centred x; as the first thing heard, to 76, 56.
MCPacket ==
  LET whole == <<0, 49, 53, 48, 49, 50, 48>> IN
  {whole, SubSeq(whole, 5, 7)}

MCGarbage == {0}

\* What atoi makes of blanks, signs, and what follows the number.
ASSUME AtoiExamples ==
  /\ Atoi(<<50, 53, 48>>) = 250 /\ Atoi(<<32, 45, 53>>) = -5
  /\ Atoi(<<43, 55, 45>>) = 7 /\ Atoi(<<45, 45, 53>>) = 0
  /\ Atoi(<<9, 32, 13>>) = 0 /\ Atoi(<<0, 49, 49>>) = 0
  /\ Atoi(<<53, 32, 53>>) = 5
=============================================================================
