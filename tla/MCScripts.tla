----------------------------- MODULE MCScripts -----------------------------
(***************************************************************************)
(* The three programs with a two byte sample buffer, settings that differ  *)
(* from what the firmware starts with, two glitches that differ in         *)
(* everything, and a form that asks for a number of samples the firmware   *)
(* takes or refuses.                                                       *)
(***************************************************************************)
EXTENDS Scripts

MCBufSize == 2
MCCountMod == 3
MCOutCap == 2
MCInCap == 4
MCSelf == [numSamples |-> 2, clockDivider |-> 2, bits12 |-> FALSE, bias |-> 1092, gain |-> 0,
           delay |-> 3]
NoBytes == {}
MCForms == {[numSamples |-> 2, clockDivider |-> 1, bits12 |-> TRUE, delay |-> 4],
            [numSamples |-> 1, clockDivider |-> 2, bits12 |-> FALSE, delay |-> 3],
            [numSamples |-> 9, clockDivider |-> 2, bits12 |-> TRUE, delay |-> 3]}
MCGuiSamples == 4
MCShots == {[delay |-> 5, glitch_length |-> 6, pulses |-> 1],
            [delay |-> 7, glitch_length |-> 8, pulses |-> 2]}
MCMaxMutesInARow == 1
=============================================================================
