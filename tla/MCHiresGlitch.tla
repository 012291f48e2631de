---------------------------- MODULE MCHiresGlitch ----------------------------
\* A small instance of HiresGlitch for TLC.
EXTENDS HiresGlitch

\* The shortest and the longest length, and some between.
MCCountMod == 4
\* None, one, and enough that one pulse follows another.
MCMaxPulses == 3
=============================================================================
