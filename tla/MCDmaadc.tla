------------------------------ MODULE MCDmaadc ------------------------------
\* A small instance of Dmaadc for TLC.
EXTENDS Dmaadc

\* Odd, so that a burst of two bytes does not divide the buffer.
MCBufSize == 3
\* A block of length 0 runs past the end of the buffer and still ends.
MCCountMod == 6
=============================================================================
