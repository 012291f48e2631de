----------------------------- MODULE MCTrigger -----------------------------
\* A small instance of Trigger for TLC.
EXTENDS Trigger

\* No poll at all, one poll, and enough polls for edges on either side.
MCTimeouts == {0, 1, 2}
\* The shortest delay, and one that leaves room above PER for the counter to
\* be beyond it.
MCDelays == {0, 2}
MCCntMod == 4
=============================================================================
