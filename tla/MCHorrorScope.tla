--------------------------- MODULE MCHorrorScope ---------------------------
(***************************************************************************)
(* HorrorScope with a two byte sample buffer and a host that either        *)
(* acquires, or changes the settings that no acquisition looks at.  The    *)
(* first sends acquisitions, fetches, lengths and modes in every order,    *)
(* with fault triggers, glitches and characters that are no command        *)
(* between them.  The second sends all that is left, in every order, up to *)
(* two settings away from those at power-up.  A host that did both would   *)
(* see the product of the two state spaces and nothing else.               *)
(***************************************************************************)
EXTENDS HorrorScope, FiniteSets

MCBufSize == 2
MCCountMod == 3
MCOutCap == 1
Acquiring == {Ch.d, Ch.s, Ch.n, Ch.eight, Ch.f, Ch.h, 0}
Setting == {Ch.T, Ch.t, Ch.g, Ch.c, Ch.b, Ch.h, Ch.w, Ch.l, Ch.e, Ch.p, Ch.x, Ch.y}
MCCommands == Acquiring \cup Setting
MCArguments == {0, 1}

\* The settings that are not what they were at power-up.
Changed ==
    {s \in {"delay", "timeout", "glitch_length", "pulses", "gain", "prescaler", "cal", "power"} :
        CASE s = "delay" -> conf.delay # 0
          [] s = "timeout" -> conf.timeout # 40000
          [] s = "glitch_length" -> conf.glitch_length # 0
          [] s = "pulses" -> conf.pulses # 1
          [] s = "gain" -> adc.gain # {}
          [] s = "prescaler" -> adc.prescaler # 0
          [] s = "cal" -> adc.cal # 0
          [] s = "power" -> ~power}

\* No command has touched the sample memory.
Untouched == Acq!Init /\ conf.numberOfSamples = BufSize /\ conf.bits12

HostSends(byte) ==
    /\ HostSend(byte)
    /\ \/ pc = "args"
       \/ byte \in Acquiring /\ Changed = {}
       \/ byte \in Setting /\ Cardinality(Changed) <= 1 /\ Untouched

MCNext ==
    \/ MainStep
    \/ Edge
    \/ Convert
    \/ \E byte \in Commands \cup Arguments : HostSends(byte)
    \/ HostRead
    \/ HostDtr

\* FairSpec with this host.
MCFairSpec ==
    /\ Init /\ [][MCNext]_vars
    /\ WF_vars(MainStep /\ pc # "wait") /\ WF_vars(Convert) /\ WF_vars(HostRead)
=============================================================================
