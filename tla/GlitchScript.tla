---------------------------- MODULE GlitchScript ----------------------------
(***************************************************************************)
(* fi/runSetup.py: the loop of the glitch script, over the driver and the  *)
(* firmware of Scope.  Every attempt sets delay, length and pulses, arms   *)
(* the glitcher without looking at its answer, and takes every answer but  *)
(* 'd' to the glitch itself for a timeout.  It never reconnects: after an  *)
(* exception it calls _testScope once, whatever that returns, and power    *)
(* cycles the target; an exception in there ends the script.               *)
(***************************************************************************)
EXTENDS Scope

CONSTANTS
    Shots,          \* the parameters randint chooses from
    maxMutesInARow

ASSUME ShotsAssumption ==
    Shots \subseteq [delay : Words, glitch_length : 0 .. 255, pulses : 0 .. 254]
ASSUME MutesAssumption == maxMutesInARow \in Nat

VARIABLES
    guarded,        \* inside the try of the loop
    want,           \* parameters of this attempt
    mutesInARow,
    shot            \* history: the parameters of the last glitch, and its trigger

glitchVars == <<guarded, want, mutesInARow, shot>>

NoShot == [delay |-> 0, glitch_length |-> 0, pulses |-> 0]

GlitchInit ==
    /\ guarded = FALSE /\ want = NoShot /\ mutesInARow = 0
    /\ shot = [of |-> NoShot, caught |-> FALSE]

\* setDelay, setGlitchLength and setPulses.
ShotCommands ==
    << <<Ch.w>> \o Word(want.delay),
       <<Ch.l>> \o Word(want.glitch_length),
       <<Ch.p, want.pulses>> >>

-----------------------------------------------------------------------------
\* testTarget(target), at the start.
Start ==
    /\ hpc = "idle"
    /\ hpc' = "off"
    /\ UNCHANGED <<devVars, lineVars, dtr, k, val, fetched, guarded, want, mutesInARow, self>>

\* resetTarget: powerOff and powerOn.
Switch(at, ch, then) ==
    /\ hpc = at
    /\ hpc' = then
    /\ Write(<<ch>>)
    /\ UNCHANGED <<devVars, out, dtr, k, val, fetched, guarded, want, mutesInARow, self>>

\* _checkResponse: before it raises it reads what else there is.
Check(at, then) ==
    /\ hpc = at
    /\ \/ \E as \in Replies : Read1(as) /\ hpc' = IF as = "d" THEN then ELSE "extra"
       \/ Expire /\ hpc' = "extra" /\ UNCHANGED out
    /\ UNCHANGED <<devVars, in, dtr, val, fetched, guarded, want, mutesInARow, self>>

PowerOff  == Switch("off", Ch.x, "offAck")
PoweredOff == Check("offAck", "on") /\ UNCHANGED k
PowerOn   == Switch("on", Ch.y, "onAck")

\* Back in the loop, or on in testTarget.
PoweredOn == Check("onAck", IF guarded THEN "attempt" ELSE "ping") /\ UNCHANGED k

\* The target answers 't' with "T\r\n".
TestTarget ==
    /\ hpc = "ping"
    /\ hpc' = "attempt"
    /\ guarded' = TRUE
    /\ UNCHANGED <<devVars, lineVars, dtr, k, val, fetched, want, mutesInARow, self>>

\* The rest of _checkResponse, and the except clause with its _testScope.
Raise ==
    /\ hpc = "extra"
    /\ \/ \E as \in Replies : Read1(as) /\ UNCHANGED <<in, hpc, guarded>>
       \/ /\ Expire /\ UNCHANGED out
          /\ IF guarded THEN Write(<<Ch.t>>) /\ hpc' = "flush" ELSE UNCHANGED in /\ hpc' = "gone"
          /\ guarded' = FALSE
    /\ UNCHANGED <<devVars, dtr, k, val, fetched, want, mutesInARow, self>>

\* Variant: the except clause leaves the target alone.
FlushOnly ==
    /\ hpc = "flush"
    /\ \/ /\ fetched < 10
          /\ \E as \in Replies : Read1(as)
          /\ fetched' = fetched + 1 /\ UNCHANGED hpc
       \/ (fetched = 10 \/ Expire) /\ fetched' = 0 /\ hpc' = "attempt" /\ UNCHANGED out
    /\ guarded' = (hpc' = "attempt")
    /\ UNCHANGED <<devVars, in, dtr, k, val, want, mutesInARow, self>>

\* read(10), whatever comes, and testTarget
Flush ==
    /\ hpc = "flush"
    /\ \/ /\ fetched < 10
          /\ \E as \in Replies : Read1(as)
          /\ fetched' = fetched + 1 /\ UNCHANGED hpc
       \/ (fetched = 10 \/ Expire) /\ fetched' = 0 /\ hpc' = "off" /\ UNCHANGED out
    /\ UNCHANGED <<devVars, in, dtr, k, val, guarded, want, mutesInARow, self>>

-----------------------------------------------------------------------------
\* The top of the loop.
Choose ==
    /\ hpc = "attempt"
    /\ hpc' = "shot"
    /\ want' \in Shots
    /\ UNCHANGED <<devVars, lineVars, dtr, k, val, fetched, guarded, mutesInARow, self>>

SetShot ==
    /\ hpc = "shot"
    /\ hpc' = "shotAck"
    /\ self' = IF k = 1 THEN [self EXCEPT !.delay = want.delay] ELSE self
    /\ Write(ShotCommands[k])
    /\ UNCHANGED <<devVars, out, dtr, k, val, fetched, guarded, want, mutesInARow>>

ShotSet ==
    /\ Check("shotAck", IF k = Len(ShotCommands) THEN "glitchArm" ELSE "shot")
    /\ k' = IF hpc' = "shot" THEN k + 1 ELSE 1

\* glitchArm: the script drops what it returns.
GlitchArm ==
    /\ hpc = "glitchArm"
    /\ hpc' = "glitchArmed"
    /\ Write(<<Ch.h>>)
    /\ UNCHANGED <<devVars, out, dtr, k, val, fetched, guarded, want, mutesInARow, self>>

GlitchArmed ==
    /\ hpc = "glitchArmed"
    /\ \/ \E as \in Replies : Read1(as)
       \/ Expire /\ UNCHANGED out
    /\ hpc' = "glitcher"
    /\ UNCHANGED <<devVars, in, dtr, k, val, fetched, guarded, want, mutesInARow, self>>

\* Variant: only no answer is a timeout.
WaitForGlitcherAny ==
    /\ hpc = "glitcher"
    /\ \/ \E as \in Replies : Read1(as) /\ hpc' = "classify"
       \/ Expire /\ hpc' = "off" /\ UNCHANGED out
    /\ UNCHANGED <<devVars, in, dtr, k, val, fetched, guarded, want, mutesInARow, self>>

\* Variant: the read has no timeout.
WaitForGlitcherForever ==
    /\ hpc = "glitcher"
    /\ \E as \in Replies : Read1(as) /\ hpc' = IF as = "d" THEN "classify" ELSE "off"
    /\ UNCHANGED <<devVars, in, dtr, k, val, fetched, guarded, want, mutesInARow, self>>

\* target.write('\n'), target.read, waitForGlitcher; a timeout resets the
\* target.
WaitForGlitcher ==
    /\ hpc = "glitcher"
    /\ \/ \E as \in Replies : Read1(as) /\ hpc' = IF as = "d" THEN "classify" ELSE "off"
       \/ Expire /\ hpc' = "off" /\ UNCHANGED out
    /\ UNCHANGED <<devVars, in, dtr, k, val, fetched, guarded, want, mutesInARow, self>>

\* The target's response is the expected one, or not.
Classify ==
    /\ hpc = "classify"
    /\ \E expected \in BOOLEAN :
           LET mutes == IF expected THEN 0 ELSE mutesInARow + 1
           IN  IF mutes > maxMutesInARow
               THEN mutesInARow' = 0 /\ hpc' = "off"
               ELSE mutesInARow' = mutes /\ hpc' = "attempt"
    /\ UNCHANGED <<devVars, lineVars, dtr, k, val, fetched, guarded, want, self>>

Glitching ==
    \/ Start \/ PowerOff \/ PoweredOff \/ PowerOn \/ PoweredOn \/ TestTarget \/ Raise \/ Flush
    \/ Choose \/ SetShot \/ ShotSet \/ GlitchArm \/ GlitchArmed \/ WaitForGlitcher \/ Classify

\* The history keeps what the firmware glitches with.
Shoot ==
    shot' = IF Glitch
            THEN [of |-> [delay |-> conf.delay, glitch_length |-> conf.glitch_length,
                          pulses |-> conf.pulses],
                  caught |-> ~timedOut]
            ELSE shot

-----------------------------------------------------------------------------
(***************************************************************************)
(* With a device that answers in time unless it waits for the trigger, an  *)
(* attempt the script counts as glitched was glitched: the 'd' that        *)
(* waitForGlitcher read answers the 'h' of this attempt, the trigger came, *)
(* and the pulse had this attempt's delay, length and pulses.  A late      *)
(* answer may put the script one reply behind for good; then it reads 'r'  *)
(* there and takes every attempt for a timeout, but never a wrong success  *)
(* (runSetup.py lines 69-123, scope.py lines 76-79, 180-187).              *)
(***************************************************************************)
CountedIsGlitched ==
    prompt /\ hpc = "classify" => shot = [of |-> want, caught |-> TRUE]

(***************************************************************************)
(* With such a device the target has power when an attempt starts it,      *)
(* although the 'd' that powerOn took for its own may have been that of an *)
(* earlier command (runSetup.py lines 40-50, 86-91).  A device that is     *)
(* late again and again can be as many as five commands behind, and the    *)
(* attempt then starts a target whose power is still to be switched off.   *)
(***************************************************************************)
PoweredWhenStarted == prompt /\ hpc = "glitcher" => power

(***************************************************************************)
(* An attempt ends, by the next one or with the script, also when the      *)
(* device waits for a trigger for ever: no read of the glitch script is    *)
(* without a timeout (scope.py lines 76-79, 163-187).                      *)
(***************************************************************************)
AttemptEnds == hpc = "glitchArm" ~> hpc \in {"attempt", "ping", "gone"}
=============================================================================
