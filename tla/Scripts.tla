------------------------------ MODULE Scripts ------------------------------
(***************************************************************************)
(* The firmware with one of the three programs that use the driver: the    *)
(* acquisition script, the window or the glitch script.                    *)
(***************************************************************************)
EXTENDS GuiScript, GlitchScript

allVars == <<linkVars, form, glitchVars>>

Init3 ==
    /\ LinkInit
    /\ form = CHOOSE f \in Forms : TRUE
    /\ GlitchInit

\* The constructor is the same for all of them.
Constructed ==
    /\ hpc = "idle" /\ script = "any"
    /\ script' \in {"acq", "gui", "fi"}
    /\ UNCHANGED <<vars, hpc, self, k, val, fetched, prompt, form, glitchVars>>

Program ==
    \/ Reconnect /\ UNCHANGED <<form, glitchVars>>
    \/ script = "acq" /\ Attempt /\ UNCHANGED <<form, glitchVars>>
    \/ script = "gui" /\ Window /\ UNCHANGED glitchVars
    \/ script = "fi" /\ Glitching /\ UNCHANGED <<form, shot>>

ProgramStep == Constructed \/ (Program /\ UNCHANGED <<script, prompt>>)

DeviceStep == Device /\ Shoot /\ UNCHANGED <<form, guarded, want, mutesInARow>>

Next3 == DeviceStep \/ ProgramStep

Spec3 == Init3 /\ [][Next3]_allVars

\* Both programs run and the ADC converts.  A trigger wait may last for ever:
\* the edge that trigger.c loses between lines 46 and 48 may have been the
\* last.
FairSpec3 ==
    /\ Spec3
    /\ WF_allVars(MainStep /\ pc # "wait" /\ DeviceStep)
    /\ WF_allVars(Convert /\ DeviceStep)
    /\ WF_allVars(ProgramStep)
=============================================================================
