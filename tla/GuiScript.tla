----------------------------- MODULE GuiScript -----------------------------
(***************************************************************************)
(* acq/gui.py: a click, or the refresh timer, sends the four settings of   *)
(* the form, arms the scope and fetches the samples, after a missed        *)
(* trigger too.  Nothing catches an exception, so it ends the program.     *)
(* The form may ask for more samples than the firmware has room for.       *)
(***************************************************************************)
EXTENDS Scope

CONSTANTS
    Forms,      \* what the widgets may hold
    guiSamples  \* 7*1024+512

ASSUME FormsAssumption ==
    Forms \subseteq [numSamples : Words \ {0}, clockDivider : 0 .. 7, bits12 : BOOLEAN,
                     delay : Words]
ASSUME GuiSamplesAssumption == guiSamples \in Words \ {0}

VARIABLE form   \* the widgets, as on_get finds them

\* min(7*1024+512, numSamples)
FormSamples == IF form.numSamples < guiSamples THEN form.numSamples ELSE guiSamples

\* The setters of on_get in their order: each stores its value, then sends it.
FormCommands ==
    << <<Ch.c, form.clockDivider>>,
       <<Ch.eight, IF form.bits12 THEN 1 ELSE 0>>,
       <<Ch.w>> \o Word(form.delay),
       <<Ch.n>> \o Word(FormSamples) >>

FormStored ==
    << [self EXCEPT !.clockDivider = form.clockDivider],
       [self EXCEPT !.bits12 = form.bits12],
       [self EXCEPT !.delay = form.delay],
       [self EXCEPT !.numSamples = FormSamples] >>

-----------------------------------------------------------------------------
\* on_get
OnGet ==
    /\ hpc = "idle"
    /\ hpc' = "form"
    /\ form' \in Forms
    /\ UNCHANGED <<devVars, lineVars, dtr, self, k, val, fetched>>

FormSet ==
    /\ hpc = "form"
    /\ hpc' = "formAck"
    /\ self' = FormStored[k]
    /\ Write(FormCommands[k])
    /\ UNCHANGED <<devVars, out, dtr, k, val, fetched, form>>

\* _checkResponse
FormAck ==
    /\ hpc = "formAck"
    /\ \/ \E as \in Replies :
             /\ Read1(as)
             /\ hpc' = IF as # "d" THEN "gone" ELSE IF k = Len(FormCommands) THEN "set" ELSE "form"
       \/ Expire /\ hpc' = "gone" /\ UNCHANGED out
    /\ k' = IF k = Len(FormCommands) THEN 1 ELSE k + 1
    /\ UNCHANGED <<devVars, in, dtr, self, val, fetched, form>>

Window ==
    \/ OnGet \/ FormSet \/ FormAck
    \/ Attempt /\ UNCHANGED form
=============================================================================
