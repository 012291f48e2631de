----------------------------- MODULE MCTraceSet -----------------------------
(***************************************************************************)
(* TraceSet with samples of the declared length, as acq/runSetup.py adds   *)
(* them, with titles and data of the right and of wrong sizes, and with    *)
(* samples of any length.                                                  *)
(***************************************************************************)
EXTENDS TraceSet

MCTitleSpace == 1
MCDataSpace == 1
MCSampleSpace == 2
MCMaxTraces == 4

AcqInputs == [title : {0, 1}, data : 0 .. 2, samples : {2}]
AnyInputs == [title : {0, 1}, data : 0 .. 2, samples : 1 .. 3]
=============================================================================
