---------------------------- MODULE MCReportGate ----------------------------
(***************************************************************************)
(* A small instance of ReportGate.                                         *)
(***************************************************************************)
EXTENDS ReportGate

CONSTANTS pass, finding, absent

\* A check measured to be missing or to pass, and one measured to come out either way.
MCOutcomeLists == {{pass, absent}, {pass, finding}}
=============================================================================
