----------------------------- MODULE ScanReport -----------------------------
(***************************************************************************)
(* What ScanDirWithOptions promises, whatever the number of workers and    *)
(* their scheduling: one report, a function of the tree and the options    *)
(* alone, produced unless a file it must read never answers.               *)
(***************************************************************************)
CONSTANTS
  Options,    \* the options a scan may be given
  Report,     \* the report of a scan with given options
  Hanging,    \* the options under which a scan cannot end
  NoReport

VARIABLES opts, phase, report

Init == opts \in Options /\ phase = "scanning" /\ report = NoReport

Finish ==
  /\ phase = "scanning"
  /\ phase' = "done"
  /\ opts \notin Hanging
  /\ report' = Report[opts]
  /\ UNCHANGED opts

Ends == opts \notin Hanging ~> phase = "done"

vars == <<opts, phase, report>>
Safety == Init /\ [][Finish]_vars
Spec == Safety /\ Ends
=============================================================================
