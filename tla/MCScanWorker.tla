---------------------------- MODULE MCScanWorker ----------------------------
(* Two scans of one project; the second was sent twice. *)
EXTENDS ScanWorker

CONSTANTS a, b, ma, mb, again, j

MCScanOf == [m \in {ma, mb, again} |-> IF m = ma THEN a ELSE b]
MCProjectOf == [s \in {a, b} |-> j]
=============================================================================
