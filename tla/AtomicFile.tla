----------------------------- MODULE AtomicFile -----------------------------
(***************************************************************************)
(* What a write to a temporary file and a rename promise: whatever state a *)
(* file is in, only a replacement by a whole content changes it.           *)
(***************************************************************************)
CONSTANTS Torn, Absent
VARIABLE file

Init == file = file
Replace == file' \notin {Torn, Absent}
Spec == Init /\ [][Replace]_file
=============================================================================
