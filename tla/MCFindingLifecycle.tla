-------------------------- MODULE MCFindingLifecycle --------------------------
(* Two findings, a manager and a developer, two requests: a direct change,  *)
(* a bulk assignment that names a finding twice, and a request for review.  *)
EXTENDS FindingLifecycle
CONSTANTS f1, f2, manager, developer
MCRoleOf == [u \in User |-> IF u = manager THEN "security_manager" ELSE "developer"]
MCCalls ==
  {[action |-> "status_change", bulk |-> FALSE, findings |-> <<f1>>, value |-> "risk_accepted", reason |-> b] : b \in BOOLEAN}
  \cup {[action |-> "assign", bulk |-> TRUE, findings |-> <<f1, f2, f1>>, value |-> developer, reason |-> FALSE],
        [action |-> "request", bulk |-> FALSE, findings |-> <<f2>>, value |-> "false_positive", reason |-> TRUE]}
================================================================================
