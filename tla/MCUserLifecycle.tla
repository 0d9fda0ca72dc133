-------------------------- MODULE MCUserLifecycle --------------------------
(* Two users, an API key, the admin's role, in one run a second role that  *)
(* may do everything, and one that may only read.                          *)
EXTENDS UserLifecycle, TLC

CONSTANTS alice, bob, k1, r1, r2

MCCap == [role \in Roles |->
            IF role = "guest" THEN {"scan:read"} ELSE {"scan:read", "scan:write"}]

Symmetry == Permutations({alice, bob}) \cup Permutations({r1, r2})
=============================================================================
