------------------------------ MODULE MCAuditLog ------------------------------
(* AuditLog for TLC: two threads in one process and a thread in another. *)
EXTENDS AuditLog, TLC

CONSTANTS p1, p2, r1, r2, r3

TwoAndOne == (r1 :> p1) @@ (r2 :> p1) @@ (r3 :> p2)
Symmetry == Permutations({r1, r2})
=============================================================================
