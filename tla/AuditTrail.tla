------------------------------ MODULE AuditTrail ------------------------------
(***************************************************************************)
(* What the audit log promises its callers, whatever fails: for each day a *)
(* list of rows that only grows, by one row at a time and at most one for  *)
(* each record; a record that is confirmed has its row, one that is        *)
(* refused may have it or not.                                             *)
(***************************************************************************)
EXTENDS Naturals, Sequences

CONSTANTS Records, MaxDays

VARIABLES
  rows,   \* rows[d]: the records of day d, in order
  result  \* result[r]: "none", "ok", "refused", or "lost" with its process

vars == <<rows, result>>

Days == 1..MaxDays
Listed(r) == \E d \in Days : \E i \in DOMAIN rows[d] : rows[d][i] = r

Init == /\ rows = [d \in Days |-> <<>>]
        /\ result = [r \in Records |-> "none"]

Enter(r, d) == /\ result[r] = "none" /\ ~Listed(r)
               /\ rows' = [rows EXCEPT ![d] = Append(@, r)]
               /\ UNCHANGED result

Confirm(r) == /\ result[r] = "none" /\ Listed(r)
              /\ result' = [result EXCEPT ![r] = "ok"]
              /\ UNCHANGED rows

Refuse(r) == /\ result[r] = "none"
             /\ result' = [result EXCEPT ![r] = "refused"]
             /\ UNCHANGED rows

\* A process dies with the records it was working on.
Lose(R) == /\ R # {} /\ \A r \in R : result[r] = "none"
           /\ result' = [r \in Records |-> IF r \in R THEN "lost" ELSE result[r]]
           /\ UNCHANGED rows

Next == \/ \E r \in Records : Confirm(r) \/ Refuse(r) \/ (\E d \in Days : Enter(r, d))
        \/ \E R \in SUBSET Records : Lose(R)

Spec == Init /\ [][Next]_vars
=============================================================================
