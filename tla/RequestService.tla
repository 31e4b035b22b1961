--------------------------- MODULE RequestService ---------------------------
(***************************************************************************)
(* What the Bridge's task queue promises the connections that use it,      *)
(* with no thread, lock, tick or continuation in sight: a request is       *)
(* refused only when a limit is reached, an accepted one is answered at    *)
(* most once, and one that ends without an answer had an excuse - it was   *)
(* cancelled, its deadline passed, or the session was stopped.             *)
(* TaskQueue implements this module (see TaskQueue!Service).               *)
(***************************************************************************)
EXTENDS Naturals, FiniteSets

CONSTANTS Requests,      \* the submissions
          Summaries,     \* those whose method is scene_summary
          Capacity,      \* slots for requests waiting or being worked on
          MaxSummaries   \* slots among them for scene_summary requests

VARIABLES phase,         \* phase[r]: where request r is in its life
          replies,       \* replies[r]: how many responses r was given
          cancelled,     \* the requests whose connection was dropped
          expired        \* the requests whose deadline has passed

svars == <<phase, replies, cancelled, expired>>

Phases == {"new", "rejected", "accepted", "answered",
           "done", "dropped", "drained"}

\* A request holds its slot until its answer has been handed over and the slot
\* given back.
Holding == {r \in Requests : phase[r] \in {"accepted", "answered"}}

AtLimit(r) == \/ Cardinality(Holding) >= Capacity
              \/ r \in Summaries /\ Cardinality(Holding \cap Summaries) >= MaxSummaries

SInit == /\ phase = [r \in Requests |-> "new"]
         /\ replies = [r \in Requests |-> 0]
         /\ cancelled = {}
         /\ expired = {}

Admit(r) == /\ phase[r] = "new"
            /\ phase' = [phase EXCEPT ![r] = IF AtLimit(r) THEN "rejected"
                                                           ELSE "accepted"]
            /\ UNCHANGED <<replies, cancelled, expired>>

Excuse(r) == /\ phase[r] \in {"accepted", "answered"}
             /\ \/ cancelled' = cancelled \cup {r} /\ UNCHANGED expired
                \/ expired' = expired \cup {r} /\ UNCHANGED cancelled
             /\ UNCHANGED <<phase, replies>>

Answer(r) == /\ phase[r] = "accepted"
             /\ phase' = [phase EXCEPT ![r] = "answered"]
             /\ replies' = [replies EXCEPT ![r] = @ + 1]
             /\ UNCHANGED <<cancelled, expired>>

Release(r) == /\ phase[r] = "answered"
              /\ phase' = [phase EXCEPT ![r] = "done"]
              /\ UNCHANGED <<replies, cancelled, expired>>

Drop(r) == /\ phase[r] = "accepted"
           /\ r \in cancelled \cup expired
           /\ phase' = [phase EXCEPT ![r] = "dropped"]
           /\ UNCHANGED <<replies, cancelled, expired>>

\* Stopping the session abandons everything that waits, without an answer.
Abandon == /\ phase' = [r \in Requests |->
                          IF phase[r] = "accepted" THEN "drained" ELSE phase[r]]
           /\ UNCHANGED <<replies, cancelled, expired>>

SNext == \/ \E r \in Requests :
              Admit(r) \/ Excuse(r) \/ Answer(r) \/ Release(r) \/ Drop(r)
         \/ Abandon

SSpec == SInit /\ [][SNext]_svars
=============================================================================
