----------------------------- MODULE AuditedCalls -----------------------------
(***************************************************************************)
(* server/mcp/adapter.py, the middleware around every tool call: arguments *)
(* are checked, scene summaries are admitted SummaryCap at a time, the     *)
(* tool runs, and before anything is answered a row goes to the audit log. *)
(* Rows are written by one worker thread that takes jobs in order; at most *)
(* AuditCap jobs may wait or run.  A call gives up on a job that is still  *)
(* in the queue at its deadline but not on one that has begun, and a       *)
(* cancelled call keeps waiting for its row.                               *)
(*                                                                         *)
(* The event loop runs one coroutine at a time; the worker runs beside it, *)
(* so the checks a coroutine makes one after the other may find the job in *)
(* different states.  AuditLog models the row itself: here a job writes it *)
(* or fails, and fails at once when its deadline has passed.               *)
(***************************************************************************)
EXTENDS Naturals, Sequences, FiniteSets

CONSTANTS Calls,
          Summaries,   \* the calls of get_scene_summary
          SummaryCap,  \* _SCENE_SUMMARY_ADMISSION
          AuditCap,    \* _AUDIT_ADMISSION
          MaxCancels   \* bound: calls their clients cancel

ASSUME CallsAssumption ==
  /\ Summaries \subseteq Calls
  /\ {SummaryCap, AuditCap} \subseteq Nat \ {0} /\ MaxCancels \in Nat

VARIABLES
  stage,     \* stage[c]: how far call c is
  outcome,   \* outcome[c]: what the call came to before its audit
  reply,     \* reply[c]: what the client is told
  admitted,  \* calls that hold a permit of _SCENE_SUMMARY_ADMISSION
  summaries, \* its permits that are left
  audits,    \* the permits of _AUDIT_ADMISSION that are left
  queue,     \* jobs of _AUDIT_EXECUTOR that have not begun
  job,       \* job[c]: the future of c's job
  rows,      \* calls that have a row in the log
  late,      \* calls whose audit deadline has passed
  cancelled, \* calls their client has cancelled
  shielded   \* calls that have seen it and wait for the end of their job

jobs == <<queue, job, rows, audits>>
callVars == <<stage, outcome, reply, admitted, summaries, jobs, late, cancelled, shielded>>

CallsInit ==
  /\ stage = [c \in Calls |-> "new"]
  /\ outcome = [c \in Calls |-> "none"] /\ reply = [c \in Calls |-> "none"]
  /\ admitted = {} /\ summaries = SummaryCap
  /\ audits = AuditCap /\ queue = <<>> /\ job = [c \in Calls |-> "none"] /\ rows = {}
  /\ late = {} /\ cancelled = {} /\ shielded = {}

Move(c, to) == stage' = [stage EXCEPT ![c] = to]
Set(f, c, v) == [f EXCEPT ![c] = v]
\* Mutant: done is set only for a row that was written.
JobRecorded(c) == job[c] = "recorded"
\* submitted.done(), and the event that notify_done sets.
JobDone(c) == job[c] \in {"recorded", "failed"}

-----------------------------------------------------------------------------
(* _audit_and_validate_tool_call *)

\* Mutant: the permit is kept by a call that was not answered as it should.
AnswerKeeping(c, r) ==
  /\ reply' = Set(reply, c, r)
  /\ Move(c, "ended")
  /\ summaries' = summaries + (IF c \in admitted /\ r \in {"result", "error"} THEN 1 ELSE 0)
  /\ admitted' = admitted \ {c}

\* The permit of a call goes back in the innermost finally, whatever came before.
Answer(c, r) ==
  /\ reply' = Set(reply, c, r)
  /\ Move(c, "ended")
  /\ summaries' = summaries + (IF c \in admitted THEN 1 ELSE 0)
  /\ admitted' = admitted \ {c}

\* There is no audit log to write to: AUDIT_UNAVAILABLE before anything is done.
NoLog(c) ==
  /\ stage[c] = "new"
  /\ Answer(c, "unavailable")
  /\ UNCHANGED <<outcome, jobs, late, cancelled, shielded>>

\* Arguments that are wrong end a call at once, a summary too many with BRIDGE_BUSY.
Reject(c) ==
  /\ stage[c] = "new"
  /\ outcome' = Set(outcome, c, "error")
  /\ Move(c, "audit")
  /\ UNCHANGED <<reply, admitted, summaries, jobs, late, cancelled, shielded>>

Admit(c) ==
  /\ stage[c] = "new"
  /\ IF c \in Summaries
     THEN /\ summaries > 0
          /\ summaries' = summaries - 1
          /\ admitted' = admitted \cup {c}
     ELSE UNCHANGED <<summaries, admitted>>
  /\ Move(c, "tool")
  /\ UNCHANGED <<outcome, reply, jobs, late, cancelled, shielded>>

\* call_next() returns or raises; the tool's thread has ended by then.
ToolEnds(c) ==
  /\ stage[c] = "tool"
  /\ \E o \in {"result", "error"} \cup (IF c \in cancelled THEN {"cancelled"} ELSE {}) :
       outcome' = Set(outcome, c, o)
  /\ Move(c, "audit")
  /\ UNCHANGED <<reply, admitted, summaries, jobs, late, cancelled, shielded>>

\* Cancelled by the client.
Cancel(c) ==
  /\ stage[c] # "ended" /\ c \notin cancelled /\ Cardinality(cancelled) < MaxCancels
  /\ cancelled' = cancelled \cup {c}
  /\ UNCHANGED <<stage, outcome, reply, admitted, summaries, jobs, late, shielded>>

-----------------------------------------------------------------------------
(* _await_audit *)

QueueFull(c) ==
  /\ stage[c] = "audit" /\ audits = 0
  /\ Answer(c, "unavailable")
  /\ UNCHANGED <<outcome, jobs, late, cancelled, shielded>>

Submit(c) ==
  /\ stage[c] = "audit" /\ audits > 0
  /\ audits' = audits - 1
  /\ queue' = Append(queue, c)
  /\ job' = Set(job, c, "queued")
  /\ Move(c, "waiting")
  /\ UNCHANGED <<outcome, reply, admitted, summaries, rows, late, cancelled, shielded>>

\* AUDIT_LOCK_TIMEOUT after the end of the tool.
DeadlinePasses(c) ==
  /\ stage[c] \in {"waiting", "ended"}
  /\ job[c] \in {"queued", "running", "written"}
  /\ c \notin late
  /\ late' = late \cup {c}
  /\ UNCHANGED <<stage, outcome, reply, admitted, summaries, jobs, cancelled, shielded>>

\* CancelledError: from now on the wait is shielded and has no deadline.
SeeCancelled(c) ==
  /\ stage[c] \in {"waiting", "begun"} /\ c \in cancelled \ shielded /\ ~JobDone(c)
  /\ shielded' = shielded \cup {c}
  /\ UNCHANGED <<stage, outcome, reply, admitted, summaries, jobs, late, cancelled>>

\* The deadline is over and submitted.running() is false: TimeoutError.
SeeLate(c) ==
  /\ stage[c] = "waiting" /\ c \in late \ shielded /\ job[c] = "queued"
  /\ Move(c, "expiring")
  /\ UNCHANGED <<outcome, reply, admitted, summaries, jobs, late, cancelled, shielded>>

\* The handler asks again: the call goes on waiting for a job that is found running.
KeepWaiting(c) ==
  /\ stage[c] = "expiring" /\ job[c] # "queued"
  /\ Move(c, "begun")
  /\ UNCHANGED <<outcome, reply, admitted, summaries, jobs, late, cancelled, shielded>>

\* It gives up on one that was not running and then is not done, although it may
\* have begun between the two questions.
GiveUpJob(c) ==
  /\ stage[c] = "expiring" /\ ~JobDone(c)
  /\ Answer(c, "gave up")
  /\ UNCHANGED <<outcome, jobs, late, cancelled, shielded>>

\* submitted.result() raises what the job raised; else a cancellation is passed on.
Reply(c) ==
  IF job[c] = "failed" THEN "unavailable"
  ELSE IF c \in shielded THEN "cancelled" ELSE outcome[c]

Resolve(c) ==
  /\ stage[c] \in {"waiting", "begun"} /\ JobDone(c)
  /\ Answer(c, Reply(c))
  /\ UNCHANGED <<outcome, jobs, late, cancelled, shielded>>

-----------------------------------------------------------------------------
(* The audit worker. *)

JobBegins ==
  /\ queue # <<>> /\ \A c \in Calls : job[c] \notin {"running", "written"}
  /\ job' = Set(job, Head(queue), "running")
  /\ queue' = Tail(queue)
  /\ UNCHANGED <<stage, outcome, reply, admitted, summaries, audits, rows, late, cancelled, shielded>>

\* Mutant: record() looks at its deadline only at the end.
InTimeAlways(c) == TRUE
\* record() begins with _check_deadline.
InTime(c) == c \notin late

WriteRow(c) ==
  /\ job[c] = "running" /\ InTime(c)
  /\ rows' = rows \cup {c}
  /\ job' = Set(job, c, "written")
  /\ UNCHANGED <<stage, outcome, reply, admitted, summaries, queue, audits, late, cancelled, shielded>>

\* run() releases the admission whatever call() does.
Freed(c) == audits + 1

\* record() raises, or ends with a row that is in time or too late.
JobEnds(c) ==
  /\ job[c] \in {"running", "written"}
  /\ job' = Set(job, c, IF job[c] = "written" /\ c \notin late THEN "recorded" ELSE "failed")
  /\ audits' = Freed(c)
  /\ UNCHANGED <<stage, outcome, reply, admitted, summaries, queue, rows, late, cancelled, shielded>>

Coroutine(c) == \/ NoLog(c) \/ Reject(c) \/ Admit(c) \/ QueueFull(c) \/ Submit(c)
                \/ SeeCancelled(c) \/ SeeLate(c) \/ KeepWaiting(c) \/ GiveUpJob(c) \/ Resolve(c)
Worker == JobBegins \/ \E c \in Calls : WriteRow(c) \/ JobEnds(c)

CallsNext == \/ \E c \in Calls : Coroutine(c) \/ ToolEnds(c) \/ Cancel(c) \/ DeadlinePasses(c)
             \/ Worker

CallsSpec == CallsInit /\ [][CallsNext]_callVars
\* The loop and the worker go on; tools and records have deadlines of their own.
CallsFairSpec == CallsSpec /\ WF_callVars(Worker)
                           /\ \A c \in Calls : /\ WF_callVars(Coroutine(c))
                                               /\ WF_callVars(ToolEnds(c))

-----------------------------------------------------------------------------
(* Properties. *)

Replies == {"result", "error", "cancelled"}

CallsTypeOK ==
  /\ stage \in [Calls -> {"new", "tool", "audit", "waiting", "expiring", "begun", "ended"}]
  /\ outcome \in [Calls -> {"none"} \cup Replies]
  /\ reply \in [Calls -> {"none", "unavailable", "gave up"} \cup Replies]
  /\ admitted \subseteq Summaries /\ summaries \in 0..SummaryCap
  /\ audits \in 0..AuditCap /\ queue \in Seq(Calls)
  /\ job \in [Calls -> {"none", "queued", "running", "written", "recorded", "failed"}]
  /\ rows \subseteq Calls /\ late \subseteq Calls
  /\ cancelled \subseteq Calls /\ shielded \subseteq cancelled

\* What the client is told agrees with the log, however deadlines, cancellations and
\* the worker fall together: nothing of a tool, not even its failure, is answered
\* without a row, and a call that was given up in the queue is not in the log as done,
\* now or later, even when its job began at that very moment.
RepliesMatchRows ==
  /\ CallsTypeOK
  /\ \A c \in Calls : /\ reply[c] \in Replies => c \in rows
                      /\ reply[c] = "gave up" => c \notin rows

\* No permit is lost or given back twice: those that are out belong to jobs that wait
\* or run, and to scene summaries that are not answered yet.
PermitsExact ==
  /\ AuditCap - audits = Cardinality({c \in Calls : job[c] \in {"queued", "running", "written"}})
  /\ SummaryCap - summaries = Cardinality(admitted)
  /\ {c \in Summaries : stage[c] = "tool"} \subseteq admitted
  /\ \A c \in admitted : stage[c] # "ended"

\* Every call is answered, also one that is cancelled while its job waits behind others.
EveryCallEnds == <>(\A c \in Calls : stage[c] = "ended")
=============================================================================
