------------------------------ MODULE TaskQueue ------------------------------
(***************************************************************************)
(* bridge/core/queue.py.  Two threads share one TaskQueue: the I/O thread   *)
(* submits a request per decoded frame and cancels those of a dropped       *)
(* connection; Blender's main thread runs tick() from a timer and drain()   *)
(* from stop().  tick() takes one task at a time, in arrival order, and     *)
(* looks at the clock only between steps; a scene_summary answers with a    *)
(* generator (a continuation) that is resumed once per turn and goes back   *)
(* to the tail of the queue between turns.                                  *)
(*                                                                          *)
(* Each `with self._lock' block, and each stretch of main-thread code that  *)
(* runs between two points where the other thread can be noticed, is one    *)
(* action.  Time appears as two facts that can become true at any moment:   *)
(* a request's deadline has passed (expired) and the tick has used up its   *)
(* budget (spent).                                                          *)
(***************************************************************************)
EXTENDS Integers, Sequences, FiniteSets, Functions

CONSTANTS Requests,      \* calls of submit(), each with its own reply callback
          Summaries,     \* those whose method is scene_summary
          Capacity,      \* TaskQueue's capacity argument (64)
          MaxSummaries,  \* MAX_SCENE_SUMMARY_TASKS (2)
          NoRequest      \* the value of cur when no task is active

ASSUME RequestsAssumption ==
  /\ Summaries \subseteq Requests
  /\ IsFiniteSet(Requests)
  /\ NoRequest \notin Requests
ASSUME LimitsAssumption == Capacity \in Nat /\ MaxSummaries \in Nat

VARIABLES
  tasks,      \* _tasks: the requests waiting, head first
  active,     \* _active
  summaries,  \* _scene_summaries
  pc,         \* where the main thread is in tick() or drain()
  cur,        \* the task the main thread took from the queue
  taken,      \* drain(): tasks removed whose continuation is not closed yet
  spent,      \* tick(): monotonic() >= end
  gen,        \* gen[r]: r's continuation
  cancelled,  \* requests whose `cancelled' event is set
  expired,    \* requests whose deadline has passed
  phase,      \* phase[r]: the life of r, as its caller sees it
  replies     \* replies[r]: calls of r's reply callback

shared == <<tasks, active, summaries>>
thread == <<pc, cur, taken, spent>>
caller == <<cancelled, expired, phase, replies>>
vars == <<shared, thread, gen, caller>>

Waiting == Range(tasks)
\* Mutant: deadlines are not looked at.
StaleNoDeadline(r) == r \in cancelled
Stale(r) == r \in cancelled \/ r \in expired

Init ==
  /\ tasks = <<>>
  /\ active = 0
  /\ summaries = 0
  /\ pc = "idle"
  /\ cur = NoRequest
  /\ taken = {}
  /\ spent = FALSE
  /\ gen = [r \in Requests |-> "none"]
  /\ cancelled = {}
  /\ expired = {}
  /\ phase = [r \in Requests |-> "new"]
  /\ replies = [r \in Requests |-> 0]

-----------------------------------------------------------------------------
(* The I/O thread and the clock. *)

\* Mutant: one submission too many.
FullOffByOne(r) == \/ Len(tasks) + active > Capacity
                   \/ r \in Summaries /\ summaries > MaxSummaries
Full(r) == \/ Len(tasks) + active >= Capacity
           \/ r \in Summaries /\ summaries >= MaxSummaries

\* submit(): admission and append under one lock; QueueFull otherwise.
Submit(r) ==
  /\ phase[r] = "new"
  /\ IF Full(r)
     THEN /\ phase' = [phase EXCEPT ![r] = "rejected"]
          /\ UNCHANGED shared
     ELSE /\ phase' = [phase EXCEPT ![r] = "accepted"]
          /\ tasks' = Append(tasks, r)
          /\ summaries' = IF r \in Summaries THEN summaries + 1 ELSE summaries
          /\ UNCHANGED active
  /\ UNCHANGED <<thread, gen, cancelled, expired, replies>>

\* The connection that sent r was dropped: its event is set, nothing else.
Cancel(r) ==
  /\ phase[r] \in {"accepted", "answered"}
  /\ cancelled' = cancelled \cup {r}
  /\ UNCHANGED <<shared, thread, gen, expired, phase, replies>>

Expire(r) ==
  /\ phase[r] \in {"accepted", "answered"}
  /\ expired' = expired \cup {r}
  /\ UNCHANGED <<shared, thread, gen, cancelled, phase, replies>>

SpendBudget ==
  /\ pc \notin {"idle", "draining"} /\ ~spent
  /\ spent' = TRUE
  /\ UNCHANGED <<shared, pc, cur, taken, gen, caller>>

-----------------------------------------------------------------------------
(* The main thread: tick(). *)

\* _close_continuation(); an unstarted or suspended generator ends, a finished
\* one is left as it is.  An exception it raises is logged and forgotten.
Closed(r) == [gen EXCEPT ![r] = IF @ = "suspended" THEN "finished" ELSE @]

\* Mutant: the scene_summary slot is not given back.
CompleteKeepsSummary ==
  /\ active' = active - 1
  /\ UNCHANGED <<summaries, tasks>>
  /\ cur' = NoRequest
  /\ pc' = "loop"

\* _complete_active(): the active slot, and the scene_summary slot, are given
\* back under the lock.
CompleteActive ==
  /\ active' = active - 1
  /\ summaries' = IF cur \in Summaries THEN summaries - 1 ELSE summaries
  /\ UNCHANGED tasks
  /\ cur' = NoRequest
  /\ pc' = "loop"

\* Mutant: the continuation goes to the head.
RequeueFirst ==
  /\ tasks' = <<cur>> \o tasks
  /\ active' = active - 1
  /\ UNCHANGED summaries
  /\ cur' = NoRequest

\* The continuation goes to the tail in the lock that gives up the active slot.
Requeue ==
  /\ tasks' = Append(tasks, cur)
  /\ active' = active - 1
  /\ UNCHANGED summaries
  /\ cur' = NoRequest

EndWithoutReply ==
  /\ gen' = Closed(cur)
  /\ phase' = [phase EXCEPT ![cur] = "dropped"]
  /\ CompleteActive
  /\ UNCHANGED <<taken, spent, cancelled, expired, replies>>

TickStart ==
  /\ pc = "idle"
  /\ pc' = "loop"
  /\ spent' = FALSE
  /\ UNCHANGED <<shared, cur, taken, gen, caller>>

\* The loop condition, and the return of IDLE_INTERVAL on an empty queue.
TickReturn ==
  /\ pc = "loop"
  /\ spent \/ tasks = <<>>
  /\ pc' = "idle"
  /\ UNCHANGED <<shared, cur, taken, spent, gen, caller>>

Pop ==
  /\ pc = "loop" /\ ~spent /\ tasks # <<>>
  /\ cur' = Head(tasks)
  /\ tasks' = Tail(tasks)
  /\ active' = active + 1
  /\ pc' = "popped"
  /\ UNCHANGED <<summaries, taken, spent, gen, caller>>

\* Cancelled or past its deadline while it waited: dropped unseen.
DropStale ==
  /\ pc = "popped"
  /\ Stale(cur)
  /\ EndWithoutReply

\* A first turn calls the handler: a frame, an exception (whose error frame is
\* answered like any other), or for a scene_summary an unstarted generator.
RunHandler ==
  /\ pc = "popped" /\ ~Stale(cur)
  /\ gen[cur] = "none"
  /\ \/ /\ pc' = "framed"
        /\ UNCHANGED gen
     \/ /\ cur \in Summaries
        /\ gen' = [gen EXCEPT ![cur] = "suspended"]
        /\ pc' = "stepping"
  /\ UNCHANGED <<shared, cur, taken, spent, caller>>

\* A later turn goes on with the continuation of the earlier one.
TakeContinuation ==
  /\ pc = "popped" /\ ~Stale(cur)
  /\ gen[cur] = "suspended"
  /\ pc' = "stepping"
  /\ UNCHANGED <<shared, cur, taken, spent, gen, caller>>

DropBeforeStep ==
  /\ pc = "stepping"
  /\ Stale(cur)
  /\ EndWithoutReply

\* No budget left for the step: back to the tail, and tick() returns.
YieldBudget ==
  /\ pc = "stepping" /\ ~Stale(cur) /\ spent
  /\ Requeue
  /\ pc' = "idle"
  /\ UNCHANGED <<taken, spent, gen, caller>>

\* next(continuation): it yields, returns its frame, or raises.
Step ==
  /\ pc = "stepping" /\ ~Stale(cur) /\ ~spent
  /\ \/ pc' = "yielded" /\ UNCHANGED gen
     \/ pc' = "framed" /\ gen' = [gen EXCEPT ![cur] = "finished"]
  /\ UNCHANGED <<shared, cur, taken, spent, caller>>

\* After a yield only cancellation is looked at; a deadline that passed
\* meanwhile is noticed when the task is popped again.
AfterYield ==
  /\ pc = "yielded"
  /\ \/ /\ cur \in cancelled
        /\ EndWithoutReply
     \/ /\ cur \notin cancelled
        /\ Requeue
        /\ pc' = "loop"
        /\ UNCHANGED <<taken, spent, gen, caller>>

\* The frame is ready: late or unwanted it is discarded, else it goes out.
CheckFrame ==
  /\ pc = "framed"
  /\ \/ Stale(cur) /\ EndWithoutReply
     \/ /\ ~Stale(cur)
        /\ pc' = "replying"
        /\ UNCHANGED <<shared, cur, taken, spent, gen, caller>>

\* task.reply(frame); an exception (the peer is gone) changes nothing here.
Reply ==
  /\ pc = "replying"
  /\ phase' = [phase EXCEPT ![cur] = "answered"]
  /\ replies' = [replies EXCEPT ![cur] = @ + 1]
  /\ pc' = "replied"
  /\ UNCHANGED <<shared, cur, taken, spent, gen, cancelled, expired>>

\* finally: the slot is free only after the reply was handed over.
FinishReply ==
  /\ pc = "replied"
  /\ phase' = [phase EXCEPT ![cur] = "done"]
  /\ CompleteActive
  /\ UNCHANGED <<taken, spent, gen, cancelled, expired, replies>>

-----------------------------------------------------------------------------
(* The main thread: drain(), called by the session's stop(). *)

DrainTake ==
  /\ pc = "idle"
  /\ taken' = Waiting
  /\ tasks' = <<>>
  /\ summaries' = summaries - Cardinality(Waiting \cap Summaries)
  /\ phase' = [r \in Requests |-> IF r \in Waiting THEN "drained" ELSE phase[r]]
  /\ pc' = "draining"
  /\ UNCHANGED <<active, cur, spent, gen, cancelled, expired, replies>>

\* Mutant: drain() does not close what it removed.
DrainLeavesOpen ==
  /\ pc = "draining"
  /\ taken' = {}
  /\ pc' = "idle"
  /\ UNCHANGED <<shared, cur, spent, gen, caller>>

DrainClose ==
  /\ pc = "draining"
  /\ gen' = [r \in Requests |-> IF r \in taken /\ gen[r] = "suspended"
                                THEN "finished" ELSE gen[r]]
  /\ taken' = {}
  /\ pc' = "idle"
  /\ UNCHANGED <<shared, cur, spent, caller>>

-----------------------------------------------------------------------------
Tick == \/ TickReturn \/ Pop \/ DropStale \/ RunHandler \/ TakeContinuation
        \/ DropBeforeStep \/ YieldBudget \/ Step \/ AfterYield
        \/ CheckFrame \/ Reply \/ FinishReply

IOThread == \E r \in Requests : Submit(r) \/ Cancel(r)

Next == IOThread \/ (\E r \in Requests : Expire(r)) \/ SpendBudget
        \/ TickStart \/ Tick \/ DrainTake \/ DrainClose

Spec == Init /\ [][Next]_vars

\* Blender's timer calls tick() again after every return, code that has begun
\* keeps running, and time passes.  Nothing is assumed of a generator: it may
\* yield for ever.
FairSpec == /\ Spec
            /\ WF_vars(TickStart) /\ WF_vars(Tick \/ DrainClose)
            /\ SF_vars(Pop)
            /\ \A r \in Requests : WF_vars(Expire(r))

-----------------------------------------------------------------------------
(* Properties. *)

PCs == {"idle", "loop", "popped", "stepping", "yielded", "framed",
        "replying", "replied", "draining"}

Service == INSTANCE RequestService

TypeOK ==
  /\ tasks \in Seq(Requests)
  /\ active \in Nat /\ summaries \in Nat
  /\ pc \in PCs
  /\ cur \in Requests \cup {NoRequest}
  /\ taken \subseteq Requests
  /\ spent \in BOOLEAN
  /\ gen \in [Requests -> {"none", "suspended", "finished"}]
  /\ cancelled \subseteq Requests /\ expired \subseteq Requests
  /\ phase \in [Requests -> Service!Phases]
  /\ replies \in [Requests -> Nat]

\* The requests that hold a slot: those waiting and the one being worked on.
Held == Waiting \cup ({cur} \ {NoRequest})

\* The two counters stand for the tasks that are held.
SlotsExact ==
  /\ active = (IF cur = NoRequest THEN 0 ELSE 1)
  /\ summaries = Cardinality(Held \cap Summaries)

WithinLimits ==
  /\ Len(tasks) + active <= Capacity
  /\ Cardinality(Held \cap Summaries) <= MaxSummaries

\* Admission counts exactly the work there is: through completion, requeueing,
\* refusal and drain in any order the counters never drift from the tasks they
\* stand for, and waiting and active work together never exceed the limits, also
\* while a continuation is out of the deque (test_queue.py:296).
AdmissionExact == SlotsExact /\ WithinLimits

\* A request that waits is not also being worked on, none waits twice, and what
\* is held is what its caller still waits for.
OnePlace ==
  /\ \A i, j \in 1..Len(tasks) : tasks[i] = tasks[j] => i = j
  /\ cur \notin Waiting
  /\ \A r \in Requests : r \in Held <=> phase[r] \in {"accepted", "answered"}

\* A continuation that is suspended belongs to a task that is held, or that
\* drain() is about to close.
NoLeakedContinuation ==
  \A r \in Requests : gen[r] = "suspended" => r \in Held \cup taken

\* On every path of tick() and drain() a task is handed on or ended for good: no
\* request is mislaid or kept twice, and none of its continuations is left half
\* way.
TasksKept == OnePlace /\ NoLeakedContinuation

\* Losing an answer needs an excuse: an accepted request that went unanswered
\* was cancelled or late, or abandoned by drain(); in particular an exception
\* in a handler or a continuation is answered.  No request is answered twice.
AnsweredOrExcused ==
  \A r \in Requests :
    /\ replies[r] = (IF phase[r] \in {"answered", "done"} THEN 1 ELSE 0)
    /\ phase[r] = "dropped" => r \in cancelled \cup expired

\* Turns are taken in order: of two tasks that stay in the queue neither
\* overtakes the other, and a task that comes back from its turn queues behind
\* all that wait, so a long scene_summary delays a quick request by one step.
RoundRobin ==
  [][\A i, j \in 1..Len(tasks), k, l \in 1..Len(tasks') :
       /\ tasks'[k] = tasks[i] /\ tasks'[l] = tasks[j] /\ i < j => k < l
       /\ tasks'[k] = cur /\ tasks'[l] = tasks[i] => l < k]_vars

\* TaskQueue implements what RequestService promises its callers.
ImplementsService == Service!SSpec

\* Every accepted request ends, one way or another, although continuations may
\* yield for ever: the deadline ends them.
EveryRequestEnds ==
  \A r \in Requests : phase[r] = "accepted" ~> phase[r] \in
                          {"done", "dropped", "drained"}
=============================================================================
