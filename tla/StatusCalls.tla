------------------------------ MODULE StatusCalls ------------------------------
(* The two tools that call bridges (src/server/mcp/adapter.py, status_impl and
   scene_summary_impl) over the bridge client (src/server/core/bridge_client.py).

   A status call asks every live instance on a pool that all calls share: a permit for
   every future, as many threads as permits. The caller gives up at its deadline and
   leaves; its futures stay with the pool until their own clients give up. A summary
   asks one instance on the thread of its own call and may be cancelled meanwhile.

   A client connects, sends and receives and looks at its deadline between any two
   waits. What a bridge sends may be nothing, an answer of its own or a wrong one. *)
EXTENDS Naturals, FiniteSets

CONSTANTS Calls, Instances,
          Permits       \* _STATUS_ADMISSION, and the threads of _STATUS_EXECUTOR
ASSUME StatusAssumption == Permits \in Nat \ {0} /\ IsFiniteSet(Instances)

VARIABLES pc,           \* [call |-> step of its caller]
          live,         \* [call |-> instances still to be asked]
          asked,        \* [call |-> instances of its futures]
          answers,      \* [call |-> [instance |-> what the caller collected]]
          skipped,      \* [call |-> skipped_count]
          stale,        \* calls that have seen a bridge fail and invalidate the cache
          st,           \* [call |-> [instance |-> state of the future and its client]]
          hooked,       \* [call |-> futures that release their permit when they are done]
          permits       \* permits left

vars == <<pc, live, asked, answers, skipped, stale, st, hooked, permits>>
None == "none"

\* What a client's call comes to; only "own" is a result of the instance that was asked.
Outcomes == {"own", "busy", "unavailable", "timeout"}
Running == {"connect", "send", "receive"}
Summary == {"summary", "summarised", "refused"}
Done == {"answered", "failed", "summarised", "refused"}
Ended == Outcomes \cup {"cancelled"}

Init ==
    /\ pc = [c \in Calls |-> "new"]
    /\ live = [c \in Calls |-> {}] /\ asked = [c \in Calls |-> {}]
    /\ answers = [c \in Calls |-> [i \in Instances |-> None]]
    /\ skipped = [c \in Calls |-> 0] /\ stale = {}
    /\ st = [c \in Calls |-> [i \in Instances |-> None]]
    /\ hooked = [c \in Calls |-> {}] /\ permits = Permits

Goes(c, to) == pc' = [pc EXCEPT ![c] = to]
Sets(c, i, to) == st' = [st EXCEPT ![c][i] = to]

-----------------------------------------------------------------------------
(* The caller of status. *)

\* The instances with a client, as DiscoveryCache finds them.
Discover(c) ==
    /\ pc[c] = "new"
    /\ \E found \in SUBSET Instances : live' = [live EXCEPT ![c] = found]
    /\ Goes(c, "admit")
    /\ UNCHANGED <<asked, answers, skipped, stale, st, hooked, permits>>

\* A permit, then the future, in the order of the list.
Admit(c) ==
    /\ pc[c] = "admit" /\ live[c] # {} /\ permits > 0
    /\ permits' = permits - 1
    /\ LET i == CHOOSE j \in live[c] : TRUE
       IN /\ Sets(c, i, "queued")
          /\ live' = [live EXCEPT ![c] = @ \ {i}]
          /\ asked' = [asked EXCEPT ![c] = @ \cup {i}]
    /\ Goes(c, "hook")
    /\ UNCHANGED <<answers, skipped, stale, hooked>>

\* The executor refuses: the permit goes back and the call fails, once its futures are cancelled.
SubmitFails(c) ==
    /\ pc[c] = "admit" /\ live[c] # {} /\ permits > 0
    /\ Goes(c, "fail")
    /\ UNCHANGED <<live, asked, answers, skipped, stale, st, hooked, permits>>

\* A deadline may pass at any moment: before the next question, or while waiting for its permit.
Break(c) ==
    /\ pc[c] = "admit" /\ live[c] # {}
    /\ skipped' = [skipped EXCEPT ![c] = @ + Cardinality(live[c])]
    /\ Goes(c, "collect")
    /\ UNCHANGED <<live, asked, answers, stale, st, hooked, permits>>

\* As if no future were done before its callback is added.
NeverLate(c) == {}

\* A callback added to a future that is done already is called at once.
DoneAlready(c) == {i \in asked[c] \ hooked[c] : st[c][i] \in Ended}
Hook(c) ==
    /\ pc[c] = "hook"
    /\ hooked' = [hooked EXCEPT ![c] = asked[c]]
    /\ permits' = permits + Cardinality(DoneAlready(c))
    /\ Goes(c, IF live[c] = {} THEN "collect" ELSE "admit")
    /\ UNCHANGED <<live, asked, answers, skipped, stale, st>>

Collected(c) == {i \in Instances : answers[c][i] # None}

\* as_completed: futures as they are done.
Collect(c) ==
    /\ pc[c] = "collect"
    /\ \E i \in asked[c] \ Collected(c) :
         /\ st[c][i] \in Outcomes
         /\ answers' = [answers EXCEPT ![c][i] = st[c][i]]
         /\ stale' = IF st[c][i] \in {"own", "busy"} THEN stale ELSE stale \cup {c}
    /\ UNCHANGED <<pc, live, asked, skipped, st, hooked, permits>>

\* The futures that are not done when the deadline comes.
StillOut(c) == {i \in asked[c] \ Collected(c) : st[c][i] \notin Ended}

\* What as_completed has not given out when the deadline comes, done or not.
Missing(c) == asked[c] \ Collected(c)
CollectTimeout(c) ==
    /\ pc[c] = "collect" /\ Missing(c) # {}
    /\ skipped' = [skipped EXCEPT ![c] = @ + Cardinality(Missing(c))]
    /\ stale' = stale \cup {c}
    /\ Goes(c, "cancel")
    /\ UNCHANGED <<live, asked, answers, st, hooked, permits>>

\* finally: only a future that no thread has taken can be cancelled; its callback runs here.
Queued(c) == {i \in asked[c] : st[c][i] = "queued"}
Cancel(c) ==
    /\ \/ pc[c] \in {"cancel", "fail"}
       \/ pc[c] = "collect" /\ Missing(c) = {}
    /\ st' = [st EXCEPT ![c] = [i \in Instances |-> IF i \in Queued(c) THEN "cancelled" ELSE @[i]]]
    /\ permits' = permits + Cardinality(Queued(c) \cap hooked[c])
    /\ Goes(c, IF pc[c] = "fail" THEN "failed" ELSE "rows")
    /\ UNCHANGED <<live, asked, answers, skipped, stale, hooked>>

\* The rows, once the cache is invalidated: an instance without an answer is busy or disconnected.
Answer(c) ==
    /\ \/ pc[c] = "rows"
       \/ pc[c] = "admit" /\ live[c] = {}
    /\ Goes(c, "answered")
    /\ UNCHANGED <<live, asked, answers, skipped, stale, st, hooked, permits>>

Status(c) == \/ Discover(c) \/ Admit(c) \/ Break(c) \/ SubmitFails(c) \/ Hook(c)
             \/ Collect(c) \/ CollectTimeout(c) \/ Cancel(c) \/ Answer(c)

-----------------------------------------------------------------------------
(* The caller of scene_summary. *)

\* The instance may be unknown, of another version or without a client.
Find(c) ==
    /\ pc[c] = "new"
    /\ \/ Goes(c, "refused") /\ UNCHANGED <<asked, st>>
       \/ \E i \in Instances : /\ asked' = [asked EXCEPT ![c] = {i}]
                               /\ Sets(c, i, "connect")
                               /\ Goes(c, "summary")
    /\ UNCHANGED <<live, answers, skipped, stale, hooked, permits>>

\* An error of the client invalidates the cache; a cancellation does not.
Summarise(c) ==
    /\ pc[c] = "summary"
    /\ \E i \in asked[c] :
         /\ st[c][i] \in Ended
         /\ stale' = IF st[c][i] \in Outcomes \ {"own"} THEN stale \cup {c} ELSE stale
         /\ answers' = [answers EXCEPT ![c][i] = st[c][i]]
         /\ Goes(c, IF st[c][i] = "own" THEN "summarised" ELSE "refused")
    /\ UNCHANGED <<live, asked, skipped, st, hooked, permits>>

\* check_cancelled is looked at before every wait.
CancelSummary(c) ==
    /\ pc[c] = "summary"
    /\ \E i \in asked[c] : st[c][i] \in Running /\ Sets(c, i, "cancelled")
    /\ UNCHANGED <<pc, live, asked, answers, skipped, stale, hooked, permits>>

-----------------------------------------------------------------------------
(* The pool and the clients. *)

callerVars == <<pc, live, asked, answers, skipped, stale, hooked>>

\* A thread comes back for the next future whenever it does.
Begin(c, i) == st[c][i] = "queued" /\ Sets(c, i, "connect") /\ UNCHANGED <<callerVars, permits>>

\* The future is done and runs its callbacks.
Finish(c, i, outcome) ==
    /\ Sets(c, i, outcome)
    /\ permits' = permits + (IF i \in hooked[c] THEN 1 ELSE 0)
    /\ UNCHANGED callerVars

\* A client stops at the deadline its caller has left at.
InTime(c) == pc[c] \notin {"rows", "answered"}
Step(c, i, from, to) ==
    /\ st[c][i] = from /\ InTime(c)
    /\ Sets(c, i, to) /\ UNCHANGED <<callerVars, permits>>

\* A full backlog, a full socket and a part of a frame leave the client where it is.
Connect(c, i) == Step(c, i, "connect", "send")
Send(c, i) == Step(c, i, "send", "receive")

\* The first whole frame: of this request and this instance, or of anything else.
Receive(c, i) ==
    /\ st[c][i] = "receive" /\ InTime(c)
    /\ \E outcome \in {"own", "busy", "unavailable"} : Finish(c, i, outcome)

\* The peer refuses, resets or closes.
Breaks(c, i) == st[c][i] \in Running /\ Finish(c, i, "unavailable")

\* Whatever it waits for, the client polls its deadline, which is the caller's or an earlier one.
Polled == Running
TimesOut(c, i) == st[c][i] \in Polled /\ Finish(c, i, "timeout")

Over == /\ \A c \in Calls : pc[c] \in Done /\ \A i \in Instances : st[c][i] \in Ended \cup {None}
        /\ UNCHANGED vars

Next == \/ \E c \in Calls : Status(c) \/ Find(c) \/ Summarise(c) \/ CancelSummary(c)
        \/ \E c \in Calls, i \in Instances :
             Begin(c, i) \/ Connect(c, i) \/ Send(c, i) \/ Receive(c, i) \/ Breaks(c, i) \/ TimesOut(c, i)
        \/ Over

\* Threads run and clocks go on; nothing is assumed of the bridges.
Fairness ==
    /\ \A c \in Calls : WF_vars(Status(c)) /\ WF_vars(Find(c)) /\ WF_vars(Summarise(c))
    /\ \A c \in Calls, i \in Instances : WF_vars(Begin(c, i)) /\ WF_vars(TimesOut(c, i))
Spec == Init /\ [][Next]_vars /\ Fairness

-----------------------------------------------------------------------------
(* The permits of the status pool are exact (status_impl, _STATUS_ADMISSION): at any
   moment a permit is either free or with a future that will give it back. None is lost and none given back twice, neither by a future that is done
   before its callback is added, nor by one that is cancelled while a thread takes it,
   nor by one whose caller has left at its deadline. *)
Taken == {f \in Calls \X Instances :
            /\ pc[f[1]] \notin Summary
            /\ f[2] \in asked[f[1]] /\ ~(st[f[1]][f[2]] \in Ended /\ f[2] \in hooked[f[1]])}
StatusPermits == permits + Cardinality(Taken) = Permits

(* A status answer adds up (status_impl, skipped_count): of the live instances it
   found, exactly those are counted as skipped whose answer or failure it has not got,
   whether they were never asked, are out still, or came in while the deadline passed.
   And no call, of either tool, meets a bridge that fails, or leaves one behind that it
   has asked, without invalidating the cache that named it. *)
Unseen(c) == (live[c] \cup asked[c]) \ Collected(c)
Failing(c) == {i \in asked[c] : \/ answers[c][i] \in {"unavailable", "timeout"}
                                 \/ (answers[c][i] = None /\ pc[c] = "answered")}
StatusAddsUp ==
    \A c \in Calls :
        /\ pc[c] = "answered" =>
             skipped[c] = Cardinality(Unseen(c))
        /\ pc[c] \in Done /\ Failing(c) # {} => c \in stale

(* Every call has ended, and every permit is back: it comes to that though no bridge
   answers and callers leave at their deadlines (the deadline of bridge_client.call runs
   through connect, send and receive). *)
Settled == permits = Permits /\ \A c \in Calls : pc[c] \in Done
=============================================================================
