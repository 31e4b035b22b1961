---------------------------- MODULE SmokeHarness ----------------------------
(***************************************************************************)
(* The two smoke tests that start process groups through a worker of their *)
(* own: the recovery test, whose supervisor (smoke/e2e, _supervise_        *)
(* recovery) watches the worker and cleans the registry up after it, and   *)
(* the NFR test, which the timer of the Blender runner (smoke/runner)      *)
(* watches phase by phase.  Worker, groups and supervisor run side by      *)
(* side; anything may die at any step, and the supervisor may be cancelled.*)
(***************************************************************************)
EXTENDS ProcessRegistry

CONSTANT Modes   \* the tests that are run: a subset of {"recovery", "nfr"}

VARIABLES
    mode,
    stage,      \* stage[k]: what the worker did with group k
    unwinding,  \* the worker met an error, a deadline or a signal
    pc,         \* the next step of the supervisor or the runner
    phase,      \* "settle", "term" or "kill" of cleanup_registry
    held,       \* the runner still has the worker in its state
    failed,     \* an error is on record
    success     \* what the test reports in the end

workers == <<stage, unwinding>>
flow == <<phase, held, failed>>
vars == <<processes, files, memory, scan, clock, mode, workers, pc, flow, success>>

Goto(l) == pc' = l
GotoFresh(l) == pc' = l /\ grace' = FALSE     \* a new wait begins

Init ==
    /\ proc = [g \in Groups |-> "none"] /\ exit = "none"
    /\ resv = {} /\ rec = [g \in Groups |-> "none"]
    /\ known = [g \in Groups |-> "no"] /\ caught = FALSE /\ scan = NoScan
    /\ late = 0 /\ grace = FALSE
    /\ mode \in Modes
    /\ stage = [k \in Kids |-> "idle"] /\ unwinding = FALSE
    /\ pc = "start" /\ phase = "settle" /\ held = FALSE
    /\ failed = FALSE /\ success = FALSE

-----------------------------------------------------------------------------
(* The worker: _run_recovery or _run_nfr under _run_bounded *)

Working == proc[Worker] = "run" /\ exit = "none"
WorkerOnly == UNCHANGED <<memory, scan, clock, mode, pc, flow, success>>

Reserve(k) ==
    /\ Working /\ ~unwinding /\ stage[k] = "idle"
    /\ stage' = [stage EXCEPT ![k] = "reserved"]
    /\ resv' = resv \cup {k}
    /\ UNCHANGED <<processes, rec, unwinding>> /\ WorkerOnly

\* Popen, or its failure: the reservation is taken back and the error raised.
SpawnKid(k) ==
    /\ Working /\ ~unwinding /\ stage[k] = "reserved"
    /\ \/ /\ stage' = [stage EXCEPT ![k] = "spawned"]
          /\ Spawn(k)
          /\ UNCHANGED <<resv, unwinding>>
       \/ /\ stage' = [stage EXCEPT ![k] = "retired"]
          /\ resv' = resv \ {k} /\ unwinding' = TRUE
          /\ UNCHANGED proc
    /\ UNCHANGED <<exit, rec>> /\ WorkerOnly

\* The SIGKILL of the test itself, of _stop_process, or of the SDK's client.
StopKid(k) ==
    /\ Working /\ stage[k] = "spawned" /\ Live(k) /\ proc[k] # "dying"
    /\ proc' = Kill({k})
    /\ UNCHANGED <<exit, files, workers>> /\ WorkerOnly

\* _retire_record_or_reservation; a group that is alive under its record is an error.
RetireKid(k) ==
    /\ Working /\ stage[k] = "spawned"
    /\ ~Live(k) \/ rec[k] = "final"
    /\ IF CanRetire(k)
       THEN RetireRecord(k) /\ UNCHANGED unwinding
       ELSE UNCHANGED files /\ unwinding' = TRUE
    /\ stage' = [stage EXCEPT ![k] = "retired"]
    /\ UNCHANGED processes /\ WorkerOnly

\* _stop_process gives up on a group that survives SIGKILL.
AbandonKid(k) ==
    /\ Working /\ stage[k] = "spawned" /\ proc[k] = "dying"
    /\ stage' = [stage EXCEPT ![k] = "retired"]
    /\ unwinding' = TRUE
    /\ UNCHANGED <<processes, files>> /\ WorkerOnly

\* Any error, the deadline of the worker, or a signal.
GiveUp ==
    /\ Working /\ ~unwinding
    /\ unwinding' = TRUE
    /\ UNCHANGED <<processes, files, stage>> /\ WorkerOnly

\* The worker succeeds only over an empty registry; processes of its own may be left
\* in its group.
WorkDone == ~unwinding /\ (\A k \in Kids : stage[k] = "retired") /\ Listing("inner") = {}
WorkerExits ==
    /\ Working
    /\ WorkDone \/ (unwinding /\ \A k \in Kids : stage[k] # "spawned")
    /\ exit' = IF WorkDone THEN "ok" ELSE "failed"
    /\ \E left \in BOOLEAN : proc' = [proc EXCEPT ![Worker] = IF left THEN "orphan" ELSE "gone"]
    /\ UNCHANGED <<files, workers>> /\ WorkerOnly

\* Something kills the worker: its leader, whatever it was doing.
WorkerCrashes ==
    /\ Working
    /\ exit' = "failed"
    /\ \E left \in BOOLEAN : proc' = [proc EXCEPT ![Worker] = IF left THEN "orphan" ELSE "gone"]
    /\ UNCHANGED <<files, workers>> /\ WorkerOnly

WorkerStep == \/ \E k \in Kids : Reserve(k) \/ SpawnKid(k) \/ StopKid(k) \/ RetireKid(k)
                               \/ AbandonKid(k)
              \/ GiveUp \/ WorkerExits \/ WorkerCrashes

-----------------------------------------------------------------------------
(* Start, common to both: reserve, then Popen in a session of its own *)

SupervisorOnly == UNCHANGED <<mode, workers>>
Quiet == UNCHANGED <<processes, files>>

\* A SIGINT or SIGTERM only sets a flag; it is modelled where the flag is read.
Cancelled == mode = "recovery"

Begin ==
    /\ pc = "start"
    /\ \/ Cancelled /\ failed' = TRUE /\ GotoFresh("registry") /\ UNCHANGED resv
       \/ resv' = {Worker} /\ Goto("spawn") /\ UNCHANGED <<failed, grace>>
    /\ UNCHANGED <<processes, rec, memory, scan, late, phase, held, success>>
    /\ SupervisorOnly

SpawnWorker ==
    /\ pc = "spawn"
    /\ \/ /\ Spawn(Worker) /\ held' = (mode = "nfr")
          /\ GotoFresh(IF mode = "recovery" THEN "watch" ELSE "nfr_wait")
          /\ UNCHANGED <<resv, failed>>
       \/ /\ resv' = {} /\ failed' = TRUE
          /\ GotoFresh(IF mode = "recovery" THEN "registry" ELSE "over")
          /\ UNCHANGED <<proc, held>>
    /\ UNCHANGED <<exit, rec, memory, scan, late, phase, success>>
    /\ SupervisorOnly

\* A scan is opened at one pc and continues at another.
OpenScan(d, retire, to) == /\ ScanOpen(d, retire, to) /\ Goto("scan")

Scan ==
    /\ pc = "scan"
    /\ \/ ScanEntry /\ Goto("scan")
       \/ /\ scan.todo = {} \/ late = 3
          /\ ScanClose /\ Goto(scan.to)
          /\ UNCHANGED <<processes, files, caught, clock>>
    /\ UNCHANGED <<flow, success>> /\ SupervisorOnly

-----------------------------------------------------------------------------
(* The recovery test: _supervise_recovery *)

LeaderLeft == exit # "none"
Over(deadline) == grace \/ late >= deadline

\* Both directories are scanned, then the worker is polled.
WatchOuter ==
    /\ pc = "watch"
    /\ OpenScan("outer", FALSE, "watched")
    /\ Quiet /\ UNCHANGED <<memory, clock, flow, success>> /\ SupervisorOnly

WatchInner ==
    /\ pc = "watched"
    /\ IF scan.failed
       THEN failed' = TRUE /\ Goto("reap") /\ UNCHANGED scan
       ELSE OpenScan("inner", FALSE, "poll") /\ UNCHANGED failed
    /\ Quiet /\ UNCHANGED <<memory, clock, phase, held, success>> /\ SupervisorOnly

Poll ==
    /\ pc = "poll"
    /\ \E bad \in {scan.failed \/ late >= 1, Cancelled} :
           /\ failed' = (failed \/ bad)
           /\ Goto(IF bad \/ LeaderLeft THEN "reap" ELSE "watch")
    /\ Quiet /\ UNCHANGED <<memory, scan, clock, phase, held, success>>
    /\ SupervisorOnly

\* The record the supervisor remembers, or the one that shows up in a last short wait;
\* without one only the leader is killed.
OwnRecord ==
    /\ pc = "reap"
    /\ \/ /\ known[Worker] = "final" \/ (known[Worker] = "no" /\ rec[Worker] = "final")
          /\ known' = [known EXCEPT ![Worker] = "final"]
          /\ failed' = (failed \/ (LeaderLeft /\ Live(Worker)))
          /\ GotoFresh("owned") /\ UNCHANGED <<proc, caught>>
       \/ /\ known[Worker] = "no" /\ rec[Worker] # "final"
          /\ proc' = IF LeaderLives(Worker) THEN Kill({Worker}) ELSE proc
          /\ failed' = TRUE
          /\ GotoFresh("unpublished") /\ UNCHANGED memory
       \/ /\ known[Worker] = "temp"
          /\ failed' = TRUE
          /\ GotoFresh("registry") /\ UNCHANGED <<proc, memory>>
    /\ UNCHANGED <<exit, files, scan, late, phase, held, success>>
    /\ SupervisorOnly

\* cleanup_owned_process: SIGTERM, a grace period, SIGKILL, and a wait for the group.
OwnedKill ==
    /\ pc = "owned" /\ Live(Worker) /\ proc[Worker] # "dying" /\ Over(2)
    /\ proc' = Kill({Worker})
    /\ UNCHANGED <<exit, files, memory, scan, clock, pc, flow, success>> /\ SupervisorOnly

\* The wait for the group, or for the leader, ends with it or with its deadline.
OwnedEnds ==
    /\ pc \in {"owned", "unpublished"}
    /\ \/ /\ ~Live(Worker)
          /\ IF CanRetire(Worker)
             THEN RetireRecord(Worker) /\ UNCHANGED failed
             ELSE UNCHANGED files /\ failed' = TRUE
       \/ /\ proc[Worker] = "dying" /\ late >= 2
          /\ failed' = TRUE /\ UNCHANGED files
    /\ GotoFresh("registry")
    /\ UNCHANGED <<processes, memory, scan, late, phase, held, success>>
    /\ SupervisorOnly

\* cleanup_registry; SIGTERM has no step of its own, since a group may end at any time.
Refresh ==
    /\ pc = "registry"
    /\ OpenScan("inner", TRUE, "refreshed")
    /\ Quiet /\ UNCHANGED <<memory, clock, flow, success>> /\ SupervisorOnly

NextPhase == IF phase = "settle" THEN "term" ELSE "kill"

\* live_records scans again while something is being published, and each phase until its
\* time is over or nothing is left.
RefreshAgain ==
    /\ pc = "refreshed" /\ ~scan.failed
    /\ \/ scan.publishing /\ late < 3
       \/ ~scan.publishing /\ phase = "settle" /\ ~Over(3)
       \/ ~scan.publishing /\ phase = "term" /\ ~Over(3) /\ scan.found # {}
       \/ ~scan.publishing /\ phase = "kill" /\ scan.found # {}
    /\ Goto("registry")
    /\ Quiet /\ UNCHANGED <<memory, scan, clock, flow, success>> /\ SupervisorOnly

\* An error, or the last deadline: what is remembered is killed and the error reported.
RefreshFails ==
    /\ pc = "refreshed"
    /\ scan.failed \/ (late = 3 /\ (scan.publishing \/ phase # "kill"))
    /\ KillKnown(Remembered("inner"))
    /\ failed' = TRUE /\ Goto("done")
    /\ UNCHANGED <<exit, files, memory, scan, clock, phase, held, success>>
    /\ SupervisorOnly

\* The next signal goes to what this refresh found; a record that cannot be read again
\* fails the whole cleanup, after SIGTERM with a last SIGKILL.
RefreshSignals ==
    /\ pc = "refreshed" /\ ~scan.failed /\ ~scan.publishing /\ late < 3
    /\ IF phase = "settle" THEN grace ELSE phase = "term" /\ grace /\ scan.found # {}
    /\ IF phase = "term" \/ KillFails(scan.found) THEN KillKnown(scan.found) ELSE UNCHANGED proc
    /\ phase' = NextPhase
    /\ failed' = (failed \/ KillFails(scan.found))
    /\ GotoFresh(IF KillFails(scan.found) THEN "done" ELSE "registry")
    /\ UNCHANGED <<exit, files, memory, scan, late, held, success>>
    /\ SupervisorOnly

RefreshEmpty ==
    /\ pc = "refreshed" /\ ~scan.failed /\ ~scan.publishing
    /\ phase # "settle" /\ scan.found = {}
    /\ phase = "term" => late < 3
    /\ Goto("done")
    /\ Quiet /\ UNCHANGED <<memory, scan, clock, flow, success>> /\ SupervisorOnly

\* The exit status: the worker's, unless an error or a signal is on record.
Report ==
    /\ pc = "done" /\ mode = "recovery"
    /\ \E signalled \in {FALSE, Cancelled} :
         /\ success' = (~failed /\ ~signalled /\ exit = "ok")
         /\ failed' = (failed \/ signalled)
    /\ Goto("over")
    /\ Quiet /\ UNCHANGED <<memory, scan, clock, phase, held>> /\ SupervisorOnly

Supervise == \/ WatchOuter \/ WatchInner \/ Poll \/ OwnRecord \/ OwnedKill \/ OwnedEnds
             \/ Refresh \/ RefreshAgain \/ RefreshFails \/ RefreshSignals \/ RefreshEmpty
             \/ Report

-----------------------------------------------------------------------------
(* The NFR test: the timer of smoke/runner *)

\* _nfr_helper_is_live.  The record is remembered once it was read; the directory of the
\* helper is no one else's, so it stays where it is.
HelperKnown == known[Worker] = "final" \/ rec[Worker] = "final"
HelperLive == IF HelperKnown THEN Live(Worker) ELSE LeaderLives(Worker)
KillHelper == IF HelperLive THEN Kill({Worker}) ELSE proc
ReadHelper == known' = IF rec[Worker] = "final" THEN [known EXCEPT ![Worker] = "final"] ELSE known
HelperLeft == LeaderLeft /\ ~HelperLive

\* _live_nfr_groups and _nfr_groups_clean: an error counts as something still there.
LiveGroups(to) == OpenScan("inner", FALSE, to)
GroupsClean == ~scan.failed /\ ~scan.publishing /\ scan.found = {}

RunnerOnly == UNCHANGED <<mode, workers, phase, success>>

\* phase nfr_wait
NfrWait ==
    /\ pc = "nfr_wait"
    /\ ReadHelper /\ UNCHANGED caught
    /\ IF late >= 1
       THEN failed' = TRUE /\ GotoFresh("helper_term") /\ UNCHANGED scan
       ELSE /\ LeaderLeft
            /\ LiveGroups("nfr_waited") /\ UNCHANGED <<failed, grace>>
    /\ Quiet /\ UNCHANGED <<late, held>> /\ RunnerOnly

\* The worker is gone: settle, or signal what it left.
NfrWaited ==
    /\ pc \in {"nfr_waited", "helper_termed"}
    /\ failed' = (failed \/ scan.failed)
    /\ GotoFresh(IF ~HelperLive /\ GroupsClean THEN "settle" ELSE "group_term")
    /\ Quiet /\ UNCHANGED <<memory, scan, late, held>> /\ RunnerOnly

\* phase nfr_helper_term
HelperTerm ==
    /\ pc = "helper_term"
    /\ IF HelperLeft
       THEN LiveGroups("helper_termed") /\ UNCHANGED <<proc, grace>>
       ELSE Over(3) /\ proc' = KillHelper /\ GotoFresh("group_term") /\ UNCHANGED scan
    /\ UNCHANGED <<exit, files, memory, late, held, failed>> /\ RunnerOnly

\* phases nfr_group_term and nfr_reap, and _finish, begin with a look at the groups
Looks == [group_term |-> "group_termed", reap_groups |-> "reaped", finish_reap |-> "finish_reaped"]
LookAgain ==
    /\ pc \in DOMAIN Looks
    /\ LiveGroups(Looks[pc])
    /\ Quiet /\ UNCHANGED <<memory, clock, held, failed>> /\ RunnerOnly

GroupTermed ==
    /\ pc = "group_termed"
    /\ failed' = (failed \/ scan.failed)
    /\ IF HelperLeft /\ GroupsClean THEN GotoFresh("settle") /\ UNCHANGED proc
       ELSE IF ~Over(3) THEN Goto("group_term") /\ UNCHANGED <<proc, grace>>
       ELSE proc' = KillHelper /\ GotoFresh("kill_groups")
    /\ UNCHANGED <<exit, files, memory, scan, late, held>> /\ RunnerOnly

\* _signal_nfr_groups: a scan of its own, then SIGKILL to whatever is remembered.
KillGroups ==
    /\ pc \in {"kill_groups", "finish_kill"}
    /\ LiveGroups(IF pc = "kill_groups" THEN "killing" ELSE "finish_killing")
    /\ Quiet /\ UNCHANGED <<memory, clock, held, failed>> /\ RunnerOnly

Killing ==
    /\ pc \in {"killing", "finish_killing"}
    /\ LET groups == Remembered("inner")
       IN  /\ KillKnown(groups)
           /\ failed' = (failed \/ scan.failed \/ KillFails(groups))
    /\ Goto(IF pc = "killing" THEN "reap_groups" ELSE "finish_reap")
    /\ UNCHANGED <<exit, files, memory, scan, clock, held>> /\ RunnerOnly

GroupsReaped ==
    /\ pc \in {"reaped", "finish_reaped"}
    /\ LET clean == HelperLeft /\ GroupsClean
           next  == IF pc = "reaped" THEN <<"settle", "kill_groups">>
                                     ELSE <<"ending", "finish_kill">>
       IN  /\ failed' = (failed \/ scan.failed \/ (~clean /\ Over(3)))
           /\ IF clean \/ Over(3) THEN GotoFresh(next[1]) ELSE Goto(next[2]) /\ UNCHANGED grace
    /\ Quiet /\ UNCHANGED <<memory, scan, late, held>> /\ RunnerOnly

\* _settle_nfr: the record of the worker is retired, the groups are looked at once more.
Settle ==
    /\ pc = "settle"
    /\ IF ~HelperLeft THEN LiveGroups("settled") /\ UNCHANGED <<files, memory, failed>>
       ELSE IF CanRetire(Worker)
            THEN /\ RetireRecord(Worker)
                 /\ known' = [known EXCEPT ![Worker] = "no"]
                 /\ LiveGroups("settled") /\ UNCHANGED <<failed, caught>>
            ELSE failed' = TRUE /\ Goto("finish") /\ UNCHANGED <<files, memory, scan>>
    /\ UNCHANGED <<processes, clock, held>> /\ RunnerOnly

Settled ==
    /\ pc = "settled"
    /\ LET clean == ~HelperLive /\ GroupsClean
       IN  /\ held' = ~clean
           /\ success' = (clean /\ ~failed /\ exit = "ok")
           /\ failed' = (failed \/ ~clean \/ exit # "ok")
    /\ GotoFresh("finish")
    /\ Quiet /\ UNCHANGED <<memory, scan, late, mode, workers, phase>>

\* _finish: whatever the runner still holds is terminated for good, within the deadline.
Finish ==
    /\ pc = "finish"
    /\ IF held THEN LiveGroups("finishing") ELSE Goto("over") /\ UNCHANGED scan
    /\ Quiet /\ UNCHANGED <<memory, clock, held, failed>> /\ RunnerOnly

Finishing ==
    /\ pc = "finishing"
    /\ failed' = (failed \/ HelperLive \/ scan.failed)
    /\ IF ~HelperLive /\ GroupsClean THEN GotoFresh("ending") /\ UNCHANGED proc
       ELSE IF ~Over(2) THEN Goto("finish") /\ UNCHANGED <<proc, grace>>
       ELSE proc' = KillHelper /\ GotoFresh("finish_kill")
    /\ UNCHANGED <<exit, files, memory, scan, late, held>> /\ RunnerOnly

Ending ==
    /\ pc = "ending"
    /\ IF HelperLeft /\ CanRetire(Worker) THEN RetireRecord(Worker) ELSE UNCHANGED files
    /\ Goto("over")
    /\ UNCHANGED <<processes, memory, scan, clock, held, failed>> /\ RunnerOnly

Watch == \/ NfrWait \/ NfrWaited \/ HelperTerm \/ LookAgain \/ GroupTermed \/ KillGroups
         \/ Killing \/ GroupsReaped \/ Settle \/ Settled \/ Finish \/ Finishing \/ Ending

-----------------------------------------------------------------------------

\* Deadlines pass, and graces end, before a step that reads the clock; in a scan that is
\* the last deadline only.
Waits == {"owned", "refreshed", "helper_term", "group_termed", "reaped", "finishing",
          "finish_reaped"}
Tick ==
    /\ \/ pc = "scan" /\ late < 3 /\ late' = 3
       \/ pc \in Waits \cup {"poll", "nfr_wait", "unpublished"} /\ late' \in (late + 1)..3
    /\ UNCHANGED <<processes, files, memory, scan, grace, mode, workers, pc, flow, success>>

GraceEnds ==
    /\ pc \in Waits /\ ~grace /\ grace' = TRUE
    /\ UNCHANGED <<processes, files, memory, scan, late, mode, workers, pc, flow, success>>

GroupStep == /\ \E g \in Groups : Group(g)
             /\ UNCHANGED <<memory, scan, clock, mode, workers, pc, flow, success>>

Control == Begin \/ SpawnWorker \/ Scan \/ Supervise \/ Watch
Next == Control \/ WorkerStep \/ GroupStep \/ Tick \/ GraceEnds
Spec == Init /\ [][Next]_vars
\* Time passes for whoever reads the clock again and again.
Fairness == WF_vars(Control) /\ SF_vars(Tick) /\ SF_vars(GraceEnds)
FairSpec == Spec /\ Fairness

-----------------------------------------------------------------------------
(* Properties *)

\* The supervisor or the runner has come to its end.
Ended == pc = "over"

\* A test that reports success has left nothing: every group it started is gone, and no
\* record or reservation is in the registry.
SuccessMeansGone ==
    (Ended /\ success) =>
        /\ \A g \in Groups : ~Live(g)
        /\ Listing("inner") = {}

\* The recovery test forgets no group, whatever failed: when it ends before its last
\* deadline each is gone or was sent SIGKILL, and after it each that it remembers.  A
\* record that was remembered under its temporary name is the exception: under its final
\* one it is taken for another and refused, and the last SIGKILL finds neither
\* (_remember_known_record, scan_records).  The NFR test promises less: a group that publishes itself after the
\* last SIGKILL is reported and left alone.
Finished(g) == proc[g] \in {"none", "dying", "gone"}
NoneForgotten ==
    (Ended /\ mode = "recovery" /\ ~caught) =>
        \A g \in Groups : Finished(g) \/ (late = 3 /\ known[g] = "no")

\* No group survives a test unnoticed: see the two parts.
NoGroupSurvives == SuccessMeansGone /\ NoneForgotten

=============================================================================
