--------------------------- MODULE AssetAcceptance ---------------------------
(* The acceptance of an asset (src/acceptance): `run` measures the tools and the
   source, starts one worker process per job, takes their evidence in, decides,
   and seals; `review` seals a run that waits for its reviewers; `deliver` copies
   the accepted bytes to their destination. The commands are processes of their
   own: they interleave, may be killed at any step, and share the evidence
   directory. Files may be edited, and put back, between any two of their steps.

   Jobs stands for the plan: an inspector, the worker that makes the images or
   the GLB, and the comparison. A file is TRUE while it holds the bytes that were
   measured when it was bound. An accident is any failure of INFRA_FAMILIES: their
   order of priority chooses a word of the report and nothing else. *)
EXTENDS Naturals

CONSTANTS Kinds,        \* of contracts: "native" delivers its source, "interchange" a GLB it exports
          Reviews,      \* `review` commands
          Deliveries,   \* `deliver` commands, each with a destination of its own
          MaxFaults     \* edits of files, and commands killed

VARIABLES kind, required,   \* the contract: what it is about, whether it asks for a review
          disk,             \* [file |-> does it hold the bytes that were bound?]
          run,              \* the `run` command
          took,             \* [job |-> the evidence taken from it]
          worker,           \* the process group of the current job
          ev,               \* the control files of the evidence directory
          cmd,              \* [review or delivery |-> that command]
          dest,             \* [delivery |-> bytes at its destination]
          faults

contractVars == <<kind, required>>
vars == <<kind, required, disk, run, took, worker, ev, cmd, dest, faults>>

Jobs == 1..3
Files == {"source", "contract", "tools", "payload", "control"}
\* The findings of a job's checks: none, or an error; of the inspector's also a warning the contract
\* allows (a GLB's budget has them too), and any error or warning in the five checks that the later
\* jobs build on (UNSAFE_R2).
ResultsOf(j) == IF j = 1 THEN {"pass", "note", "error", "unsafe"} ELSE {"pass", "error"}
Faults == {"files", "identity", "hash"}   \* outputs missing or unplanned; of another attempt; not what they claim
Ship == {"SHIP", "SHIP_WITH_NOTES"}
None == "none"

NoEvidence == [result |-> None, gate |-> None, rc |-> 0, group |-> None]
NoWorker == [leader |-> None, kid |-> FALSE, rc |-> 0, result |-> None, gate |-> None, fault |-> None]
NoSummary == [written |-> FALSE, success |-> FALSE, failed |-> FALSE, complete |-> FALSE, delivery |-> FALSE, notes |-> FALSE]
NoSeal == [state |-> None, by |-> None, review |-> None]

\* The file `run` names as the delivery: the source's main file, or the GLB it took in.
DeliveryFile == IF kind = "native" THEN "source" ELSE "payload"

\* What a job copies into its scratch directory before it starts.
InputsOf(j) == CASE j = 1 -> {"source"}
                 [] j = 2 -> {"source", "payload"}
                 [] j = 3 -> IF kind = "native" THEN {"source", "payload"} ELSE {"payload"}
Intact(files) == \A f \in files : disk[f]

Init ==
    /\ kind \in Kinds
    /\ required \in BOOLEAN
    /\ disk = [f \in Files |-> TRUE]
    /\ run = [pc |-> "bundle", job |-> 1, accident |-> FALSE, r0 |-> "pass", blocked |-> {}, gates |-> None,
              r5 |-> "pass", said |-> None]
    /\ took = [j \in Jobs |-> NoEvidence]
    /\ worker = NoWorker
    /\ ev = [summary |-> NoSummary, review |-> NoSeal, completion |-> NoSeal, receipt |-> None]
    /\ cmd = [c \in Reviews \cup Deliveries |-> [pc |-> "idle", review |-> None, state |-> None, said |-> None]]
    /\ dest = [d \in Deliveries |-> None]
    /\ faults = 0

-----------------------------------------------------------------------------
(* Deciding: aggregate, decide, decide_technical and technical_state. *)

\* A check without findings of its own was not tested; R5 is the controller's.
Tested == \A j \in Jobs : took[j].result # None
ChecksFail == run.r0 = "error" \/ run.r5 = "error" \/ \E j \in Jobs : took[j].result \in {"error", "unsafe"}
Closed == run.blocked = {}                       \* r5.evidence.manifest_closed stays untested otherwise
ChecksAlone == Tested /\ Closed              \* without the gates
Complete == Tested /\ Closed /\ run.gates \in {"pass", "fail"}
FailsFirst == ChecksFail \/ run.gates = "fail" \* whatever accidents there were
CheckFailed == ~run.accident /\ (ChecksFail \/ run.gates = "fail")
Success == ~run.accident /\ ~CheckFailed /\ Complete

Summary == [written |-> TRUE, success |-> Success, failed |-> CheckFailed, complete |-> Complete,
            delivery |-> kind = "native" \/ took[2].result # None,
            notes |-> \E j \in Jobs : took[j].result = "note"]

\* _seal: the state it writes for this summary and this review.
SealState(s, review) ==
    IF ~(s.success /\ s.complete /\ s.delivery)
      THEN IF s.complete /\ s.delivery /\ s.failed THEN "REJECTED" ELSE "UNVERIFIED"
      ELSE IF review = "reject" THEN "REJECTED"
      ELSE IF s.notes THEN "SHIP_WITH_NOTES" ELSE "SHIP"

-----------------------------------------------------------------------------
(* `run`, up to its jobs. *)

\* main: an exception ends the command, which reports UNVERIFIED; the failure summary is
\* written if there is none yet.
RunFails == /\ run' = [run EXCEPT !.pc = "done", !.said = "UNVERIFIED"]
            /\ ev' = IF ev.summary.written THEN ev ELSE [ev EXCEPT !.summary = [NoSummary EXCEPT !.written = TRUE]]

VerifyBundle ==
    /\ run.pc = "bundle"
    /\ \/ disk["source"] /\ run' = [run EXCEPT !.pc = "tools"] /\ UNCHANGED ev
       \/ ~disk["source"] /\ RunFails
    /\ UNCHANGED <<contractVars, disk, took, worker, cmd, dest, faults>>

VerifyTools ==
    /\ run.pc = "tools"
    /\ run' = IF disk["tools"] THEN [run EXCEPT !.pc = "stages"]
              ELSE [run EXCEPT !.pc = "job", !.accident = TRUE]
    /\ UNCHANGED <<contractVars, disk, took, worker, ev, cmd, dest, faults>>

\* run_r0 measures Blender's exporter again for an interchange contract: what it finds is a finding.
RunStages ==
    /\ run.pc = "stages"
    /\ run' = [run EXCEPT !.pc = "job", !.accident = ~disk["source"],
                          !.r0 = IF kind = "interchange" /\ ~disk["tools"] THEN "error" ELSE "pass"]
    /\ UNCHANGED <<contractVars, disk, took, worker, ev, cmd, dest, faults>>

-----------------------------------------------------------------------------
(* One job: blocked, refused, or run by a worker process. *)

NextJob(r) == IF r.job = 3 THEN [r EXCEPT !.pc = "results"] ELSE [r EXCEPT !.pc = "job", !.job = @ + 1]
Accident(r) == NextJob([r EXCEPT !.accident = TRUE])

\* A job after the inspector needs its five checks free of findings. What the inspector's other
\* three report (reserved properties, slots, dependencies) blocks nothing.
Blocked(j) == j > 1 /\ took[1].result \in {None, "unsafe"}
Startable(j) == ~run.accident /\ (j = 1 \/ \A i \in 1..(j - 1) : took[i].result # None)

BlockJob ==
    /\ run.pc = "job" /\ Blocked(run.job) /\ ~run.accident
    /\ run' = NextJob([run EXCEPT !.blocked = @ \cup {run.job}])
    /\ UNCHANGED <<contractVars, disk, took, worker, ev, cmd, dest, faults>>

RefuseJob ==
    /\ run.pc = "job"
    /\ ~(Blocked(run.job) /\ ~run.accident)
    /\ ~(Startable(run.job) /\ Intact(InputsOf(run.job)))
    /\ run' = Accident(run)
    /\ UNCHANGED <<contractVars, disk, took, worker, ev, cmd, dest, faults>>

StartJob ==
    /\ run.pc = "job" /\ ~Blocked(run.job)
    /\ Startable(run.job) /\ Intact(InputsOf(run.job))
    /\ run' = [run EXCEPT !.pc = "wait"]
    /\ worker' = [NoWorker EXCEPT !.leader = "runs"]
    /\ UNCHANGED <<contractVars, disk, took, ev, cmd, dest, faults>>

\* The gates are made of what the inspector and the comparison report.
GatesOf(j) == CASE j = 1 -> {"pass", "gap"} [] j = 3 -> {"pass", "fail", "malformed"} [] OTHER -> {"pass"}

\* The worker ends by itself: as it should, with an exit code, with outputs that are
\* not what they should be, or leaving a child behind in its group.
WorkerEnds ==
    /\ worker.leader = "runs"
    /\ \/ \E r \in ResultsOf(run.job), g \in GatesOf(run.job) :
             worker' = [worker EXCEPT !.leader = "left", !.result = r, !.gate = g]
       \/ worker' = [worker EXCEPT !.leader = "left", !.rc = 1]
       \/ worker' = [worker EXCEPT !.leader = "left", !.kid = TRUE, !.result = "pass", !.gate = "pass"]
       \/ \E f \in Faults : worker' = [worker EXCEPT !.leader = "left", !.fault = f, !.result = "pass", !.gate = "pass"]
    /\ UNCHANGED <<contractVars, disk, run, took, ev, cmd, dest, faults>>

Alive(w) == w.leader = "runs" \/ w.kid

\* run_command's loop: the wall timeout, or the memory or log budget, ends a worker that runs.
CutOff ==
    /\ run.pc = "wait" /\ worker.leader = "runs"
    /\ run' = [run EXCEPT !.pc = "stop", !.accident = TRUE]
    /\ UNCHANGED <<contractVars, disk, took, worker, ev, cmd, dest, faults>>

\* The leader was reaped: a group that still exists is a leak.
Leaks == worker.kid
Reap ==
    /\ run.pc = "wait" /\ worker.leader = "left"
    /\ run' = [run EXCEPT !.pc = "stop", !.accident = Leaks]
    /\ UNCHANGED <<contractVars, disk, took, worker, ev, cmd, dest, faults>>

\* stop_group: nothing of the group is left, or the cleanup failed.
StopGroup ==
    /\ run.pc = "stop"
    /\ \/ /\ run.accident \/ worker.rc # 0
          /\ worker' = NoWorker /\ run' = Accident(run)
       \/ /\ ~run.accident /\ worker.rc = 0
          /\ worker' = [worker EXCEPT !.kid = FALSE] /\ run' = [run EXCEPT !.pc = "adopt"]
       \/ /\ Alive(worker)
          /\ worker' = [NoWorker EXCEPT !.leader = "stuck"] /\ run' = Accident(run)
    /\ UNCHANGED <<contractVars, disk, took, ev, cmd, dest, faults>>

\* The outputs are the planned ones, of this attempt, and as long and as hashed as they claim.
Acceptable == worker.fault = None
AdoptJob ==
    /\ run.pc = "adopt"
    /\ \/ /\ Acceptable
          /\ took' = [took EXCEPT ![run.job] =
                [result |-> worker.result, gate |-> worker.gate, rc |-> worker.rc,
                 group |-> IF Alive(worker) THEN "alive" ELSE "gone"]]
          /\ run' = NextJob(run)
       \/ ~Acceptable /\ run' = Accident(run) /\ UNCHANGED took
    /\ worker' = NoWorker
    /\ UNCHANGED <<contractVars, disk, ev, cmd, dest, faults>>

-----------------------------------------------------------------------------
(* `run`, after its jobs: native_results and interchange_results, finalize_run, _seal. *)

\* A report that does not read as one leaves every gate incomplete and is an accident.
Gates == CASE took[1].gate = "gap" \/ took[3].gate = None -> "incomplete"
           [] took[3].gate = "malformed" -> "incomplete"
           [] OTHER -> took[3].gate
ReadResults ==
    /\ run.pc = "results"
    /\ run' = [run EXCEPT !.pc = "drift", !.gates = Gates, !.accident = @ \/ took[3].gate = "malformed"]
    /\ UNCHANGED <<contractVars, disk, took, worker, ev, cmd, dest, faults>>

\* The contract, the source, the tools and the delivery are measured once more.
Drifted == ~Intact({"contract", "source", "tools", DeliveryFile}) \/ ~Summary.delivery
MeasureAgain ==
    /\ run.pc = "drift"
    /\ run' = [run EXCEPT !.pc = "payload", !.accident = @ \/ Drifted, !.r5 = IF Drifted THEN "error" ELSE @]
    /\ UNCHANGED <<contractVars, disk, took, worker, ev, cmd, dest, faults>>

\* The payload is what was taken in, and its files are the planned ones without the blocked jobs'.
PayloadClosed == \A j \in Jobs \ run.blocked : took[j].result # None
MeasurePayload ==
    /\ run.pc = "payload"
    /\ LET bad == ~disk["payload"] \/ ~PayloadClosed
       IN run' = [run EXCEPT !.pc = "summary", !.accident = @ \/ bad, !.r5 = IF bad THEN "error" ELSE @]
    /\ UNCHANGED <<contractVars, disk, took, worker, ev, cmd, dest, faults>>

WriteSummary ==
    /\ run.pc = "summary"
    /\ ev' = [ev EXCEPT !.summary = Summary]
    /\ run' = IF Summary.success /\ required THEN [run EXCEPT !.pc = "done", !.said = "NEEDS_REVIEW"]
              ELSE [run EXCEPT !.pc = "seal"]
    /\ UNCHANGED <<contractVars, disk, took, worker, cmd, dest, faults>>

\* A run that ships measures the delivery before it says so.
Measured(state) == state \in Ship => disk[DeliveryFile]
SealRun ==
    /\ run.pc = "seal"
    /\ \/ Measured(SealState(ev.summary, None)) /\ run' = [run EXCEPT !.pc = "review"] /\ UNCHANGED ev
       \/ ~Measured(SealState(ev.summary, None)) /\ RunFails
    /\ UNCHANGED <<contractVars, disk, took, worker, cmd, dest, faults>>

\* _write links a finished file to its name: the name is taken once.
Replace(file, value) == ev' = [ev EXCEPT ![file] = value]   \* over what is there
Link(file, value) == ev[file].state = None /\ ev' = [ev EXCEPT ![file] = value]
Taken(file) == ev[file].state # None
Sealed(state, who, review) == [state |-> state, by |-> who, review |-> review]

RunWritesReview ==
    /\ run.pc = "review"
    /\ \/ Link("review", Sealed(SealState(ev.summary, None), "run", None)) /\ run' = [run EXCEPT !.pc = "completion"]
       \/ Taken("review") /\ RunFails
    /\ UNCHANGED <<contractVars, disk, took, worker, cmd, dest, faults>>

\* Whoever took review.json finds this name free; were it not, nothing could go on here.
RunWritesCompletion ==
    /\ run.pc = "completion"
    /\ Link("completion", Sealed(SealState(ev.summary, None), "run", None))
    /\ run' = [run EXCEPT !.pc = "done", !.said = SealState(ev.summary, None)]
    /\ UNCHANGED <<contractVars, disk, took, worker, cmd, dest, faults>>

RunStep == \/ VerifyBundle \/ VerifyTools \/ RunStages
           \/ BlockJob \/ RefuseJob \/ StartJob \/ CutOff \/ Reap \/ StopGroup \/ AdoptJob
           \/ ReadResults \/ MeasureAgain \/ MeasurePayload \/ WriteSummary
           \/ SealRun \/ RunWritesReview \/ RunWritesCompletion

-----------------------------------------------------------------------------
(* `review`: finish_review verifies layer by layer what the run left, then seals. *)

Goes(c, pc) == cmd' = [cmd EXCEPT ![c].pc = pc]
Ends(c, said) == cmd' = [cmd EXCEPT ![c] = [pc |-> "done", review |-> None, state |-> None, said |-> said]]
Fails(c) == Ends(c, "UNVERIFIED")   \* main again: state UNVERIFIED, with a failure code
onlyCommands == <<contractVars, disk, run, took, worker, faults>>

\* A review is a document of its reviewers: bound to this evidence and complete, or not.
\* The command refuses a completed run and one that failed, and changes nothing of them.
OpenReview(c) ==
    /\ cmd[c].pc = "idle"
    /\ ~Taken("completion") /\ ev.summary.success
    /\ \E doc \in {"approve", "reject", "invalid"} : cmd' = [cmd EXCEPT ![c].pc = "verify", ![c].review = doc]
    /\ UNCHANGED <<onlyCommands, ev, dest>>

\* The manifest, the payload and the contract it kept.
VerifyReview(c) ==
    /\ cmd[c].pc = "verify"
    /\ IF Intact({"control", "payload"}) THEN Goes(c, "seal") ELSE Fails(c)
    /\ UNCHANGED <<onlyCommands, ev, dest>>

\* The review itself, and the delivery: a review that does not bind ends the command.
SealReview(c) ==
    /\ cmd[c].pc = "seal"
    /\ LET state == SealState(ev.summary, cmd[c].review)
       IN IF cmd[c].review # "invalid" /\ Measured(state)
            THEN cmd' = [cmd EXCEPT ![c].pc = "review", ![c].state = state] ELSE Fails(c)
    /\ UNCHANGED <<onlyCommands, ev, dest>>

WriteReview(c) ==
    /\ cmd[c].pc = "review"
    /\ \/ Link("review", Sealed(cmd[c].state, c, cmd[c].review)) /\ Goes(c, "completion")
       \/ Taken("review") /\ Fails(c) /\ UNCHANGED ev
    /\ UNCHANGED <<onlyCommands, dest>>

WriteCompletion(c) ==
    /\ cmd[c].pc = "completion"
    /\ Link("completion", Sealed(cmd[c].state, c, cmd[c].review))
    /\ Ends(c, cmd[c].state)
    /\ UNCHANGED <<onlyCommands, dest>>

-----------------------------------------------------------------------------
(* `deliver`: only what completion.json approves, and only the bytes that were accepted. *)

OpenDelivery(d) ==
    /\ cmd[d].pc = "idle"
    /\ ev.completion.state \in Ship /\ ev.review.state = ev.completion.state
    /\ IF Intact({"control", "payload"}) THEN Goes(d, "copy") ELSE Fails(d)
    /\ UNCHANGED <<onlyCommands, ev, dest>>

\* The copy is measured while it is made, and linked to the destination only when it is D.
CopyDelivery(d) ==
    /\ cmd[d].pc = "copy"
    /\ \/ disk[DeliveryFile] /\ dest' = [dest EXCEPT ![d] = "D"] /\ Goes(d, "receipt")
       \/ ~disk[DeliveryFile] /\ Fails(d) /\ UNCHANGED dest
    /\ UNCHANGED <<onlyCommands, ev>>

WriteReceipt(d) ==
    /\ cmd[d].pc = "receipt"
    /\ \/ /\ ev.receipt = None /\ ev' = [ev EXCEPT !.receipt = d]
          /\ Ends(d, "delivered")
       \/ ev.receipt # None /\ Fails(d) /\ UNCHANGED ev
    /\ UNCHANGED <<onlyCommands, dest>>

CommandStep == \/ \E c \in Reviews : OpenReview(c) \/ VerifyReview(c) \/ SealReview(c) \/ WriteReview(c) \/ WriteCompletion(c)
               \/ \E d \in Deliveries : OpenDelivery(d) \/ CopyDelivery(d) \/ WriteReceipt(d)

-----------------------------------------------------------------------------
(* The rest of the machine. *)

\* A file that some command may still read is edited, or gets its bytes back.
EditFile ==
    /\ faults < MaxFaults
    /\ \E f \in Files :
         /\ f \in {"contract", "tools"} \/ (f = "source" /\ kind = "interchange") => run.pc # "done"
         /\ f = "payload" => took[1].result # None
         /\ f = "control" => ev.summary.written
         /\ disk' = [disk EXCEPT ![f] = ~@]
    /\ faults' = faults + 1
    /\ UNCHANGED <<contractVars, run, took, worker, ev, cmd, dest>>

\* A command is killed: its worker, in a session of its own, is not.
Kill ==
    /\ faults < MaxFaults
    /\ faults' = faults + 1
    /\ \/ run.pc # "done" /\ run' = [run EXCEPT !.pc = "done", !.said = "killed"] /\ UNCHANGED cmd
       \/ \E c \in DOMAIN cmd : /\ cmd[c].pc \notin {"idle", "done"}
                                /\ Ends(c, "killed")
                                /\ UNCHANGED run
    /\ UNCHANGED <<contractVars, disk, took, worker, ev, dest>>

\* Nothing is left to do: a finished run, and commands that ended or have nothing to open.
Over ==
    /\ run.pc = "done" /\ worker.leader # "runs"
    /\ \A c \in DOMAIN cmd : cmd[c].pc \in {"idle", "done"}
    /\ UNCHANGED vars

Next == RunStep \/ WorkerEnds \/ CommandStep \/ EditFile \/ Kill \/ Over

\* `run` goes on as long as it is not killed: its loop polls, and its clock reaches the worker's
\* deadline. Nothing is assumed of a worker.
Fairness == WF_vars(RunStep)
Spec == Init /\ [][Next]_vars /\ Fairness

-----------------------------------------------------------------------------
(* Nothing ships, and nothing reaches a destination, but what was checked whole:
   every job left by itself with exit code 0 and an empty process group and found
   nothing the contract does not allow, though a finding of the inspector's may
   have let every later job run; the gates are complete; and where the contract
   asks for reviewers, or a review was given, the one that was sealed approves.
   Whatever was killed or edited meanwhile. *)
Whole(j) == took[j].result \in {"pass", "note"} /\ took[j].rc = 0 /\ took[j].group = "gone"
ShipMeansChecked ==
    ev.completion.state \in Ship \/ (\E d \in Deliveries : dest[d] # None) =>
        /\ ev.completion.state \in Ship
        /\ \A j \in Jobs : Whole(j)
        /\ took[1].gate = "pass" /\ took[3].gate = "pass" /\ run.r0 = "pass"
        /\ ev.review.review \in (IF required THEN {"approve"} ELSE {"approve", None})

(* REJECTED is a verdict on a run that was completed: every job ran to its end and
   was taken in, none was blocked, no failure of the machinery was recorded, and a
   check, a gate or a reviewer objects. A crashed worker, a job that was blocked, a
   file that is still edited when it is measured again: these are UNVERIFIED. One
   thing that befalls the run does reject: the tools of an interchange contract
   that run_r0 found changed, and that had their bytes back later. *)
RejectedForCause ==
    ev.completion.state = "REJECTED" =>
        /\ ~run.accident /\ run.blocked = {}
        /\ \A j \in Jobs : took[j].result \notin {None, "unsafe"} /\ took[j].rc = 0 /\ took[j].group = "gone"
        /\ took[1].gate # "gap"
        /\ \/ run.r0 = "error" /\ kind = "interchange"
           \/ took[3].gate = "fail" \/ \E j \in Jobs : took[j].result = "error"
           \/ ev.review.review = "reject"

(* The commands agree: a command that reports SHIP, SHIP_WITH_NOTES or REJECTED is the
   one that sealed, and completion.json and review.json say the same, though several
   reviews and the run itself may be sealing at once; who sealed reports nothing else.
   Every other command that ends reports UNVERIFIED: of the asset that says nothing,
   only that this command could not verify it. And the delivery that reported success
   is the one the receipt names. *)
Spoke(who, said) ==
    /\ said \in Ship \cup {"REJECTED"} =>
         ev.completion.state = said /\ ev.completion.by = who /\ ev.review = ev.completion
    /\ ev.completion.by = who => said = ev.completion.state
OneVerdict ==
    /\ Spoke("run", run.said)
    /\ \A c \in Reviews : Spoke(c, cmd[c].said)
    /\ \A d \in Deliveries : cmd[d].said = "delivered" => ev.receipt = d /\ dest[d] = "D"
    /\ Taken("completion") => ev.review = ev.completion

(* What a run that is not killed comes to: it ends and reports, though a worker may hang or leave a
   child behind; and then no worker of its runs any more, except one whose
   cleanup the operating system refused, which the run reports as an accident. *)
Settled == run.pc = "done" /\ (run.said # "killed" => ~Alive(worker) /\ (worker.leader = "stuck" => run.accident))
=============================================================================
