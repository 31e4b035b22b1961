------------------------------ MODULE MCCommands ------------------------------
(* The commands that supervise other processes on one machine, side by side: one
   behaviour is a registration, a smoke test or an acceptance run. They share neither
   files nor processes, so each is checked with the others standing still. *)
EXTENDS RegistrationPublish

CONSTANTS Kids, Worker, Modes,                     \* of SmokeHarness
          Kinds, Reviews, Deliveries, MaxFaults    \* of AssetAcceptance
\* A command has one name, and none is called what the run is called; the worker's own
\* group is none of the groups that it starts.
ASSUME CommandsAssumption ==
    /\ Reviews \cap Deliveries = {} /\ {"run", "none"} \cap (Reviews \cup Deliveries) = {}
    /\ Worker \notin Kids

VARIABLES which,
          proc, exit, resv, rec, known, caught, scan, late, grace,
          mode, smokeStage, unwinding, smokePc, phase, held, failed, success,
          kind, required, disk, run, took, worker, ev, cmd, dest, faults

S == INSTANCE SmokeHarness WITH stage <- smokeStage, pc <- smokePc
A == INSTANCE AssetAcceptance

smokeVars == <<proc, exit, resv, rec, known, caught, scan, late, grace, mode, smokeStage,
               unwinding, smokePc, phase, held, failed, success>>
acceptanceVars == <<kind, required, disk, run, took, worker, ev, cmd, dest, faults>>

MCInit ==
    /\ which \in {"registration", "smoke", "acceptance"}
    /\ Init /\ S!Init /\ A!Init
    /\ which # "registration" => ~cross /\ config = Absent /\ cache = "absent"
    /\ which # "smoke" => mode = "recovery"
    /\ which # "acceptance" => kind = "native" /\ ~required

Registration(step) == which = "registration" /\ step /\ UNCHANGED <<which, smokeVars, acceptanceVars>>
Smoke(step) == which = "smoke" /\ step /\ UNCHANGED <<which, vars, acceptanceVars>>
Acceptance(step) == which = "acceptance" /\ step /\ UNCHANGED <<which, vars, smokeVars>>
MCNext == Registration(Next) \/ Smoke(S!Next) \/ Acceptance(A!Next)

MCVars == <<which, vars, smokeVars, acceptanceVars>>
MCSpec ==
    /\ MCInit /\ [][MCNext]_MCVars
    /\ WF_MCVars(Registration(Step))
    /\ WF_MCVars(Acceptance(A!RunStep))
    /\ WF_MCVars(Smoke(S!Control))
    /\ SF_MCVars(Smoke(S!Tick))
    /\ SF_MCVars(Smoke(S!GraceEnds))

-------------------------------------------------------------------------------
\* Nothing ships but what was checked whole (AssetAcceptance, where it is explained).
ShipMeansChecked == A!ShipMeansChecked
\* An asset is rejected for a finding, by a run that went to its end.
RejectedForCause == A!RejectedForCause
\* A verdict is reported by who sealed it only, and as it was sealed.
OneVerdict == A!OneVerdict
\* No process group survives a smoke test unnoticed (SmokeHarness).
NoGroupSurvives == S!NoGroupSurvives

\* Every command comes to its end, whatever its workers do, whoever is killed and
\* however often: a rerun registers the release but for the listed reasons, a smoke
\* test is over, an acceptance run has reported and left no worker behind.
CommandsEnd ==
    <>CASE which = "registration" -> Registered
        [] which = "smoke" -> S!Ended
        [] which = "acceptance" -> A!Settled
===============================================================================
