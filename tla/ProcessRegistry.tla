--------------------------- MODULE ProcessRegistry ---------------------------
(***************************************************************************)
(* The process-group records of the smoke tests (smoke/process_registry):  *)
(* a started group publishes itself in a private directory, its owner      *)
(* retires the record when the group is gone, and whoever supervises them  *)
(* scans the directory, remembers what lived and signals it.               *)
(*                                                                         *)
(* A group is in the directory as a reservation (made by its owner before  *)
(* it is spawned), as a whole record under a temporary name, or under its  *)
(* final name.  Times are reduced to three deadlines that pass in order,   *)
(* and to a grace period that ends within each of the waits.  A process id *)
(* is not used again.                                                      *)
(***************************************************************************)
EXTENDS Naturals, FiniteSets

CONSTANTS
    Kids,    \* groups the worker starts: a finite set
    Worker   \* its own group, none of them

Groups == Kids \cup {Worker}
Dir(g) == IF g = Worker THEN "outer" ELSE "inner"

VARIABLES
    proc,    \* proc[g]: "none", how far its bootstrap is, "run", "orphan" (the leader
             \* is gone, members live), "dying" (SIGKILL) or "gone"
    exit,    \* what the leader of the worker's group exited with, "none" while it lives
    resv,    \* the groups whose reservation is in its directory
    rec,     \* rec[g]: the name its record has, "none", "temp" or "final"
    known,   \* known[g]: the name under which the supervisor remembers its record
    caught,  \* a record was remembered under its temporary name (auxiliary)
    scan,    \* the scan that goes on, and what the last one found
    late,    \* how many of the deadlines have passed: work, worker cleanup, cleanup
    grace    \* the current wait has taken its time

processes == <<proc, exit>>
files == <<resv, rec>>
clock == <<late, grace>>
memory == <<known, caught>>

Live(g) == proc[g] \notin {"none", "gone"}
LeaderLives(g) == proc[g] \notin {"none", "gone", "orphan"}
Names(g) == (IF g \in resv THEN {<<"resv", g>>} ELSE {})
            \cup (IF rec[g] = "none" THEN {} ELSE {<<rec[g], g>>})
Listing(d) == UNION {Names(g) : g \in {h \in Groups : Dir(h) = d}}

-----------------------------------------------------------------------------
(* A process group *)

\* A leader that ends takes "failed" along; the worker's own ends are in SmokeHarness.
Ends(g, p) == /\ proc' = [proc EXCEPT ![g] = p]
              /\ exit' = IF g = Worker /\ exit = "none" THEN "failed" ELSE exit

\* _bootstrap: the record is written under a temporary name, renamed, and only then
\* is the reservation removed and the command executed.
WriteRecord(g) ==
    /\ proc[g] = "boot"
    /\ proc' = [proc EXCEPT ![g] = "temp"]
    /\ rec' = [rec EXCEPT ![g] = "temp"]
    /\ UNCHANGED <<exit, resv>>

RenameRecord(g) ==
    /\ proc[g] = "temp"
    /\ proc' = [proc EXCEPT ![g] = "named"]
    /\ rec' = [rec EXCEPT ![g] = "final"]
    /\ UNCHANGED <<exit, resv>>

FinishReservation(g) ==
    /\ proc[g] = "named"
    /\ proc' = [proc EXCEPT ![g] = "run"]
    /\ resv' = resv \ {g}
    /\ UNCHANGED <<exit, rec>>

\* An error, a SIGTERM, or the end of its work: the temporary record stays behind
\* unless Python unwinds.
Dies(g) ==
    /\ proc[g] \in {"boot", "temp", "named", "run", "orphan"}
    /\ g = Worker => proc[g] # "run"
    /\ Ends(g, "gone")
    /\ \E kept \in BOOLEAN :
         rec' = IF proc[g] = "temp" /\ ~kept THEN [rec EXCEPT ![g] = "none"] ELSE rec
    /\ UNCHANGED resv

Reaped(g) ==
    /\ proc[g] = "dying"
    /\ Ends(g, "gone")
    /\ UNCHANGED files

Group(g) == \/ WriteRecord(g) \/ RenameRecord(g) \/ FinishReservation(g)
            \/ Dies(g) \/ Reaped(g)

Spawn(g) == proc' = [proc EXCEPT ![g] = "boot"]
Kill(S) == [g \in Groups |-> IF g \in S /\ Live(g) THEN "dying" ELSE proc[g]]

-----------------------------------------------------------------------------
(* Records *)

\* signal_live_records with SIGKILL over what is remembered: a record that is no longer
\* under the name it was read from is an error, and its group is left alone.
Readable(S) == {g \in S : known[g] = rec[g]}
KillKnown(S) == proc' = Kill(Readable(S))
KillFails(S) == S # Readable(S)
Remembered(d) == {g \in Groups : Dir(g) = d /\ known[g] # "no"}

\* retire_record without the look at the group
CarelessRetire(g) == rec[g] = "final" \/ g \in resv

\* retire_record and _retire_record_or_reservation
CanRetire(g) == IF rec[g] = "final" THEN ~Live(g) ELSE g \in resv
RetireRecord(g) ==
    IF rec[g] = "final"
    THEN rec' = [rec EXCEPT ![g] = "none"] /\ UNCHANGED resv
    ELSE resv' = resv \ {g} /\ UNCHANGED rec

-----------------------------------------------------------------------------
(* scan_records: the names are listed at once, each is looked at in turn *)

NoScan == [dir |-> "none", todo |-> {}, found |-> {}, publishing |-> FALSE,
           failed |-> FALSE, retire |-> FALSE, to |-> "none"]

ScanOpen(d, retire, to) ==
    scan' = [dir |-> d, todo |-> Listing(d), found |-> {}, publishing |-> FALSE,
             failed |-> FALSE, retire |-> retire, to |-> to]

\* _remember_known_record: another record for the same group is an identity change;
\* remembered groups that are gone are forgotten.
Conflicts(g, name) == known[g] \notin {"no", name}
Remember(g, name) ==
    IF Conflicts(g, name) THEN known
    ELSE [h \in Groups |-> IF h = g THEN name
                           ELSE IF Dir(h) = Dir(g) /\ ~Live(h) THEN "no" ELSE known[h]]

SeeReservation(g) ==
    /\ scan' = [scan EXCEPT !.todo = @ \ {<<"resv", g>>}, !.publishing = TRUE]
    /\ UNCHANGED <<rec, memory>>

SeeLive(g, name) ==
    /\ known' = Remember(g, name)
    /\ caught' = (caught \/ name = "temp")
    /\ scan' = [scan EXCEPT !.todo = @ \ {<<name, g>>},
                            !.failed = @ \/ Conflicts(g, name),
                            !.publishing = @ \/ name = "temp",
                            !.found = IF Conflicts(g, name) THEN @ ELSE @ \cup {g}]
    /\ UNCHANGED rec

\* Nothing under that name any more, a temporary record of the dead, or a record of the
\* dead that an observer leaves to its owner.
SeeNothing(g, name) ==
    /\ scan' = [scan EXCEPT !.todo = @ \ {<<name, g>>}, !.publishing = TRUE]
    /\ UNCHANGED <<rec, memory>>

SeeDead(g) ==
    /\ scan' = [scan EXCEPT !.todo = @ \ {<<"final", g>>}]
    /\ rec' = [rec EXCEPT ![g] = "none"]
    /\ UNCHANGED memory

See(name, g) ==
    IF name = "resv" THEN SeeReservation(g)
    ELSE IF rec[g] # name THEN SeeNothing(g, name)
    ELSE IF Live(g) THEN SeeLive(g, name)
    ELSE IF name = "final" /\ scan.retire THEN SeeDead(g)
    ELSE SeeNothing(g, name)

ScanEntry ==
    /\ late < 3
    /\ \E e \in scan.todo : See(e[1], e[2])
    /\ UNCHANGED <<processes, resv, clock>>

\* What was remembered and is not in the listing is kept while it lives; a listing with
\* nothing under way replaces what was remembered.
ScanClose ==
    LET cached == {g \in Remembered(scan.dir) \ scan.found : Live(g)}
        after  == scan.found \cup cached
    IN  IF late = 3
        THEN scan' = [NoScan EXCEPT !.failed = TRUE] /\ UNCHANGED known
        ELSE /\ known' = [g \in Groups |->
                            IF Dir(g) = scan.dir /\ g \notin after THEN "no" ELSE known[g]]
             /\ scan' = [NoScan EXCEPT !.publishing = scan.publishing,
                                       !.failed = scan.failed,
                                       !.found = IF scan.publishing THEN scan.found ELSE after]
==============================================================================
