------------------------------- MODULE AuditLog -------------------------------
(***************************************************************************)
(* server/core/audit.py, AuditLog.record: several threads of several host  *)
(* processes append one JSON line each to the file of the day.  A thread   *)
(* lock keeps the threads of a process apart and an advisory flock the     *)
(* processes; the file is created exclusively and made private before      *)
(* anyone else may use it; a row that was written in part is cut off       *)
(* again, and a file whose last row is incomplete takes no more rows.      *)
(* Every wait has a limit, every step may fail, and a process may die      *)
(* between any two steps.                                                  *)
(*                                                                         *)
(* A file is the sequence of its rows; a row that is not whole is a proper *)
(* prefix of the line of its record.  What the fields of a row contain is  *)
(* left out.                                                               *)
(***************************************************************************)
EXTENDS Naturals, Sequences, SequencesExt

CONSTANTS Processes,
          Records,   \* calls of record()
          Owner,     \* Owner[r]: the process r runs in
          MaxDays,   \* the dates in the file names
          MaxFaults, \* failing system calls
          None

ASSUME AuditAssumption ==
  /\ Owner \in [Records -> Processes]
  /\ MaxDays \in Nat \ {0} /\ MaxFaults \in Nat
  /\ None \notin Records

VARIABLES
  today,
  file,    \* file[d]: mode and rows of day d's file, mode "absent" if there is none
  pc,      \* pc[r]: how far record r is
  day,     \* day[r]: the date r was given
  start,   \* start[r]: the rows there were when r had the lock
  mutex,   \* mutex[p]: the record that holds _write_lock of process p
  flock,   \* flock[d]: the record whose descriptor has the lock on day d's file
  expired, \* records whose deadline has passed
  result,  \* as in AuditTrail
  faults

vars == <<today, file, pc, day, start, mutex, flock, expired, result, faults>>

Days == 1..MaxDays

Init ==
  /\ today = 1
  /\ file = [d \in Days |-> [mode |-> "absent", rows |-> <<>>]]
  /\ pc = [r \in Records |-> "new"]
  /\ day = [r \in Records |-> 1]
  /\ start = [r \in Records |-> 0]
  /\ mutex = [p \in Processes |-> None]
  /\ flock = [d \in Days |-> None]
  /\ expired = {}
  /\ result = [r \in Records |-> "none"]
  /\ faults = 0

Rows(r) == file[day[r]].rows
Go(r, to) == pc' = [pc EXCEPT ![r] = to]
Damaged(rows) == rows # <<>> /\ ~Last(rows).whole
Row(r, whole) == [by |-> r, whole |-> whole]

\* The finally clauses: the descriptor is closed, then the thread lock released.
Release(r) ==
  /\ mutex' = [mutex EXCEPT ![Owner[r]] = IF @ = r THEN None ELSE @]
  /\ flock' = [flock EXCEPT ![day[r]] = IF @ = r THEN None ELSE @]

End(r, outcome) ==
  /\ Go(r, "ended")
  /\ result' = [result EXCEPT ![r] = outcome]
  /\ Release(r)

-----------------------------------------------------------------------------
(* Around the log. *)

Midnight == /\ today < MaxDays
            /\ today' = today + 1
            /\ UNCHANGED <<file, pc, day, start, mutex, flock, expired, result, faults>>

Expire(r) == /\ pc[r] # "ended" /\ r \notin expired
             /\ expired' = expired \cup {r}
             /\ UNCHANGED <<today, file, pc, day, start, mutex, flock, result, faults>>

\* A host process is killed: the kernel gives up its locks, its rows stay as they are.
Die(p) ==
  LET gone == {r \in Records : Owner[r] = p /\ pc[r] \notin {"new", "ended"}}
  IN /\ gone # {}
     /\ pc' = [r \in Records |-> IF r \in gone THEN "ended" ELSE pc[r]]
     /\ result' = [r \in Records |-> IF r \in gone THEN "lost" ELSE result[r]]
     /\ mutex' = [mutex EXCEPT ![p] = None]
     /\ flock' = [d \in Days |-> IF flock[d] \in gone THEN None ELSE flock[d]]
     /\ UNCHANGED <<today, file, day, start, expired, faults>>

-----------------------------------------------------------------------------
(* record(). *)

\* The row and the name of its file are made before any lock is taken.
Begin(r) ==
  /\ pc[r] = "new"
  /\ day' = [day EXCEPT ![r] = today]
  /\ Go(r, "mutex")
  /\ UNCHANGED <<today, file, start, mutex, flock, expired, result, faults>>

TakeMutex(r) ==
  /\ pc[r] = "mutex" /\ mutex[Owner[r]] = None
  /\ mutex' = [mutex EXCEPT ![Owner[r]] = r]
  /\ Go(r, "open")
  /\ UNCHANGED <<today, file, day, start, flock, expired, result, faults>>

\* open with O_CREAT | O_EXCL: who creates the file makes it private, whatever the
\* umask took from its mode; who finds it waits for that.
Open(r) ==
  /\ pc[r] = "open"
  /\ IF file[day[r]].mode = "absent"
     THEN /\ \E mode \in {"made", "private"} : file' = [file EXCEPT ![day[r]].mode = mode]
          /\ Go(r, "chmod")
     ELSE /\ UNCHANGED file
          /\ Go(r, "wait")
  /\ UNCHANGED <<today, day, start, mutex, flock, expired, result, faults>>

Chmod(r) ==
  /\ pc[r] = "chmod"
  /\ file' = [file EXCEPT ![day[r]].mode = "private"]
  /\ Go(r, "flock")
  /\ UNCHANGED <<today, day, start, mutex, flock, expired, result, faults>>

\* _wait_private_file
WaitPrivate(r) ==
  /\ pc[r] = "wait" /\ file[day[r]].mode = "private"
  /\ Go(r, "flock")
  /\ UNCHANGED <<today, file, day, start, mutex, flock, expired, result, faults>>

\* _acquire_file_lock
Free(r) == flock[day[r]] = None

TakeFlock(r) ==
  /\ pc[r] = "flock" /\ Free(r)
  /\ flock' = [flock EXCEPT ![day[r]] = r]
  /\ Go(r, "tail")
  /\ UNCHANGED <<today, file, day, start, mutex, expired, result, faults>>

\* Mutant: the last byte of the file is not looked at.
AnyTail(r) == TRUE
\* The file is empty or ends with a newline.
GoodTail(r) == ~Damaged(Rows(r))

CheckTail(r) ==
  /\ pc[r] = "tail" /\ GoodTail(r)
  /\ start' = [start EXCEPT ![r] = Len(Rows(r))]
  /\ Go(r, "write")
  /\ UNCHANGED <<today, file, day, mutex, flock, expired, result, faults>>

\* A write(2) of the stream, in O_APPEND mode: a part of the line or the rest of it.
\* After a row of someone else the rest would begin a row of its own.
Write(r) ==
  /\ pc[r] \in {"write", "writing"}
  /\ \E whole \in BOOLEAN :
       LET rows == Rows(r)
           mine == pc[r] = "writing" /\ rows # <<>> /\ Last(rows) = Row(r, FALSE)
       IN /\ pc[r] = "writing" => whole
          /\ file' = [file EXCEPT ![day[r]].rows =
                        IF mine THEN Append(Front(rows), Row(r, TRUE))
                        ELSE Append(rows, Row(r, whole /\ pc[r] = "write"))]
          /\ Go(r, IF whole THEN "wrote" ELSE "writing")
  /\ UNCHANGED <<today, day, start, mutex, flock, expired, result, faults>>

\* The deadline check, a write, or closing the stream fails, the latter perhaps when
\* the line is complete.
WriteFails(r) ==
  /\ pc[r] \in {"write", "writing", "wrote"}
  /\ \/ faults < MaxFaults /\ faults' = faults + 1
     \/ pc[r] = "write" /\ r \in expired /\ UNCHANGED faults
  /\ Go(r, "recover")
  /\ UNCHANGED <<today, file, day, start, mutex, flock, expired, result>>

\* Mutant: the file is cut back to where it was, complete line or not.
CutBack(r) == SubSeq(Rows(r), 1, start[r])
\* Only what is a proper prefix of the line is cut off.
Repaired(r) ==
  IF Len(Rows(r)) = start[r] + 1 /\ Last(Rows(r)) = Row(r, FALSE)
  THEN SubSeq(Rows(r), 1, start[r]) ELSE Rows(r)

\* The except clause of the write.
Recover(r) ==
  /\ pc[r] = "recover"
  /\ file' = [file EXCEPT ![day[r]].rows = Repaired(r)]
  /\ End(r, "refused")
  /\ UNCHANGED <<today, day, start, expired, faults>>

\* The last deadline check: a row that came too late is refused and stays.
Finish(r) ==
  /\ pc[r] = "wrote"
  /\ End(r, IF r \in expired THEN "refused" ELSE "ok")
  /\ UNCHANGED <<today, file, day, start, expired, faults>>

\* Mutant: a file that is not private yet is waited for without end.
TimesOutLocked(r) == \/ pc[r] = "mutex" /\ mutex[Owner[r]] # None
                     \/ pc[r] = "flock" /\ ~Free(r)
\* The waits that have run out: for the thread lock, the file's mode, the file lock.
TimesOut(r) == \/ pc[r] = "mutex" /\ mutex[Owner[r]] # None
               \/ pc[r] = "wait" /\ file[day[r]].mode # "private"
               \/ pc[r] = "flock" /\ ~Free(r)

\* record() raises before it has written anything: a wait that runs out, an incomplete
\* tail, a deadline check, or a call that fails.
GiveUp(r) ==
  /\ pc[r] \in {"new", "mutex", "open", "chmod", "wait", "flock", "tail"}
  /\ \/ TimesOut(r) /\ UNCHANGED faults
     \/ pc[r] = "tail" /\ ~GoodTail(r) /\ UNCHANGED faults
     \/ r \in expired /\ pc[r] # "chmod" /\ UNCHANGED faults
     \/ pc[r] # "new" /\ faults < MaxFaults /\ faults' = faults + 1
  /\ End(r, "refused")
  /\ UNCHANGED <<today, file, day, start, expired>>

\* The recovery itself fails and leaves the part of the row behind.
RecoverFails(r) ==
  /\ pc[r] = "recover"
  /\ faults < MaxFaults /\ faults' = faults + 1
  /\ End(r, "refused")
  /\ UNCHANGED <<today, file, day, start, expired>>

Step(r) == \/ Begin(r) \/ TakeMutex(r) \/ Open(r) \/ Chmod(r) \/ WaitPrivate(r)
           \/ TakeFlock(r) \/ CheckTail(r) \/ Write(r) \/ WriteFails(r) \/ Recover(r)
           \/ Finish(r) \/ GiveUp(r) \/ RecoverFails(r)

\* All records are made, and days end.
Done == (\A r \in Records : pc[r] = "ended") /\ today = MaxDays /\ UNCHANGED vars

Next == \/ Midnight
        \/ \E r \in Records : Step(r) \/ Expire(r)
        \/ \E p \in Processes : Die(p)
        \/ Done

Spec == Init /\ [][Next]_vars
\* A thread that can go on does, and a wait that has a limit comes to it.
FairSpec == Spec /\ \A r \in Records : WF_vars(Step(r))

-----------------------------------------------------------------------------
(* Properties. *)

TypeOK ==
  /\ today \in Days
  /\ file \in [Days -> [mode : {"absent", "made", "private"},
                        rows : Seq([by : Records, whole : BOOLEAN])]]
  /\ pc \in [Records -> {"new", "mutex", "open", "chmod", "wait", "flock", "tail",
                         "write", "writing", "wrote", "recover", "ended"}]
  /\ day \in [Records -> Days] /\ start \in [Records -> Nat]
  /\ mutex \in [Processes -> Records \cup {None}]
  /\ \A r \in Records : mutex[Owner[r]] = r => pc[r] \notin {"new", "mutex", "ended"}
  /\ flock \in [Days -> Records \cup {None}]
  /\ expired \subseteq Records
  /\ result \in [Records -> {"none", "ok", "refused", "lost"}]
  /\ faults \in 0..MaxFaults

\* However many processes write, die or fail, only the last row of a file may be
\* incomplete, so that a broken row never swallows the beginning of another; and it
\* is incomplete only while its record is at it, or because that record's process
\* died in the middle of it or could not cut it off again.
DamageContained ==
  /\ TypeOK
  /\ \A d \in Days :
       /\ \A i \in DOMAIN file[d].rows : ~file[d].rows[i].whole => i = Len(file[d].rows)
       /\ Damaged(file[d].rows) =>
            LET r == Last(file[d].rows).by
            IN flock[d] = r \/ result[r] = "lost" \/ (result[r] = "refused" /\ faults > 1)

\* The rows a reader of the log gets.  By DamageContained only the last one of a file
\* may be missing its end.
Whole(rows) == [i \in 1..(IF Damaged(rows) THEN Len(rows) - 1 ELSE Len(rows)) |-> rows[i].by]
Trail == INSTANCE AuditTrail WITH rows <- [d \in Days |-> Whole(file[d].rows)]
\* Seen through its whole rows the log is an AuditTrail: nothing written is lost
\* again or written twice, and only what is there is confirmed.
ImplementsTrail == Trail!Spec

\* Every call of record() ends, also when others die with the file half made.
EveryRecordEnds == <>(\A r \in Records : pc[r] = "ended")
=============================================================================
