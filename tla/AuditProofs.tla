------------------------------ MODULE AuditProofs -----------------------------
(***************************************************************************)
(* Proofs about the audit of tool calls.  First AuditLog, for any          *)
(* processes, records, days and faults: damage stays where it is, and the  *)
(* log is an AuditTrail.  Then AuditedCalls, for any calls and any number  *)
(* of permits.  What a client is told rests on the deadline: record() does *)
(* not begin a row after it, and a call gives up only after it, so a call  *)
(* that once saw its job in the queue too late never gets a row.           *)
(***************************************************************************)
EXTENDS AuditLog, AuditedCalls, SequenceTheorems, FiniteSetTheorems, TLAPS

RowSet == [by : Records, whole : BOOLEAN]
Locked == {"tail", "write", "writing", "wrote", "recover"}

\* The advisory lock on a file belongs to the one record that is past taking it.
Locks ==
  /\ \A r \in Records : pc[r] \in Locked => flock[day[r]] = r
  /\ \A d \in Days : flock[d] # None => pc[flock[d]] \in Locked /\ day[flock[d]] = d

\* A record has a result when it has ended.
Results == \A r \in Records : result[r] = "none" <=> pc[r] # "ended"

\* Only the last row of a file may be incomplete.
LastOnly ==
  \A d \in Days : \A i \in 1..Len(file[d].rows) :
    ~file[d].rows[i].whole => i = Len(file[d].rows)

\* What the holder of the lock knows of its file: nobody else has written since it
\* looked at the tail.
AtWork(r) ==
  LET grown(w) == Len(Rows(r)) = start[r] + 1 /\ Last(Rows(r)) = Row(r, w)
      same     == Len(Rows(r)) = start[r] /\ ~Damaged(Rows(r))
  IN /\ pc[r] = "write" => same
     /\ pc[r] = "writing" => grown(FALSE)
     /\ pc[r] = "wrote" => grown(TRUE)
     /\ pc[r] = "recover" => same \/ grown(TRUE) \/ (grown(FALSE) /\ faults > 0)

\* Whose incomplete row a file can end with.
Left(d) ==
  Damaged(file[d].rows) =>
    LET r == Last(file[d].rows).by
    IN \/ flock[d] = r /\ pc[r] \in {"writing", "recover"}
       \/ result[r] = "lost"
       \/ result[r] = "refused" /\ faults > 1

\* A row is whole only when its record is past writing it.
Once ==
  \A d \in Days : \A i \in 1..Len(file[d].rows) :
    file[d].rows[i].whole => pc[file[d].rows[i].by] \in {"wrote", "recover", "ended"}

Contents == LastOnly /\ (\A r \in Records : AtWork(r)) /\ (\A d \in Days : Left(d)) /\ Once

IInv == TypeOK /\ Locks /\ Results /\ Contents

-----------------------------------------------------------------------------
(* The rows of a file. *)

LEMMA RowAppended ==
  ASSUME NEW s \in Seq(RowSet), NEW x \in RowSet
  PROVE  /\ Append(s, x) \in Seq(RowSet) /\ Append(s, x) # <<>>
         /\ Len(s) \in Nat /\ Len(Append(s, x)) = Len(s) + 1
         /\ \A i \in 1..Len(s) : Append(s, x)[i] = s[i]
         /\ Append(s, x)[Len(s) + 1] = x /\ Last(Append(s, x)) = x
  BY DEF Last

LEMMA RowCutOff ==
  ASSUME NEW s \in Seq(RowSet), s # <<>>
  PROVE  /\ Front(s) = SubSeq(s, 1, Len(s) - 1)
         /\ Front(s) \in Seq(RowSet)
         /\ Len(s) \in Nat \ {0} /\ Len(Front(s)) = Len(s) - 1
         /\ \A i \in 1..(Len(s) - 1) : Front(s)[i] = s[i]
         /\ Last(s) = s[Len(s)] /\ s[Len(s)] \in RowSet
<1>1. Len(s) \in Nat \ {0} /\ Last(s) = s[Len(s)] /\ s[Len(s)] \in RowSet
  BY DEF Last
<1>2. Front(s) = SubSeq(s, 1, Len(s) - 1)
  BY DEF Front
<1>3. \A i \in 1..(Len(s) - 1) : s[i] \in RowSet
  BY <1>1
<1> DEFINE n == Len(s) - 1
<1>4. 1 \in Int /\ n \in Int /\ (1 <= n \/ n = 0) /\ n - 1 + 1 = n /\ \A i \in 1..n : 1 + i - 1 = i
  BY <1>1
<1>5. /\ SubSeq(s, 1, n) \in Seq(RowSet)
      /\ Len(SubSeq(s, 1, n)) = IF 1 <= n THEN n - 1 + 1 ELSE 0
      /\ \A i \in 1..(n - 1 + 1) : SubSeq(s, 1, n)[i] = s[1 + i - 1]
  <2> HIDE DEF n
  <2>1. QED BY <1>4, <1>3, SubSeqProperties DEF n
<1>6. /\ SubSeq(s, 1, n) \in Seq(RowSet) /\ Len(SubSeq(s, 1, n)) = n
      /\ \A i \in 1..n : SubSeq(s, 1, n)[i] = s[i]
  <2> HIDE DEF n
  <2>1. QED BY <1>4, <1>5
<1>7. QED BY <1>1, <1>2, <1>6

LEMMA NotDamaged ==
  ASSUME NEW s \in Seq(RowSet), \A i \in 1..Len(s) : s[i].whole
  PROVE  ~Damaged(s)
<1>1. s # <<>> => Len(s) \in 1..Len(s)
  OBVIOUS
<1>2. QED BY <1>1 DEF Damaged, Last

\* Giving a file new rows leaves its mode and the other files alone.
LEMMA RowsSet ==
  ASSUME TypeOK, NEW d \in Days, NEW s \in Seq(RowSet), file' = [file EXCEPT ![d].rows = s]
  PROVE  /\ file' \in [Days -> [mode : {"absent", "made", "private"}, rows : Seq(RowSet)]]
         /\ file'[d].rows = s /\ file'[d].mode = file[d].mode
         /\ \A e \in Days \ {d} : file'[e] = file[e]
<1>1. file \in [Days -> [mode : {"absent", "made", "private"}, rows : Seq(RowSet)]]
  BY DEF TypeOK, RowSet
<1> HIDE DEF RowSet
<1>2. file' = [file EXCEPT ![d] = [file[d] EXCEPT !.rows = s]]
  OBVIOUS
<1>3. [file[d] EXCEPT !.rows = s] \in [mode : {"absent", "made", "private"}, rows : Seq(RowSet)]
  BY <1>1
<1>4. [file[d] EXCEPT !.rows = s].rows = s /\ [file[d] EXCEPT !.rows = s].mode = file[d].mode
  BY <1>1
<1>5. QED BY <1>1, <1>2, <1>3, <1>4

\* So does giving it a mode.
LEMMA ModeSet ==
  ASSUME TypeOK, NEW d \in Days, NEW m \in {"made", "private"}, file' = [file EXCEPT ![d].mode = m]
  PROVE  /\ file' \in [Days -> [mode : {"absent", "made", "private"}, rows : Seq(RowSet)]]
         /\ \A e \in Days : file'[e].rows = file[e].rows
<1>1. file \in [Days -> [mode : {"absent", "made", "private"}, rows : Seq(RowSet)]]
  BY DEF TypeOK, RowSet
<1> HIDE DEF RowSet
<1>2. file' = [file EXCEPT ![d] = [file[d] EXCEPT !.mode = m]]
  OBVIOUS
<1>3. [file[d] EXCEPT !.mode = m] \in [mode : {"absent", "made", "private"}, rows : Seq(RowSet)]
  BY <1>1
<1>4. [file[d] EXCEPT !.mode = m].rows = file[d].rows
  BY <1>1
<1>5. QED BY <1>1, <1>2, <1>3, <1>4

-----------------------------------------------------------------------------
(* Types, locks and results. *)

FileSet == [Days -> [mode : {"absent", "made", "private"}, rows : Seq(RowSet)]]

\* What a record that ends, and a process that dies, leave of the locks.
LEMMA ReleaseTyped ==
  ASSUME TypeOK, NEW r \in Records, Release(r)
  PROVE  /\ mutex' \in [Processes -> Records \cup {None}]
         /\ flock' \in [Days -> Records \cup {None}]
         /\ \A q \in Records : mutex'[Owner[q]] = q => q # r /\ mutex[Owner[q]] = q
         /\ \A d \in Days : flock'[d] = (IF d = day[r] /\ flock[d] = r THEN None ELSE flock[d])
  BY AuditAssumption DEF TypeOK, Release

LEMMA RepairedTyped ==
  ASSUME TypeOK, NEW r \in Records
  PROVE  Repaired(r) \in Seq(RowSet)
<1>1. Rows(r) \in Seq(RowSet) /\ start[r] \in Nat
  BY DEF TypeOK, Rows, RowSet
<1>2. CASE Len(Rows(r)) = start[r] + 1
  <2>1. Rows(r) # <<>> /\ Len(Rows(r)) - 1 = start[r]
    BY <1>1, <1>2
  <2>2. SubSeq(Rows(r), 1, start[r]) \in Seq(RowSet)
    BY <1>1, <2>1, RowCutOff
  <2>3. QED BY <1>1, <2>2 DEF Repaired
<1>3. CASE Len(Rows(r)) # start[r] + 1
  BY <1>1, <1>3 DEF Repaired
<1>4. QED BY <1>2, <1>3

\* A write(2) makes a file longer by a row, or an incomplete row whole.
LEMMA Written ==
  ASSUME TypeOK, NEW r \in Records, Write(r)
  PROVE  \E s \in Seq(RowSet) : file' = [file EXCEPT ![day[r]].rows = s]
<1>1. Rows(r) \in Seq(RowSet)
  BY DEF TypeOK, Rows, RowSet
<1>2. Row(r, TRUE) \in RowSet /\ Row(r, FALSE) \in RowSet
  BY DEF Row, RowSet
<1> DEFINE mine == pc[r] = "writing" /\ Rows(r) # <<>> /\ Last(Rows(r)) = Row(r, FALSE)
<1>3. PICK whole \in BOOLEAN :
        file' = [file EXCEPT ![day[r]].rows =
                   IF mine THEN Append(Front(Rows(r)), Row(r, TRUE))
                   ELSE Append(Rows(r), Row(r, whole /\ pc[r] = "write"))]
  BY DEF Write
<1>4. CASE mine
  <2>1. Append(Front(Rows(r)), Row(r, TRUE)) \in Seq(RowSet)
    BY <1>1, <1>2, <1>4, RowCutOff, RowAppended
  <2>2. QED BY <1>3, <1>4, <2>1
<1>5. CASE ~mine
  <2>1. Row(r, whole /\ pc[r] = "write") \in RowSet
    BY DEF Row, RowSet
  <2>2. Append(Rows(r), Row(r, whole /\ pc[r] = "write")) \in Seq(RowSet)
    BY <1>1, <2>1, RowAppended
  <2>3. QED BY <1>3, <1>5, <2>2
<1>6. QED BY <1>4, <1>5

LEMMA TypeStep == TypeOK /\ [Next]_vars => TypeOK'
<1> SUFFICES ASSUME TypeOK, [Next]_vars PROVE TypeOK'
  OBVIOUS
<1>0. /\ file \in FileSet /\ MaxFaults \in Nat /\ MaxDays \in Nat \ {0}
      /\ Owner \in [Records -> Processes] /\ None \notin Records
  BY AuditAssumption DEF TypeOK, FileSet, RowSet
<1>1. CASE Midnight
  <2>1. today' \in Days
    BY <1>0, <1>1 DEF Midnight, TypeOK, Days
  <2>2. QED BY <1>1, <2>1 DEF Midnight, TypeOK
<1>2. ASSUME NEW r \in Records, Expire(r) PROVE TypeOK'
  BY <1>2 DEF Expire, TypeOK
<1>3. ASSUME NEW p \in Processes, Die(p) PROVE TypeOK'
  <2> DEFINE gone == {r \in Records : Owner[r] = p /\ pc[r] \notin {"new", "ended"}}
  <2>1. /\ pc' = [r \in Records |-> IF r \in gone THEN "ended" ELSE pc[r]]
        /\ result' = [r \in Records |-> IF r \in gone THEN "lost" ELSE result[r]]
        /\ mutex' = [mutex EXCEPT ![p] = None]
        /\ flock' = [d \in Days |-> IF flock[d] \in gone THEN None ELSE flock[d]]
        /\ UNCHANGED <<today, file, day, start, expired, faults>>
    BY <1>3 DEF Die
  <2>2. pc' \in [Records -> {"new", "mutex", "open", "chmod", "wait", "flock", "tail",
                             "write", "writing", "wrote", "recover", "ended"}]
    BY <2>1 DEF TypeOK
  <2>3. result' \in [Records -> {"none", "ok", "refused", "lost"}]
    BY <2>1 DEF TypeOK
  <2>4. mutex' \in [Processes -> Records \cup {None}] /\ flock' \in [Days -> Records \cup {None}]
    BY <2>1 DEF TypeOK
  <2>5. \A r \in Records : mutex'[Owner[r]] = r => pc'[r] \notin {"new", "mutex", "ended"}
    BY <1>0, <2>1 DEF TypeOK
  <2>6. QED BY <2>1, <2>2, <2>3, <2>4, <2>5 DEF TypeOK
<1>4. ASSUME NEW r \in Records, NEW how \in {"ok", "refused"}, End(r, how),
             UNCHANGED <<today, day, start, expired>>, file' \in FileSet, faults' \in 0..MaxFaults
      PROVE  TypeOK'
  <2>1. /\ pc' = [pc EXCEPT ![r] = "ended"] /\ result' = [result EXCEPT ![r] = how]
        /\ Release(r)
    BY <1>4 DEF End, Go
  <2>2. /\ mutex' \in [Processes -> Records \cup {None}] /\ flock' \in [Days -> Records \cup {None}]
        /\ \A q \in Records : mutex'[Owner[q]] = q => q # r /\ mutex[Owner[q]] = q
    BY <2>1, ReleaseTyped
  <2>3. pc' \in [Records -> {"new", "mutex", "open", "chmod", "wait", "flock", "tail",
                             "write", "writing", "wrote", "recover", "ended"}]
        /\ result' \in [Records -> {"none", "ok", "refused", "lost"}]
    BY <2>1 DEF TypeOK
  <2>4. \A q \in Records : mutex'[Owner[q]] = q => pc'[q] \notin {"new", "mutex", "ended"}
    BY <2>1, <2>2 DEF TypeOK
  <2>5. QED BY <1>4, <2>2, <2>3, <2>4 DEF TypeOK, FileSet, RowSet
<1>5. ASSUME NEW r \in Records, Begin(r) \/ WaitPrivate(r) PROVE TypeOK'
  <2>1. CASE Begin(r) BY <2>1 DEF Begin, Go, TypeOK
  <2>2. CASE WaitPrivate(r) BY <2>2 DEF WaitPrivate, Go, TypeOK
  <2>3. QED BY <1>5, <2>1, <2>2
<1>6. ASSUME NEW r \in Records, TakeMutex(r) PROVE TypeOK'
  BY <1>0, <1>6 DEF TakeMutex, Go, TypeOK
<1>7. ASSUME NEW r \in Records, Open(r) PROVE TypeOK'
  <2>1. file' \in FileSet
    BY <1>0, <1>7, ModeSet DEF Open, TypeOK, FileSet
  <2>2. QED BY <1>7, <2>1 DEF Open, Go, TypeOK, FileSet, RowSet
<1>8. ASSUME NEW r \in Records, Chmod(r) PROVE TypeOK'
  <2>1. file' \in FileSet
    BY <1>8, ModeSet DEF Chmod, TypeOK, FileSet
  <2>2. QED BY <1>8, <2>1 DEF Chmod, Go, TypeOK, FileSet, RowSet
<1>9. ASSUME NEW r \in Records, TakeFlock(r) PROVE TypeOK'
  BY <1>9 DEF TakeFlock, Go, TypeOK
<1>10. ASSUME NEW r \in Records, CheckTail(r) PROVE TypeOK'
  <2>1. Len(Rows(r)) \in Nat
    <3>1. Rows(r) \in Seq(RowSet)
      BY DEF TypeOK, Rows, RowSet
    <3>2. QED BY <3>1
  <2>2. QED BY <1>10, <2>1 DEF CheckTail, Go, TypeOK
<1>11. ASSUME NEW r \in Records, Write(r) PROVE TypeOK'
  <2>1. file' \in FileSet
    <3>1. PICK s \in Seq(RowSet) : file' = [file EXCEPT ![day[r]].rows = s]
      BY <1>11, Written
    <3>2. day[r] \in Days
      BY DEF TypeOK
    <3>3. QED BY <3>1, <3>2, RowsSet DEF FileSet
  <2>2. QED BY <1>11, <2>1 DEF Write, Go, TypeOK, FileSet, RowSet
<1>12. ASSUME NEW r \in Records, WriteFails(r) PROVE TypeOK'
  <2>1. faults' \in 0..MaxFaults
    BY <1>0, <1>12 DEF WriteFails, TypeOK
  <2>2. QED BY <1>12, <2>1 DEF WriteFails, Go, TypeOK
<1>13. ASSUME NEW r \in Records, Recover(r) PROVE TypeOK'
  <2>1. file' \in FileSet
    BY <1>13, RepairedTyped, RowsSet DEF Recover, TypeOK, FileSet
  <2>2. faults' \in 0..MaxFaults
    BY <1>13 DEF Recover, TypeOK
  <2>3. QED BY <1>4, <1>13, <2>1, <2>2 DEF Recover
<1>14. ASSUME NEW r \in Records, Finish(r) PROVE TypeOK'
  <2>1. file' \in FileSet /\ faults' \in 0..MaxFaults
    BY <1>0, <1>14 DEF Finish, TypeOK
  <2>2. QED BY <1>4, <1>14, <2>1 DEF Finish
<1>15. ASSUME NEW r \in Records, GiveUp(r) \/ RecoverFails(r) PROVE TypeOK'
  <2>1. file' \in FileSet
    BY <1>0, <1>15 DEF GiveUp, RecoverFails
  <2>2. faults' \in 0..MaxFaults
    BY <1>0, <1>15 DEF GiveUp, RecoverFails, TypeOK
  <2>3. QED BY <1>4, <1>15, <2>1, <2>2 DEF GiveUp, RecoverFails
<1>16. CASE UNCHANGED vars BY <1>16 DEF vars, TypeOK
<1>17. QED
  BY <1>1, <1>2, <1>3, <1>5, <1>6, <1>7, <1>8, <1>9, <1>10, <1>11, <1>12, <1>13, <1>14,
     <1>15, <1>16 DEF Next, Step, Done

\* A lock is taken when it is free and given back by its holder's end.
LEMMA LocksStep == TypeOK /\ Locks /\ Results /\ [Next]_vars => Locks' /\ Results'
<1> SUFFICES ASSUME TypeOK, Locks, Results, [Next]_vars PROVE Locks' /\ Results'
  OBVIOUS
<1>0. /\ pc \in [Records -> {"new", "mutex", "open", "chmod", "wait", "flock", "tail",
                              "write", "writing", "wrote", "recover", "ended"}]
      /\ result \in [Records -> {"none", "ok", "refused", "lost"}]
      /\ flock \in [Days -> Records \cup {None}]
      /\ day \in [Records -> Days] /\ today \in Days /\ None \notin Records
  BY AuditAssumption DEF TypeOK
<1> USE <1>0 DEF Locks, Results, Locked
<1>1. CASE Midnight BY <1>1 DEF Midnight
<1>2. ASSUME NEW r \in Records, Expire(r) PROVE Locks' /\ Results'
  BY <1>2 DEF Expire
<1>3. ASSUME NEW p \in Processes, Die(p) PROVE Locks' /\ Results'
  <2> DEFINE gone == {r \in Records : Owner[r] = p /\ pc[r] \notin {"new", "ended"}}
  <2>1. /\ pc' = [r \in Records |-> IF r \in gone THEN "ended" ELSE pc[r]]
        /\ result' = [r \in Records |-> IF r \in gone THEN "lost" ELSE result[r]]
        /\ flock' = [d \in Days |-> IF flock[d] \in gone THEN None ELSE flock[d]]
        /\ day' = day
    BY <1>3 DEF Die
  <2> HIDE DEF gone
  <2>2. QED BY <2>1
<1>4. ASSUME NEW r \in Records, NEW how \in {"ok", "refused"}, End(r, how), day' = day,
             pc[r] # "ended"
      PROVE  Locks' /\ Results'
  <2>1. /\ pc' = [pc EXCEPT ![r] = "ended"] /\ result' = [result EXCEPT ![r] = how]
        /\ Release(r)
    BY <1>4 DEF End, Go
  <2>2. \A d \in Days : flock'[d] = (IF d = day[r] /\ flock[d] = r THEN None ELSE flock[d])
    BY <2>1, ReleaseTyped
  <2>3. QED BY <1>4, <2>1, <2>2
<1>5. ASSUME NEW r \in Records, Begin(r) PROVE Locks' /\ Results'
  BY <1>5 DEF Begin, Go
<1>6. ASSUME NEW r \in Records,
             WaitPrivate(r) \/ TakeMutex(r) \/ Open(r) \/ Chmod(r) \/ CheckTail(r)
               \/ Write(r) \/ WriteFails(r)
      PROVE  Locks' /\ Results'
  <2>1. /\ \/ pc[r] \notin Locked \cup {"ended"} /\ pc'[r] \notin Locked \cup {"ended"}
           \/ pc[r] \in Locked /\ pc'[r] \in Locked
        /\ \A q \in Records \ {r} : pc'[q] = pc[q]
        /\ UNCHANGED <<flock, day, result>>
    <3>1. CASE WaitPrivate(r) BY <3>1 DEF WaitPrivate, Go
    <3>2. CASE TakeMutex(r) BY <3>2 DEF TakeMutex, Go
    <3>3. CASE Open(r) BY <3>3 DEF Open, Go
    <3>4. CASE Chmod(r) BY <3>4 DEF Chmod, Go
    <3>5. CASE CheckTail(r) BY <3>5 DEF CheckTail, Go
    <3>6. CASE Write(r)
      <4>1. PICK whole \in BOOLEAN : Go(r, IF whole THEN "wrote" ELSE "writing")
        BY <3>6 DEF Write
      <4>2. pc' = [pc EXCEPT ![r] = "wrote"] \/ pc' = [pc EXCEPT ![r] = "writing"]
        BY <4>1 DEF Go
      <4>3. pc[r] \in {"write", "writing"} /\ UNCHANGED <<flock, day, result>>
        BY <3>6 DEF Write
      <4>4. QED BY <4>2, <4>3
    <3>7. CASE WriteFails(r) BY <3>7 DEF WriteFails, Go
    <3>8. QED BY <1>6, <3>1, <3>2, <3>3, <3>4, <3>5, <3>6, <3>7
  <2>2. QED BY <2>1
<1>7. ASSUME NEW r \in Records, TakeFlock(r) PROVE Locks' /\ Results'
  BY <1>7 DEF TakeFlock, Go, Free
<1>8. ASSUME NEW r \in Records, Recover(r) \/ Finish(r) \/ GiveUp(r) \/ RecoverFails(r)
      PROVE  Locks' /\ Results'
  BY <1>4, <1>8 DEF Recover, Finish, GiveUp, RecoverFails
<1>9. CASE UNCHANGED vars BY <1>9 DEF vars
<1>10. QED
  BY <1>1, <1>2, <1>3, <1>5, <1>6, <1>7, <1>8, <1>9 DEF Next, Step, Done

-----------------------------------------------------------------------------
(* The rows. *)

LEMMA FileFacts ==
  ASSUME TypeOK
  PROVE  /\ \A d \in Days : file[d].rows \in Seq(RowSet) /\ Len(file[d].rows) \in Nat
         /\ \A d \in Days : \A i \in 1..Len(file[d].rows) : file[d].rows[i] \in RowSet
         /\ \A d \in Days : file[d].rows # <<>> =>
              /\ Len(file[d].rows) \in 1..Len(file[d].rows)
              /\ Last(file[d].rows) = file[d].rows[Len(file[d].rows)]
              /\ Last(file[d].rows).by \in Records /\ Last(file[d].rows).whole \in BOOLEAN
<1>1. \A d \in Days : file[d].rows \in Seq(RowSet)
  BY DEF TypeOK, RowSet
<1>2. ASSUME NEW d \in Days
      PROVE  /\ Len(file[d].rows) \in Nat
             /\ \A i \in 1..Len(file[d].rows) : file[d].rows[i] \in RowSet
  BY <1>1
<1>3. ASSUME NEW d \in Days, file[d].rows # <<>>
      PROVE  /\ Len(file[d].rows) \in 1..Len(file[d].rows)
             /\ Last(file[d].rows) = file[d].rows[Len(file[d].rows)]
             /\ Last(file[d].rows) \in RowSet
  BY <1>1, <1>3 DEF Last
<1>4. \A x \in RowSet : x.by \in Records /\ x.whole \in BOOLEAN
  BY DEF RowSet
<1>5. QED BY <1>1, <1>2, <1>3, <1>4

LEMMA RowFields ==
  \A r, w : Row(r, w).by = r /\ Row(r, w).whole = w
  BY DEF Row

\* Who waits for a lock or looks at the tail cares for no row, and nobody else can
\* tell that it goes on.
LEMMA PassiveStep ==
  ASSUME TypeOK, Locks, Contents,
         NEW r \in Records, pc[r] \in {"new", "mutex", "open", "chmod", "wait", "flock", "tail"},
         pc'[r] \in {"new", "mutex", "open", "chmod", "wait", "flock", "tail"},
         \A q \in Records \ {r} : pc'[q] = pc[q] /\ day'[q] = day[q],
         \A d \in Days : file'[d].rows = file[d].rows,
         \A d \in Days : flock[d] # None => flock'[d] = flock[d],
         UNCHANGED <<start, result, faults>>
  PROVE  Contents'
<1>0. None \notin Records /\ day \in [Records -> Days]
  BY AuditAssumption DEF TypeOK
<1>1. LastOnly' BY DEF Contents, LastOnly
<1>2. ASSUME NEW q \in Records PROVE AtWork(q)'
  <2>1. CASE q = r BY <2>1 DEF AtWork
  <2>2. CASE q # r
    <3>1. Rows(q)' = Rows(q) /\ pc'[q] = pc[q]
      BY <1>0, <2>2 DEF Rows
    <3>2. QED BY <3>1 DEF Contents, AtWork
  <2>3. QED BY <2>1, <2>2
<1>3. ASSUME NEW d \in Days PROVE Left(d)'
  <2> SUFFICES ASSUME Damaged(file[d].rows)
               PROVE  LET q == Last(file[d].rows).by
                      IN \/ flock'[d] = q /\ pc'[q] \in {"writing", "recover"}
                         \/ result[q] = "lost"
                         \/ result[q] = "refused" /\ faults > 1
    BY DEF Left
  <2>1. Last(file[d].rows).by \in Records
    BY FileFacts DEF Damaged
  <2>2. QED BY <1>0, <2>1 DEF Contents, Left
<1>4. Once'
  <2> SUFFICES ASSUME NEW d \in Days, NEW i \in 1..Len(file[d].rows), file[d].rows[i].whole
               PROVE  pc'[file[d].rows[i].by] \in {"wrote", "recover", "ended"}
    BY DEF Once
  <2>1. file[d].rows[i].by \in Records
    BY FileFacts DEF RowSet
  <2>2. QED BY <2>1 DEF Contents, Once
<1>5. QED BY <1>1, <1>2, <1>3, <1>4 DEF Contents

\* What the holder of a lock does to its file and ends with concerns no other record
\* and no other file.
LEMMA OthersKept ==
  ASSUME TypeOK, Locks, Results, Contents, NEW r \in Records, pc[r] # "ended",
         \A q \in Records \ {r} : pc'[q] = pc[q] /\ result'[q] = result[q] /\ start'[q] = start[q],
         day' = day,
         pc[r] \notin Locked => \A e \in Days : file'[e].rows = file[e].rows,
         \A e \in Days \ {day[r]} : file'[e].rows = file[e].rows /\ flock'[e] = flock[e],
         faults' \in Nat, faults' >= faults
  PROVE  /\ \A q \in Records \ {r} : AtWork(q)'
         /\ \A e \in Days \ {day[r]} : Left(e)'
<1>0. None \notin Records /\ day \in [Records -> Days] /\ faults \in Nat
  BY AuditAssumption DEF TypeOK
<1>1. ASSUME NEW q \in Records \ {r} PROVE AtWork(q)'
  <2>1. CASE pc[q] \notin {"write", "writing", "wrote", "recover"}
    BY <1>1, <2>1 DEF AtWork
  <2>2. CASE pc[q] \in {"write", "writing", "wrote", "recover"}
    <3>1. file'[day[q]].rows = file[day[q]].rows
      <4>1. CASE pc[r] \in Locked
        <5>1. day[q] # day[r]
          BY <1>1, <2>2, <4>1 DEF Locks, Locked
        <5>2. QED BY <1>0, <5>1
      <4>2. QED BY <4>1, <1>0
    <3>2. Rows(q)' = Rows(q) /\ pc'[q] = pc[q] /\ start'[q] = start[q]
      BY <1>0, <3>1 DEF Rows
    <3>3. faults > 0 => faults' > 0
      BY <1>0
    <3>4. QED BY <3>2, <3>3 DEF Contents, AtWork
  <2>3. QED BY <2>1, <2>2
<1>2. ASSUME NEW e \in Days \ {day[r]} PROVE Left(e)'
  <2> SUFFICES ASSUME Damaged(file[e].rows)
               PROVE  LET q == Last(file[e].rows).by
                      IN \/ flock[e] = q /\ pc'[q] \in {"writing", "recover"}
                         \/ result'[q] = "lost"
                         \/ result'[q] = "refused" /\ faults' > 1
    BY <1>2 DEF Left
  <2>1. Last(file[e].rows).by \in Records
    BY FileFacts DEF Damaged
  <2>2. Last(file[e].rows).by = r => result[r] = "none" /\ flock[e] # r
    BY <1>0, <1>2 DEF Locks, Results
  <2>3. faults > 1 => faults' > 1
    BY <1>0
  <2>4. Last(file[e].rows).by # r
    BY <2>1, <2>2 DEF Contents, Left
  <2>5. QED BY <2>1, <2>3, <2>4 DEF Contents, Left
<1>3. QED BY <1>1, <1>2

\* A record that ends without touching the file leaves it damaged only as Left allows.
LEMMA EndStep ==
  ASSUME TypeOK, Locks, Results, Contents, NEW r \in Records, pc[r] # "ended",
         NEW how \in {"ok", "refused"}, End(r, how),
         \A d \in Days : file'[d].rows = file[d].rows,
         UNCHANGED <<day, start>>, faults' \in Nat, faults' >= faults,
         pc[r] \in {"writing", "recover"} /\ Damaged(Rows(r)) /\ Last(Rows(r)).by = r
           => how = "refused" /\ faults' > 1
  PROVE  Contents'
<1>0. /\ None \notin Records /\ day \in [Records -> Days] /\ faults \in Nat
      /\ pc \in [Records -> {"new", "mutex", "open", "chmod", "wait", "flock", "tail",
                            "write", "writing", "wrote", "recover", "ended"}]
      /\ result \in [Records -> {"none", "ok", "refused", "lost"}]
  BY AuditAssumption DEF TypeOK
<1>1. /\ pc' = [pc EXCEPT ![r] = "ended"] /\ result' = [result EXCEPT ![r] = how]
      /\ Release(r)
  BY DEF End, Go
<1>2. \A d \in Days : flock'[d] = (IF d = day[r] /\ flock[d] = r THEN None ELSE flock[d])
  BY <1>1, ReleaseTyped
<1>3. /\ \A q \in Records \ {r} : AtWork(q)'
      /\ \A e \in Days \ {day[r]} : Left(e)'
  BY <1>0, <1>1, <1>2, OthersKept
<1>4. AtWork(r)'
  BY <1>0, <1>1 DEF AtWork
<1>5. LastOnly'
  BY DEF Contents, LastOnly
<1>6. Once'
  <2> SUFFICES ASSUME NEW d \in Days, NEW i \in 1..Len(file[d].rows), file[d].rows[i].whole
               PROVE  pc'[file[d].rows[i].by] \in {"wrote", "recover", "ended"}
    BY DEF Once
  <2>1. file[d].rows[i].by \in Records
    BY FileFacts DEF RowSet
  <2>2. QED BY <1>0, <1>1, <2>1 DEF Contents, Once
<1>7. Left(day[r])'
  <2> DEFINE d == day[r]
             q == Last(file[d].rows).by
  <2>0. d \in Days /\ day' = day
    BY <1>0
  <2> SUFFICES ASSUME Damaged(file[d].rows)
               PROVE  \/ flock'[d] = q /\ pc'[q] \in {"writing", "recover"}
                      \/ result'[q] = "lost"
                      \/ result'[q] = "refused" /\ faults' > 1
    BY <2>0 DEF Left
  <2>1. q \in Records
    BY <2>0, FileFacts DEF Damaged
  <2>2. Left(d)
    BY <2>0 DEF Contents
  <2>3. CASE q = r
    <3>1. result[r] = "none"
      BY DEF Results
    <3>2. pc[r] \in {"writing", "recover"}
      BY <2>2, <2>3, <3>1 DEF Left
    <3>3. QED BY <1>0, <1>1, <2>3, <3>2 DEF Rows
  <2>4. CASE q # r
    <3>1. pc'[q] = pc[q] /\ result'[q] = result[q]
      BY <1>0, <1>1, <2>1, <2>4
    <3>2. flock[d] = q => flock'[d] = q
      BY <1>2, <2>0, <2>4
    <3>3. faults > 1 => faults' > 1
      BY <1>0
    <3>4. QED BY <2>2, <3>1, <3>2, <3>3 DEF Left
  <2>5. QED BY <2>3, <2>4
<1>8. QED
  <2>1. \A e \in Days : Left(e)'
    BY <1>3, <1>7
  <2>2. \A q \in Records : AtWork(q)'
    BY <1>3, <1>4
  <2>3. QED BY <1>5, <1>6, <2>1, <2>2 DEF Contents

\* The rows a record has written so far, while it has the lock on their file.
LEMMA WriteStep ==
  ASSUME TypeOK, Locks, Results, Contents, NEW r \in Records, Write(r)
  PROVE  LET d == day[r]
             s == file[d].rows
             t == file'[d].rows
         IN /\ d \in Days /\ pc[r] \in {"write", "writing"} /\ flock[d] = r
            /\ pc' = [pc EXCEPT ![r] = pc'[r]] /\ pc'[r] \in {"wrote", "writing"}
            /\ UNCHANGED <<day, start, flock, result, faults>>
            /\ \A e \in Days \ {d} : file'[e] = file[e]
            /\ Len(t) = start[r] + 1 /\ t # <<>> /\ Last(t) = Row(r, pc'[r] = "wrote")
            /\ t[Len(t)] = Last(t) /\ start[r] \in Nat
            /\ \A i \in 1..start[r] : t[i] = s[i] /\ s[i].whole
            /\ \/ Len(s) = start[r] /\ ~Damaged(s)
               \/ pc[r] = "writing" /\ pc'[r] = "wrote" /\ Damaged(s) /\ Len(s) = start[r] + 1
<1> DEFINE d == day[r]
           s == file[d].rows
           t == file'[d].rows
<1>0. /\ d \in Days /\ start[r] \in Nat /\ s \in Seq(RowSet) /\ Len(s) \in Nat /\ Rows(r) = s
      /\ pc \in [Records -> {"new", "mutex", "open", "chmod", "wait", "flock", "tail",
                            "write", "writing", "wrote", "recover", "ended"}]
      /\ Row(r, TRUE) \in RowSet /\ Row(r, FALSE) \in RowSet
  BY FileFacts DEF TypeOK, Rows, Row, RowSet
<1> DEFINE mine == pc[r] = "writing" /\ s # <<>> /\ Last(s) = Row(r, FALSE)
<1>1. PICK whole \in BOOLEAN :
        /\ pc[r] = "writing" => whole
        /\ file' = [file EXCEPT ![d].rows =
                      IF mine THEN Append(Front(s), Row(r, TRUE))
                      ELSE Append(s, Row(r, whole /\ pc[r] = "write"))]
        /\ Go(r, IF whole THEN "wrote" ELSE "writing")
  BY <1>0 DEF Write
<1>2. /\ pc[r] \in {"write", "writing"} /\ UNCHANGED <<day, start, flock, result, faults>>
  BY DEF Write
<1>3. flock[d] = r
  BY <1>2 DEF Locks, Locked
<1>4. /\ pc' = [pc EXCEPT ![r] = pc'[r]] /\ pc'[r] \in {"wrote", "writing"}
      /\ pc'[r] = "wrote" <=> whole
  BY <1>0, <1>1 DEF Go
<1>5. \A i \in 1..Len(s) : i # Len(s) => s[i].whole
  BY <1>0 DEF Contents, LastOnly
<1> HIDE DEF d, s
<1>6. CASE pc[r] = "write"
  <2> DEFINE x == Row(r, whole)
  <2>1. Len(s) = start[r] /\ ~Damaged(s)
    BY <1>0, <1>6 DEF Contents, AtWork
  <2>2. x \in RowSet
    BY DEF Row, RowSet
  <2>3. Append(s, x) \in Seq(RowSet)
    BY <1>0, <2>2, RowAppended
  <2>4. t = Append(s, x) /\ \A e \in Days \ {d} : file'[e] = file[e]
    BY <1>0, <1>1, <1>6, <2>3, RowsSet
  <2>5. ASSUME NEW i \in 1..Len(s) PROVE s[i].whole
    <3>1. CASE i # Len(s) BY <1>5, <3>1
    <3>2. CASE i = Len(s)
      <4>1. s # <<>> /\ Last(s) = s[i]
        BY <1>0, <3>2 DEF Last
      <4>2. QED BY <2>1, <4>1 DEF Damaged
    <3>3. QED BY <3>1, <3>2
  <2> HIDE DEF x, t
  <2>6. /\ t # <<>> /\ Len(t) = start[r] + 1 /\ Last(t) = x /\ t[Len(t)] = x
        /\ \A i \in 1..start[r] : t[i] = s[i]
    BY <1>0, <2>1, <2>2, <2>4, RowAppended
  <2>7. x = Row(r, pc'[r] = "wrote")
    BY <1>4 DEF x
  <2>8. QED
    BY <1>0, <1>2, <1>3, <1>4, <2>1, <2>4, <2>5, <2>6, <2>7 DEF d, s, t
<1>7. CASE pc[r] = "writing"
  <2> DEFINE x == Row(r, TRUE)
             f == Front(s)
  <2>1. Len(s) = start[r] + 1 /\ Last(s) = Row(r, FALSE)
    BY <1>0, <1>7 DEF Contents, AtWork
  <2>2. s # <<>>
    BY <1>0, <2>1
  <2>3. f \in Seq(RowSet) /\ Len(f) = start[r] /\ \A i \in 1..start[r] : f[i] = s[i]
    BY <1>0, <2>1, <2>2, RowCutOff
  <2>4. Append(f, x) \in Seq(RowSet)
    BY <1>0, <2>3, RowAppended
  <2>5. t = Append(f, x) /\ \A e \in Days \ {d} : file'[e] = file[e]
    BY <1>0, <1>1, <1>7, <2>1, <2>2, <2>4, RowsSet
  <2>6. \A i \in 1..start[r] : s[i].whole
    BY <1>0, <1>5, <2>1
  <2>7. x \in RowSet BY <1>0
  <2>8. pc'[r] = "wrote" /\ Damaged(s)
    <3>1. pc'[r] = "wrote" BY <1>1, <1>4, <1>7
    <3>2. Last(s).whole = FALSE BY <2>1 DEF Row
    <3>3. QED BY <2>2, <3>1, <3>2 DEF Damaged
  <2> HIDE DEF x, t, f
  <2>9. /\ t # <<>> /\ Len(t) = start[r] + 1 /\ Last(t) = x /\ t[Len(t)] = x
        /\ \A i \in 1..start[r] : t[i] = f[i]
    BY <1>0, <2>3, <2>5, <2>7, RowAppended
  <2>10. x = Row(r, pc'[r] = "wrote")
    BY <2>8 DEF x
  <2>11. QED
    BY <1>0, <1>2, <1>3, <1>4, <1>7, <2>1, <2>3, <2>5, <2>6, <2>8, <2>9, <2>10 DEF d, s, t
<1>8. QED BY <1>2, <1>6, <1>7

LEMMA ContentsStep ==
  TypeOK /\ TypeOK' /\ Locks /\ Locks' /\ Results /\ Contents /\ [Next]_vars => Contents'
<1> SUFFICES ASSUME TypeOK, TypeOK', Locks, Locks', Results, Contents, [Next]_vars
             PROVE  Contents'
  OBVIOUS
<1>0. /\ None \notin Records /\ day \in [Records -> Days]
      /\ faults \in Nat /\ faults' \in Nat /\ start \in [Records -> Nat]
      /\ pc \in [Records -> {"new", "mutex", "open", "chmod", "wait", "flock", "tail",
                            "write", "writing", "wrote", "recover", "ended"}]
      /\ result \in [Records -> {"none", "ok", "refused", "lost"}]
  BY AuditAssumption DEF TypeOK
<1>a. \A r \in Records : /\ Rows(r) = file[day[r]].rows /\ day[r] \in Days
                         /\ Rows(r) \in Seq(RowSet) /\ Len(Rows(r)) \in Nat
  BY <1>0, FileFacts DEF Rows
<1>1. CASE UNCHANGED <<file, pc, day, start, flock, result, faults>>
  BY <1>1 DEF Contents, LastOnly, AtWork, Rows, Left, Once
<1>2. CASE Midnight \/ (\E r \in Records : Expire(r)) \/ UNCHANGED vars
  BY <1>1, <1>2 DEF Midnight, Expire, vars
<1>3. ASSUME NEW r \in Records, Begin(r) \/ TakeMutex(r) \/ WaitPrivate(r) PROVE Contents'
  <2>1. /\ pc[r] \in {"new", "mutex", "wait"} /\ pc'[r] \in {"mutex", "open", "flock"}
        /\ \A q \in Records \ {r} : pc'[q] = pc[q] /\ day'[q] = day[q]
        /\ UNCHANGED <<file, flock, start, result, faults>>
    <3>1. CASE Begin(r) BY <1>0, <3>1 DEF Begin, Go
    <3>2. CASE TakeMutex(r) BY <1>0, <3>2 DEF TakeMutex, Go
    <3>3. CASE WaitPrivate(r) BY <1>0, <3>3 DEF WaitPrivate, Go
    <3>4. QED BY <1>3, <3>1, <3>2, <3>3
  <2>2. QED BY <2>1, PassiveStep
<1>4. ASSUME NEW r \in Records, Open(r) \/ Chmod(r) PROVE Contents'
  <2>1. \A d \in Days : file'[d].rows = file[d].rows
    <3>1. CASE \E m \in {"made", "private"} : file' = [file EXCEPT ![day[r]].mode = m]
      BY <1>0, <3>1, ModeSet
    <3>2. CASE file' = file BY <3>2
    <3>3. QED BY <1>4, <3>1, <3>2 DEF Open, Chmod
  <2>2. /\ pc[r] \in {"open", "chmod"} /\ pc'[r] \in {"chmod", "wait", "flock"}
        /\ \A q \in Records \ {r} : pc'[q] = pc[q] /\ day'[q] = day[q]
        /\ UNCHANGED <<flock, start, result, faults>>
    <3>1. CASE Open(r) BY <1>0, <3>1 DEF Open, Go
    <3>2. CASE Chmod(r) BY <1>0, <3>2 DEF Chmod, Go
    <3>3. QED BY <1>4, <3>1, <3>2
  <2>3. QED BY <2>1, <2>2, PassiveStep
<1>5. ASSUME NEW r \in Records, TakeFlock(r) PROVE Contents'
  <2>1. /\ pc[r] = "flock" /\ pc'[r] = "tail"
        /\ \A q \in Records \ {r} : pc'[q] = pc[q] /\ day'[q] = day[q]
        /\ UNCHANGED <<file, start, result, faults>>
        /\ \A d \in Days : flock[d] # None => flock'[d] = flock[d]
    BY <1>0, <1>5 DEF TakeFlock, Go, Free, TypeOK
  <2>2. QED BY <2>1, PassiveStep
<1>6. ASSUME NEW r \in Records, CheckTail(r) PROVE Contents'
  <2>1. /\ pc[r] = "tail" /\ pc' = [pc EXCEPT ![r] = "write"] /\ ~Damaged(Rows(r))
        /\ start' = [start EXCEPT ![r] = Len(Rows(r))]
        /\ UNCHANGED <<file, day, flock, result, faults>>
    BY <1>6 DEF CheckTail, Go, GoodTail
  <2>2. \A q \in Records \ {r} : AtWork(q)'
    BY <1>0, <2>1, OthersKept
  <2>3. AtWork(r)'
    BY <1>0, <2>1 DEF AtWork, Rows
  <2>4. \A d \in Days : Left(d)'
    BY <1>0, <2>1, FileFacts DEF Contents, Left, Damaged
  <2>5. LastOnly' /\ Once'
    <3>1. LastOnly' BY <2>1 DEF Contents, LastOnly
    <3>2. ASSUME NEW d \in Days, NEW i \in 1..Len(file[d].rows), file[d].rows[i].whole
          PROVE  pc'[file[d].rows[i].by] \in {"wrote", "recover", "ended"}
      <4>1. file[d].rows[i].by \in Records
        BY FileFacts DEF RowSet
      <4>2. QED BY <1>0, <2>1, <3>2, <4>1 DEF Contents, Once
    <3>3. QED BY <2>1, <3>1, <3>2 DEF Once
  <2>6. QED BY <2>2, <2>3, <2>4, <2>5 DEF Contents
<1>7. ASSUME NEW r \in Records, Write(r) PROVE Contents'
  <2> DEFINE d == day[r]
             s == file[d].rows
             t == file'[d].rows
  <2>1. /\ d \in Days /\ pc[r] \in {"write", "writing"} /\ flock[d] = r
        /\ pc' = [pc EXCEPT ![r] = pc'[r]] /\ pc'[r] \in {"wrote", "writing"}
        /\ UNCHANGED <<day, start, flock, result, faults>>
        /\ \A e \in Days \ {d} : file'[e] = file[e]
        /\ Len(t) = start[r] + 1 /\ t # <<>> /\ Last(t) = Row(r, pc'[r] = "wrote")
        /\ t[Len(t)] = Last(t) /\ start[r] \in Nat
        /\ \A i \in 1..start[r] : t[i] = s[i] /\ s[i].whole
        /\ Len(s) = start[r] \/ Len(s) = start[r] + 1
    BY <1>7, WriteStep
  <2> HIDE DEF d, s, t
  <2>2. \A q \in Records \ {r} : pc'[q] = pc[q]
    BY <1>0, <2>1
  <2>3. /\ \A q \in Records \ {r} : AtWork(q)'
        /\ \A e \in Days \ {d} : Left(e)'
    BY <1>0, <2>1, <2>2, OthersKept DEF Locked, d
  <2>4. AtWork(r)'
    <3>1. Rows(r)' = t
      BY <2>1 DEF Rows, d, t
    <3>2. (pc'[r] = "wrote") = TRUE \/ (pc'[r] = "wrote") = FALSE
      OBVIOUS
    <3>3. QED BY <2>1, <3>1, <3>2 DEF AtWork
  <2>5. ASSUME NEW e \in Days, e = d PROVE Left(e)'
    <3>1. Last(t).by = r /\ Last(t).whole = (pc'[r] = "wrote")
      BY <2>1, RowFields
    <3>2. file'[e].rows = t /\ flock'[e] = r
      BY <2>1, <2>5 DEF t
    <3>3. QED BY <2>1, <3>1, <3>2 DEF Left, Damaged
  <2>6. LastOnly'
    <3>1. ASSUME NEW i \in 1..Len(t), ~t[i].whole PROVE i = Len(t)
      BY <2>1, <3>1
    <3>2. ASSUME NEW e \in Days, NEW i \in 1..Len(file'[e].rows), ~file'[e].rows[i].whole
          PROVE  i = Len(file'[e].rows)
      <4>1. CASE e = d BY <3>1, <3>2, <4>1 DEF t
      <4>2. CASE e # d
        <5>1. file'[e] = file[e] BY <2>1, <4>2
        <5>2. QED BY <3>2, <5>1 DEF Contents, LastOnly
      <4>3. QED BY <4>1, <4>2
    <3>3. QED BY <3>2 DEF LastOnly
  <2>7. Once'
    <3>1. ASSUME NEW e \in Days, NEW i \in 1..Len(file[e].rows), file[e].rows[i].whole
          PROVE  pc'[file[e].rows[i].by] \in {"wrote", "recover", "ended"}
      <4>1. file[e].rows[i].by \in Records
        BY FileFacts DEF RowSet
      <4>2. pc[file[e].rows[i].by] \in {"wrote", "recover", "ended"}
        BY <3>1 DEF Contents, Once
      <4>3. file[e].rows[i].by # r
        BY <2>1, <4>2
      <4>4. QED BY <2>2, <4>1, <4>2, <4>3
    <3>2. ASSUME NEW i \in 1..Len(t), t[i].whole
          PROVE  pc'[t[i].by] \in {"wrote", "recover", "ended"}
      <4>1. CASE i \in 1..start[r]
        <5>1. i \in 1..Len(s) /\ t[i] = s[i]
          BY <2>1, <4>1
        <5>2. QED BY <2>1, <3>1, <3>2, <5>1 DEF s
      <4>2. CASE i \notin 1..start[r]
        <5>1. i = Len(t)
          BY <2>1, <4>2
        <5>2. t[i].by = r /\ t[i].whole = (pc'[r] = "wrote")
          BY <2>1, <5>1, RowFields
        <5>3. QED BY <3>2, <5>2
      <4>3. QED BY <4>1, <4>2
    <3>3. ASSUME NEW e \in Days, NEW i \in 1..Len(file'[e].rows), file'[e].rows[i].whole
          PROVE  pc'[file'[e].rows[i].by] \in {"wrote", "recover", "ended"}
      <4>1. CASE e = d BY <3>2, <3>3, <4>1 DEF t
      <4>2. CASE e # d BY <2>1, <3>1, <3>3, <4>2
      <4>3. QED BY <4>1, <4>2
    <3>4. QED BY <3>3 DEF Once
  <2>8. QED
    <3>1. \A q \in Records : AtWork(q)' BY <2>3, <2>4
    <3>2. \A e \in Days : Left(e)' BY <2>3, <2>5
    <3>3. QED BY <2>6, <2>7, <3>1, <3>2 DEF Contents
<1>8. ASSUME NEW r \in Records, WriteFails(r) PROVE Contents'
  <2>1. /\ pc[r] \in {"write", "writing", "wrote"} /\ pc' = [pc EXCEPT ![r] = "recover"]
        /\ UNCHANGED <<file, day, start, flock, result>>
        /\ faults' = faults + 1 \/ (pc[r] = "write" /\ faults' = faults)
    BY <1>8 DEF WriteFails, Go
  <2>2. faults' >= faults /\ (pc[r] # "write" => faults' > 0)
    BY <1>0, <2>1
  <2>3. /\ \A q \in Records \ {r} : AtWork(q)'
        /\ \A e \in Days \ {day[r]} : Left(e)'
    BY <1>0, <2>1, <2>2, OthersKept
  <2>4. AtWork(r)'
    <3>1. Rows(r)' = Rows(r) /\ start'[r] = start[r] /\ pc'[r] = "recover"
      BY <1>0, <2>1 DEF Rows
    <3>2. AtWork(r) BY DEF Contents
    <3>3. QED BY <2>1, <2>2, <3>1, <3>2 DEF AtWork
  <2>5. ASSUME NEW e \in Days, e = day[r] PROVE Left(e)'
    <3>1. Left(e) BY DEF Contents
    <3>2. faults > 1 => faults' > 1 BY <1>0, <2>2
    <3>3. Damaged(file[e].rows) => Last(file[e].rows).by \in Records
      BY FileFacts DEF Damaged
    <3>4. QED BY <1>0, <2>1, <3>1, <3>2, <3>3 DEF Left
  <2>6. LastOnly' BY <2>1 DEF Contents, LastOnly
  <2>7. Once'
    <3>1. ASSUME NEW d \in Days, NEW i \in 1..Len(file[d].rows), file[d].rows[i].whole
          PROVE  pc'[file[d].rows[i].by] \in {"wrote", "recover", "ended"}
      <4>1. file[d].rows[i].by \in Records
        BY FileFacts DEF RowSet
      <4>2. QED BY <1>0, <2>1, <3>1, <4>1 DEF Contents, Once
    <3>2. QED BY <2>1, <3>1 DEF Once
  <2>8. QED
    <3>1. \A q \in Records : AtWork(q)' BY <2>3, <2>4
    <3>2. \A e \in Days : Left(e)' BY <2>3, <2>5
    <3>3. QED BY <2>6, <2>7, <3>1, <3>2 DEF Contents
<1>9. ASSUME NEW r \in Records, RecoverFails(r) PROVE Contents'
  <2>1. /\ pc[r] = "recover" /\ End(r, "refused") /\ faults' = faults + 1
        /\ UNCHANGED <<file, day, start>>
    BY <1>9 DEF RecoverFails
  <2>2. Damaged(Rows(r)) => faults' > 1
    <3>1. AtWork(r) BY DEF Contents
    <3>2. CASE ~Damaged(Rows(r)) BY <3>2
    <3>3. CASE Last(Rows(r)) = Row(r, TRUE)
      BY <3>3, RowFields DEF Damaged
    <3>4. CASE faults > 0 BY <1>0, <2>1, <3>4
    <3>5. QED BY <2>1, <3>1, <3>2, <3>3, <3>4 DEF AtWork
  <2>3. faults' >= faults BY <1>0, <2>1
  <2>4. QED BY <1>0, <2>1, <2>2, <2>3, EndStep
<1>10. ASSUME NEW r \in Records, Recover(r) PROVE Contents'
  <2>1. /\ pc[r] = "recover" /\ End(r, "refused")
        /\ file' = [file EXCEPT ![day[r]].rows = Repaired(r)]
        /\ UNCHANGED <<day, start, faults>>
    BY <1>10 DEF Recover
  <2>2. /\ file'[day[r]].rows = Repaired(r)
        /\ \A e \in Days \ {day[r]} : file'[e] = file[e]
    BY <1>0, <2>1, RepairedTyped, RowsSet
  <2>3. CASE ~(Len(Rows(r)) = start[r] + 1 /\ Last(Rows(r)) = Row(r, FALSE))
    <3>1. \A e \in Days : file'[e].rows = file[e].rows
      BY <1>a, <2>2, <2>3 DEF Repaired
    <3>2. ~Damaged(Rows(r))
      <4>1. AtWork(r) BY DEF Contents
      <4>2. Last(Rows(r)) = Row(r, TRUE) => ~Damaged(Rows(r))
        BY RowFields DEF Damaged
      <4>3. QED BY <2>1, <2>3, <4>1, <4>2 DEF AtWork
    <3>3. faults' >= faults BY <1>0, <2>1
    <3>4. QED BY <1>0, <2>1, <3>1, <3>2, <3>3, EndStep
  <2>4. CASE Len(Rows(r)) = start[r] + 1 /\ Last(Rows(r)) = Row(r, FALSE)
    <3> DEFINE d == day[r]
               s == file[d].rows
               t == Front(s)
    <3>0. /\ d \in Days /\ s \in Seq(RowSet) /\ s # <<>> /\ start[r] = Len(s) - 1 /\ Len(s) \in Nat
          /\ s = Rows(r)
      BY <1>0, <1>a, <2>4
    <3>1. /\ t = SubSeq(s, 1, start[r]) /\ t \in Seq(RowSet) /\ Len(t) = Len(s) - 1
          /\ \A i \in 1..(Len(s) - 1) : t[i] = s[i]
      BY <3>0, RowCutOff
    <3>2. file'[d].rows = t
      BY <2>2, <2>4, <3>0, <3>1 DEF Repaired
    <3>3. /\ pc' = [pc EXCEPT ![r] = "ended"] /\ result' = [result EXCEPT ![r] = "refused"]
          /\ Release(r)
      BY <2>1 DEF End, Go
    <3>4. \A e \in Days : flock'[e] = (IF e = day[r] /\ flock[e] = r THEN None ELSE flock[e])
      BY <3>3, ReleaseTyped
    <3> HIDE DEF d, s, t
    <3>5. /\ \A q \in Records \ {r} : AtWork(q)'
          /\ \A e \in Days \ {d} : Left(e)'
      BY <1>0, <2>1, <2>2, <3>3, <3>4, OthersKept DEF d, Locked
    <3>6. \A i \in 1..Len(t) : t[i].whole
      <4>1. \A i \in 1..Len(s) : ~s[i].whole => i = Len(s)
        BY <3>0 DEF Contents, LastOnly, s
      <4>2. QED BY <3>0, <3>1, <4>1
    <3>7. ASSUME NEW e \in Days, e = d PROVE Left(e)'
      <4>1. ~Damaged(t) BY <3>1, <3>6, NotDamaged
      <4>2. file'[e].rows = t BY <3>2, <3>7
      <4>3. QED BY <4>1, <4>2 DEF Left
    <3>8. LastOnly'
      <4>1. ASSUME NEW e \in Days, NEW i \in 1..Len(file'[e].rows), ~file'[e].rows[i].whole
            PROVE  i = Len(file'[e].rows)
        <5>1. CASE e = d BY <3>2, <3>6, <4>1, <5>1
        <5>2. CASE e # d BY <2>2, <4>1, <5>2 DEF d, Contents, LastOnly
        <5>3. QED BY <5>1, <5>2
      <4>2. QED BY <4>1 DEF LastOnly
    <3>9. Once'
      <4>1. ASSUME NEW e \in Days, NEW i \in 1..Len(file[e].rows), file[e].rows[i].whole
            PROVE  pc'[file[e].rows[i].by] \in {"wrote", "recover", "ended"}
        <5>1. file[e].rows[i].by \in Records
          BY FileFacts DEF RowSet
        <5>2. QED BY <1>0, <3>3, <4>1, <5>1 DEF Contents, Once
      <4>2. ASSUME NEW e \in Days, NEW i \in 1..Len(file'[e].rows), file'[e].rows[i].whole
            PROVE  pc'[file'[e].rows[i].by] \in {"wrote", "recover", "ended"}
        <5>1. CASE e = d
          <6>1. i \in 1..Len(s) /\ t[i] = s[i]
            BY <3>0, <3>1, <3>2, <4>2, <5>1
          <6>2. QED BY <3>0, <3>2, <4>1, <4>2, <5>1, <6>1 DEF s
        <5>2. CASE e # d BY <2>2, <4>1, <4>2, <5>2 DEF d
        <5>3. QED BY <5>1, <5>2
      <4>3. QED BY <4>2 DEF Once
    <3>10. AtWork(r)' BY <1>0, <3>3 DEF AtWork
    <3>11. QED
      <4>1. \A q \in Records : AtWork(q)' BY <3>5, <3>10
      <4>2. \A e \in Days : Left(e)' BY <3>5, <3>7
      <4>3. QED BY <3>8, <3>9, <4>1, <4>2 DEF Contents
  <2>5. QED BY <2>3, <2>4
<1>11. ASSUME NEW r \in Records, Finish(r) PROVE Contents'
  <2>1. /\ pc[r] = "wrote" /\ \E how \in {"ok", "refused"} : End(r, how)
        /\ UNCHANGED <<file, day, start, faults>>
    BY <1>11 DEF Finish
  <2>2. faults' >= faults BY <1>0, <2>1
  <2>3. QED BY <1>0, <2>1, <2>2, EndStep
<1>12. ASSUME NEW r \in Records, GiveUp(r) PROVE Contents'
  <2>1. /\ pc[r] \in {"new", "mutex", "open", "chmod", "wait", "flock", "tail"}
        /\ End(r, "refused") /\ UNCHANGED <<file, day, start>>
        /\ faults' = faults \/ faults' = faults + 1
    BY <1>12 DEF GiveUp
  <2>2. faults' >= faults BY <1>0, <2>1
  <2>3. QED BY <1>0, <2>1, <2>2, EndStep
<1>13. ASSUME NEW p \in Processes, Die(p) PROVE Contents'
  <2> DEFINE gone == {r \in Records : Owner[r] = p /\ pc[r] \notin {"new", "ended"}}
  <2>1. /\ pc' = [r \in Records |-> IF r \in gone THEN "ended" ELSE pc[r]]
        /\ result' = [r \in Records |-> IF r \in gone THEN "lost" ELSE result[r]]
        /\ flock' = [d \in Days |-> IF flock[d] \in gone THEN None ELSE flock[d]]
        /\ UNCHANGED <<file, day, start, faults>>
    BY <1>13 DEF Die
  <2>2. \A q \in gone : pc[q] # "ended"
    OBVIOUS
  <2> HIDE DEF gone
  <2>3. LastOnly' BY <2>1 DEF Contents, LastOnly
  <2>4. ASSUME NEW q \in Records PROVE AtWork(q)'
    BY <2>1 DEF Contents, AtWork, Rows
  <2>5. ASSUME NEW d \in Days PROVE Left(d)'
    <3> DEFINE q == Last(file[d].rows).by
    <3> SUFFICES ASSUME Damaged(file[d].rows)
                 PROVE  \/ flock'[d] = q /\ pc'[q] \in {"writing", "recover"}
                        \/ result'[q] = "lost"
                        \/ result'[q] = "refused" /\ faults > 1
      BY <2>1 DEF Left
    <3>1. q \in Records BY FileFacts DEF Damaged
    <3>2. \/ flock[d] = q /\ pc[q] \in {"writing", "recover"}
          \/ result[q] = "lost"
          \/ result[q] = "refused" /\ faults > 1
      BY DEF Contents, Left
    <3>3. CASE q \in gone BY <2>1, <3>1, <3>3
    <3>4. CASE q \notin gone BY <2>1, <3>1, <3>2, <3>4
    <3>5. QED BY <3>3, <3>4
  <2>6. Once'
    <3>1. ASSUME NEW d \in Days, NEW i \in 1..Len(file[d].rows), file[d].rows[i].whole
          PROVE  pc'[file[d].rows[i].by] \in {"wrote", "recover", "ended"}
      <4>1. file[d].rows[i].by \in Records
        BY FileFacts DEF RowSet
      <4>2. QED BY <2>1, <3>1, <4>1 DEF Contents, Once
    <3>2. QED BY <2>1, <3>1 DEF Once
  <2>7. QED BY <2>3, <2>4, <2>5, <2>6 DEF Contents
<1>14. QED
  BY <1>2, <1>3, <1>4, <1>5, <1>6, <1>7, <1>8, <1>9, <1>10, <1>11, <1>12, <1>13
     DEF Next, Step, Done

LEMMA InitIInv == Init => IInv
<1> SUFFICES ASSUME Init PROVE IInv
  OBVIOUS
<1> USE AuditAssumption DEF Init
<1>1. TypeOK
  <2>1. file \in [Days -> [mode : {"absent", "made", "private"},
                          rows : Seq([by : Records, whole : BOOLEAN])]]
    OBVIOUS
  <2>2. today \in Days /\ day \in [Records -> Days] /\ faults \in 0..MaxFaults
    BY DEF Days
  <2>3. \A r \in Records : mutex[Owner[r]] = r => pc[r] \notin {"new", "mutex", "ended"}
    OBVIOUS
  <2>4. QED BY <2>1, <2>2, <2>3 DEF TypeOK
<1>2. Locks /\ Results
  BY DEF Locks, Results, Locked
<1>3. Contents
  BY DEF Contents, LastOnly, AtWork, Left, Once, Damaged
<1>4. QED BY <1>1, <1>2, <1>3 DEF IInv

LEMMA Inductive == Spec => []IInv
<1>1. IInv /\ [Next]_vars => IInv'
  BY TypeStep, LocksStep, ContentsStep DEF IInv
<1>2. QED BY InitIInv, <1>1, PTL DEF Spec

\* record() keeps its locks, files and results in their domains, and a process's
\* thread lock belongs to no record that has not taken it or has ended.
THEOREM LogTyped == Spec => []TypeOK
<1>1. IInv => TypeOK BY DEF IInv
<1>2. QED BY Inductive, <1>1, PTL

\* However many processes append to one file, and wherever they fail or die, an
\* incomplete row is the last of its file, and there is always a death or a second
\* fault that accounts for it once its record no longer holds the lock.
THEOREM DamageStaysContained == Spec => []DamageContained
<1>1. IInv => DamageContained
  <2> SUFFICES ASSUME IInv PROVE DamageContained
    OBVIOUS
  <2>1. ASSUME NEW d \in Days, NEW i \in DOMAIN file[d].rows, ~file[d].rows[i].whole
        PROVE  i = Len(file[d].rows)
    <3>1. DOMAIN file[d].rows = 1..Len(file[d].rows)
      <4>1. file[d].rows \in Seq(RowSet) BY FileFacts DEF IInv
      <4>2. QED BY <4>1
    <3>2. QED BY <2>1, <3>1 DEF IInv, Contents, LastOnly
  <2>2. QED BY <2>1 DEF IInv, Contents, Left, DamageContained
<1>2. QED BY Inductive, <1>1, PTL

-----------------------------------------------------------------------------
(* The log is an AuditTrail. *)

WholeRows(s) == IF Damaged(s) THEN Len(s) - 1 ELSE Len(s)

LEMMA WholeFacts ==
  ASSUME NEW s \in Seq(RowSet)
  PROVE  /\ WholeRows(s) \in Nat /\ Whole(s) \in Seq(Records) /\ Len(Whole(s)) = WholeRows(s)
         /\ DOMAIN Whole(s) = 1..WholeRows(s)
         /\ \A i \in 1..WholeRows(s) : i \in 1..Len(s) /\ Whole(s)[i] = s[i].by
         /\ Whole(s) = [i \in 1..WholeRows(s) |-> s[i].by]
<1>1. WholeRows(s) \in Nat /\ \A i \in 1..WholeRows(s) : i \in 1..Len(s)
  <2>1. s # <<>> => Len(s) - 1 \in Nat
    OBVIOUS
  <2>2. QED BY <2>1 DEF WholeRows, Damaged
<1>2. \A i \in 1..Len(s) : s[i].by \in Records
  <2>1. \A i \in 1..Len(s) : s[i] \in RowSet
    OBVIOUS
  <2>2. \A x \in RowSet : x.by \in Records
    BY DEF RowSet
  <2>3. QED BY <2>1, <2>2
<1>3. Whole(s) = [i \in 1..WholeRows(s) |-> s[i].by]
  BY DEF Whole, WholeRows
<1>4. Whole(s) \in [1..WholeRows(s) -> Records]
  BY <1>1, <1>2, <1>3
<1>5. Whole(s) \in Seq(Records) /\ Len(Whole(s)) = WholeRows(s)
  BY <1>1, <1>4
<1>6. QED BY <1>1, <1>3, <1>5

\* What a reader of the log has seen is whole.
LEMMA SeenIsWhole ==
  ASSUME TypeOK, LastOnly, NEW d \in Days, NEW i \in 1..WholeRows(file[d].rows)
  PROVE  i \in 1..Len(file[d].rows) /\ file[d].rows[i].whole
<1> DEFINE s == file[d].rows
<1>1. s \in Seq(RowSet) /\ Len(s) \in Nat
  BY FileFacts
<1>2. i \in 1..Len(s)
  BY <1>1, WholeFacts
<1>3. CASE i # Len(s)
  BY <1>2, <1>3 DEF LastOnly
<1>4. CASE i = Len(s)
  <2>1. ~Damaged(s)
    BY <1>1, <1>2, <1>4 DEF WholeRows
  <2>2. s # <<>> /\ Last(s) = s[i]
    BY <1>1, <1>2, <1>4 DEF Last
  <2>3. QED BY <1>2, <2>1, <2>2 DEF Damaged
<1>5. QED BY <1>2, <1>3, <1>4

LEMMA TrailInit == Init => Trail!Init
<1> SUFFICES ASSUME Init PROVE Trail!Init
  OBVIOUS
<1>1. Whole(<<>>) = <<>>
  BY DEF Whole, Damaged
<1>2. \A d \in Days : Whole(file[d].rows) = <<>>
  BY <1>1 DEF Init
<1>3. QED BY <1>2 DEF Init, Trail!Init, Trail!Days, Days

\* Steps that change neither a result nor what a reader of a file gets.
LEMMA TrailStutters ==
  ASSUME result' = result, \A d \in Days : Whole(file[d].rows)' = Whole(file[d].rows)
  PROVE  UNCHANGED Trail!vars
  BY DEF Trail!vars

LEMMA TrailRefuses ==
  ASSUME TypeOK, Results, NEW r \in Records, pc[r] # "ended", result' = [result EXCEPT ![r] = "refused"],
         \A d \in Days : Whole(file[d].rows)' = Whole(file[d].rows)
  PROVE  Trail!Next
<1>1. result[r] = "none" BY DEF Results
<1>2. Trail!Refuse(r) BY <1>1 DEF Trail!Refuse
<1>3. QED BY <1>2 DEF Trail!Next

\* A write(2) that completes the line enters its record; one that does not cannot
\* be told from nothing.
LEMMA TrailWrites ==
  ASSUME IInv, NEW r \in Records, Write(r)
  PROVE  Trail!Next \/ UNCHANGED Trail!vars
<1> DEFINE d == day[r]
           s == file[d].rows
           t == file'[d].rows
<1>1. /\ d \in Days /\ pc[r] \in {"write", "writing"} /\ pc'[r] \in {"wrote", "writing"}
      /\ UNCHANGED <<day, result>>
      /\ \A e \in Days \ {d} : file'[e] = file[e]
      /\ Len(t) = start[r] + 1 /\ t # <<>> /\ Last(t) = Row(r, pc'[r] = "wrote")
      /\ t[Len(t)] = Last(t) /\ start[r] \in Nat
      /\ \A i \in 1..start[r] : t[i] = s[i]
      /\ \/ Len(s) = start[r] /\ ~Damaged(s)
         \/ pc[r] = "writing" /\ pc'[r] = "wrote" /\ Damaged(s) /\ Len(s) = start[r] + 1
  BY WriteStep DEF IInv
<1>2. s \in Seq(RowSet) /\ t \in Seq(RowSet)
  <2>1. TypeOK' /\ day' = day
    BY <1>1, TypeStep DEF IInv, Next, Step
  <2>2. QED BY <1>1, <2>1, FileFacts DEF IInv, TypeOK, RowSet
<1> HIDE DEF d, s, t
<1>3. WholeRows(s) = start[r]
  BY <1>1 DEF WholeRows
<1>4. Whole(s) = [i \in 1..start[r] |-> s[i].by]
  BY <1>2, <1>3, WholeFacts
<1>5. CASE pc'[r] = "writing"
  <2>1. Damaged(t)
    BY <1>1, <1>5, RowFields DEF Damaged
  <2>2. WholeRows(t) = start[r]
    BY <1>1, <2>1 DEF WholeRows
  <2>3. Whole(t) = [i \in 1..start[r] |-> t[i].by]
    BY <1>2, <2>2, WholeFacts
  <2>4. Whole(t) = Whole(s)
    BY <1>1, <1>4, <2>3
  <2>5. \A e \in Days : Whole(file'[e].rows) = Whole(file[e].rows)
    BY <1>1, <2>4 DEF s, t
  <2>6. QED BY <1>1, <2>5, TrailStutters
<1>6. CASE pc'[r] = "wrote"
  <2>1. ~Damaged(t) /\ t[Len(t)].by = r
    <3>1. Last(t) = Row(r, TRUE) /\ t[Len(t)] = Last(t) BY <1>1, <1>6
    <3>2. Last(t).by = r /\ Last(t).whole = TRUE BY <3>1 DEF Row
    <3>3. QED BY <3>1, <3>2 DEF Damaged
  <2>2. WholeRows(t) = start[r] + 1
    BY <1>1, <2>1 DEF WholeRows
  <2>3. Whole(t) = [i \in 1..(start[r] + 1) |-> t[i].by]
    BY <1>2, <2>2, WholeFacts
  <2>4. Whole(t) = Append(Whole(s), r)
    <3>1. Whole(s) \in Seq(Records) /\ Len(Whole(s)) = start[r]
      BY <1>2, <1>3, WholeFacts
    <3>2. /\ Append(Whole(s), r) \in Seq(Records) /\ Len(Append(Whole(s), r)) = start[r] + 1
          /\ \A i \in 1..start[r] : Append(Whole(s), r)[i] = Whole(s)[i]
          /\ Append(Whole(s), r)[start[r] + 1] = r
      BY <3>1
    <3>3. Whole(t) \in Seq(Records) /\ Len(Whole(t)) = start[r] + 1
      BY <1>2, <2>2, WholeFacts
    <3>4. ASSUME NEW i \in 1..(start[r] + 1) PROVE Whole(t)[i] = Append(Whole(s), r)[i]
      <4>1. CASE i \in 1..start[r] BY <1>1, <1>4, <2>3, <3>2, <4>1
      <4>2. CASE i = start[r] + 1
        <5>1. i = Len(t) /\ i \in 1..(start[r] + 1)
          BY <1>1, <4>2
        <5>2. Whole(t)[i] = t[i].by
          BY <2>3, <5>1
        <5>3. t[i].by = r
          BY <2>1, <5>1
        <5>4. Append(Whole(s), r)[i] = r
          BY <3>2, <4>2
        <5>5. QED BY <5>2, <5>3, <5>4
      <4>3. i \in 1..start[r] \/ i = start[r] + 1
        <5>1. start[r] \in Nat BY <1>1
        <5>2. QED BY <5>1
      <4>4. QED BY <4>1, <4>2, <4>3
    <3>5. QED BY <3>2, <3>3, <3>4, SeqEqual
  <2>5. ~Trail!Listed(r)
    <3> SUFFICES ASSUME NEW e \in Days, NEW i \in DOMAIN Whole(file[e].rows),
                        Whole(file[e].rows)[i] = r
                 PROVE  FALSE
      BY DEF Trail!Listed, Trail!Days, Days
    <3>1. file[e].rows \in Seq(RowSet) /\ i \in 1..WholeRows(file[e].rows)
      BY FileFacts, WholeFacts DEF IInv
    <3>2. file[e].rows[i].whole /\ file[e].rows[i].by = r /\ i \in 1..Len(file[e].rows)
      BY <3>1, WholeFacts, SeenIsWhole DEF IInv, Contents
    <3>3. QED BY <1>1, <3>2 DEF IInv, Contents, Once
  <2>6. result[r] = "none"
    BY <1>1 DEF IInv, Results
  <2>7. [e \in Days |-> Whole(file'[e].rows)]
          = [[e \in Days |-> Whole(file[e].rows)] EXCEPT ![d] = Append(@, r)]
    BY <1>1, <2>4 DEF s, t
  <2>8. Trail!Enter(r, d)
    BY <1>1, <2>5, <2>6, <2>7 DEF Trail!Enter
  <2>9. QED BY <1>1, <2>8 DEF Trail!Next, Trail!Days, Days
<1>7. QED BY <1>1, <1>5, <1>6

LEMMA TrailStep == IInv /\ [Next]_vars => [Trail!Next]_(Trail!vars)
<1> SUFFICES ASSUME IInv, [Next]_vars PROVE Trail!Next \/ UNCHANGED Trail!vars
  OBVIOUS
<1>0. /\ TypeOK /\ Results /\ day \in [Records -> Days]
      /\ result \in [Records -> {"none", "ok", "refused", "lost"}]
  BY DEF IInv, TypeOK
<1>1. CASE UNCHANGED <<file, result>>
  BY <1>1, TrailStutters
<1>2. CASE Midnight \/ UNCHANGED vars \/ \E r \in Records : Expire(r)
  BY <1>1, <1>2 DEF Midnight, Expire, vars
<1>3. ASSUME NEW r \in Records,
             Begin(r) \/ TakeMutex(r) \/ WaitPrivate(r) \/ TakeFlock(r) \/ CheckTail(r) \/ WriteFails(r)
      PROVE  Trail!Next \/ UNCHANGED Trail!vars
  BY <1>1, <1>3 DEF Begin, TakeMutex, WaitPrivate, TakeFlock, CheckTail, WriteFails
<1>4. ASSUME NEW r \in Records, Open(r) \/ Chmod(r) PROVE Trail!Next \/ UNCHANGED Trail!vars
  <2>1. \A d \in Days : file'[d].rows = file[d].rows
    <3>1. CASE \E m \in {"made", "private"} : file' = [file EXCEPT ![day[r]].mode = m]
      BY <1>0, <3>1, ModeSet
    <3>2. CASE file' = file BY <3>2
    <3>3. QED BY <1>4, <3>1, <3>2 DEF Open, Chmod
  <2>2. result' = result
    BY <1>4 DEF Open, Chmod
  <2>3. QED BY <2>1, <2>2, TrailStutters
<1>5. ASSUME NEW r \in Records, Write(r) PROVE Trail!Next \/ UNCHANGED Trail!vars
  BY <1>5, TrailWrites
<1>6. ASSUME NEW r \in Records, GiveUp(r) \/ RecoverFails(r) PROVE Trail!Next \/ UNCHANGED Trail!vars
  <2>1. pc[r] # "ended" /\ result' = [result EXCEPT ![r] = "refused"] /\ file' = file
    BY <1>6 DEF GiveUp, RecoverFails, End
  <2>2. QED BY <1>0, <2>1, TrailRefuses
<1>7. ASSUME NEW r \in Records, Recover(r) PROVE Trail!Next \/ UNCHANGED Trail!vars
  <2> DEFINE d == day[r]
             s == file[d].rows
  <2>1. /\ pc[r] = "recover" /\ result' = [result EXCEPT ![r] = "refused"]
        /\ file' = [file EXCEPT ![d].rows = Repaired(r)]
    BY <1>7 DEF Recover, End
  <2>2. /\ file'[d].rows = Repaired(r) /\ d \in Days /\ s \in Seq(RowSet) /\ Rows(r) = s
        /\ \A e \in Days \ {d} : file'[e] = file[e]
    BY <1>0, <2>1, RepairedTyped, RowsSet, FileFacts DEF Rows
  <2> HIDE DEF d, s
  <2>3. Whole(Repaired(r)) = Whole(s)
    <3>1. CASE Len(s) = start[r] + 1 /\ Last(s) = Row(r, FALSE)
      <4> DEFINE t == Front(s)
      <4>1. s # <<>> /\ Len(s) \in Nat /\ start[r] = Len(s) - 1
        BY <1>0, <2>2, <3>1 DEF TypeOK
      <4>2. /\ t = SubSeq(s, 1, start[r]) /\ t \in Seq(RowSet) /\ Len(t) = Len(s) - 1
            /\ \A i \in 1..(Len(s) - 1) : t[i] = s[i]
        BY <2>2, <4>1, RowCutOff
      <4>3. Repaired(r) = t
        BY <2>2, <3>1, <4>2 DEF Repaired
      <4> HIDE DEF t
      <4>4. \A i \in 1..Len(t) : t[i].whole
        <5>1. \A i \in 1..Len(s) : ~s[i].whole => i = Len(s)
          BY <2>2 DEF IInv, Contents, LastOnly, s
        <5>2. QED BY <4>1, <4>2, <5>1
      <4>5. ~Damaged(t) /\ Damaged(s)
        <5>1. Last(s).whole = FALSE BY <3>1 DEF Row
        <5>2. QED BY <4>1, <4>2, <4>4, <5>1, NotDamaged DEF Damaged
      <4>6. WholeRows(t) = Len(s) - 1 /\ WholeRows(s) = Len(s) - 1
        BY <4>2, <4>5 DEF WholeRows
      <4>7. Whole(t) = [i \in 1..(Len(s) - 1) |-> t[i].by] /\ Whole(s) = [i \in 1..(Len(s) - 1) |-> s[i].by]
        BY <2>2, <4>2, <4>6, WholeFacts
      <4>8. QED BY <4>2, <4>3, <4>7
    <3>2. CASE ~(Len(s) = start[r] + 1 /\ Last(s) = Row(r, FALSE))
      BY <2>2, <3>2 DEF Repaired
    <3>3. QED BY <3>1, <3>2
  <2>4. \A e \in Days : Whole(file'[e].rows) = Whole(file[e].rows)
    BY <2>2, <2>3 DEF s
  <2>5. QED BY <1>0, <2>1, <2>4, TrailRefuses
<1>8. ASSUME NEW r \in Records, Finish(r) PROVE Trail!Next \/ UNCHANGED Trail!vars
  <2>1. /\ pc[r] = "wrote" /\ file' = file
        /\ result' = [result EXCEPT ![r] = IF r \in expired THEN "refused" ELSE "ok"]
    BY <1>8 DEF Finish, End
  <2>2. CASE r \in expired
    BY <1>0, <2>1, <2>2, TrailRefuses
  <2>3. CASE r \notin expired
    <3> DEFINE d == day[r]
               s == file[d].rows
    <3>1. /\ s \in Seq(RowSet) /\ d \in Days /\ Len(s) = start[r] + 1 /\ Last(s) = Row(r, TRUE)
          /\ start[r] \in Nat
      BY <1>0, <2>1, FileFacts DEF IInv, Contents, AtWork, Rows, TypeOK
    <3> HIDE DEF d, s
    <3>2. ~Damaged(s) /\ s[Len(s)].by = r
      BY <3>1, RowFields DEF Damaged, Last
    <3>3. WholeRows(s) = start[r] + 1
      BY <3>1, <3>2 DEF WholeRows
    <3>4. start[r] + 1 \in DOMAIN Whole(s) /\ Whole(s)[start[r] + 1] = r
      BY <3>1, <3>2, <3>3, WholeFacts
    <3>5. Trail!Listed(r)
      BY <3>1, <3>4 DEF Trail!Listed, Trail!Days, Days, s
    <3>6. result[r] = "none"
      BY <1>0, <2>1 DEF Results
    <3>7. Trail!Confirm(r)
      BY <2>1, <2>3, <3>5, <3>6 DEF Trail!Confirm
    <3>8. QED BY <3>7 DEF Trail!Next
  <2>4. QED BY <2>2, <2>3
<1>9. ASSUME NEW p \in Processes, Die(p) PROVE Trail!Next \/ UNCHANGED Trail!vars
  <2> DEFINE gone == {r \in Records : Owner[r] = p /\ pc[r] \notin {"new", "ended"}}
  <2>1. /\ gone # {} /\ file' = file
        /\ result' = [r \in Records |-> IF r \in gone THEN "lost" ELSE result[r]]
    BY <1>9 DEF Die
  <2>2. gone \in SUBSET Records /\ \A r \in gone : result[r] = "none"
    BY <1>0 DEF Results
  <2> HIDE DEF gone
  <2>3. Trail!Lose(gone)
    BY <2>1, <2>2 DEF Trail!Lose
  <2>4. QED BY <2>2, <2>3 DEF Trail!Next
<1>10. QED
  BY <1>2, <1>3, <1>4, <1>5, <1>6, <1>7, <1>8, <1>9 DEF Next, Step, Done

\* Whatever fails, and whoever dies, what readers get of the log only grows, each record
\* enters it at most once, and a record() that returns has its row there.
THEOREM LogIsTrail == Spec => ImplementsTrail
<1>1. QED BY Inductive, TrailInit, TrailStep, PTL DEF Spec, ImplementsTrail, Trail!Spec
-----------------------------------------------------------------------------
(* The middleware: AuditedCalls. *)

\* The jobs that hold a permit of _AUDIT_ADMISSION.
Busy == {c \in Calls : job[c] \in {"queued", "running", "written"}}

\* CallsTypeOK, with permits that might be too many or too few: that they are not needs Counted.
Typed ==
  /\ stage \in [Calls -> {"new", "tool", "audit", "waiting", "expiring", "begun", "ended"}]
  /\ outcome \in [Calls -> {"none"} \cup Replies]
  /\ reply \in [Calls -> {"none", "unavailable", "gave up"} \cup Replies]
  /\ admitted \subseteq Summaries /\ summaries \in Nat
  /\ audits \in Nat /\ queue \in Seq(Calls)
  /\ job \in [Calls -> {"none", "queued", "running", "written", "recorded", "failed"}]
  /\ rows \subseteq Calls /\ late \subseteq Calls
  /\ cancelled \subseteq Calls /\ shielded \subseteq cancelled

\* The executor holds each job once, and only jobs that have not begun.
QueueHolds ==
  /\ \A i \in 1..Len(queue) : job[queue[i]] = "queued"
  /\ \A i, j \in 1..Len(queue) : queue[i] = queue[j] => i = j

\* How far a call is says what its job and its row can be.
Agrees(c) ==
  /\ stage[c] \in {"new", "tool", "audit"} => job[c] = "none"
  /\ c \in Summaries /\ stage[c] = "tool" => c \in admitted
  /\ c \in admitted => stage[c] \notin {"new", "ended"}
  /\ c \in rows => job[c] \in {"written", "recorded", "failed"}
  /\ job[c] \in {"written", "recorded"} => c \in rows
  /\ stage[c] = "expiring" => c \in late /\ c \notin rows
  /\ reply[c] = "gave up" => c \in late /\ c \notin rows
  /\ reply[c] \in Replies => c \in rows

\* Each permit that is out is held by one job or one summary.
Counted ==
  /\ IsFiniteSet(Busy) /\ AuditCap - audits = Cardinality(Busy)
  /\ IsFiniteSet(admitted) /\ SummaryCap - summaries = Cardinality(admitted)

CallsInv == Typed /\ QueueHolds /\ (\A c \in Calls : Agrees(c)) /\ Counted

-----------------------------------------------------------------------------
LEMMA CallsInvInit == CallsInit => CallsInv
<1> SUFFICES ASSUME CallsInit PROVE CallsInv
  OBVIOUS
<1> USE CallsAssumption DEF CallsInit
<1>1. Typed
  <2>1. <<>> \in Seq(Calls) /\ SummaryCap \in Nat /\ AuditCap \in Nat
    OBVIOUS
  <2>2. QED BY <2>1 DEF Typed, Replies
<1>2. QueueHolds BY DEF QueueHolds
<1>3. ASSUME NEW c \in Calls PROVE Agrees(c)
  BY <1>3 DEF Agrees, Replies
<1>4. Counted
  <2>1. Busy = {} BY DEF Busy
  <2>2. SummaryCap - SummaryCap = 0 /\ AuditCap - AuditCap = 0
    <3>1. SummaryCap \in Nat /\ AuditCap \in Nat OBVIOUS
    <3>2. QED BY <3>1
  <2>3. QED BY <2>1, <2>2, FS_EmptySet DEF Counted
<1>5. QED BY <1>1, <1>2, <1>3, <1>4 DEF CallsInv

\* Steps that leave the permits and who holds them alone.
LEMMA CountedSame ==
  ASSUME Counted, UNCHANGED <<audits, summaries, admitted>>, Busy' = Busy
  PROVE  Counted'
  BY DEF Counted

\* The finally of a call gives back exactly what it held.
LEMMA GivenBack ==
  ASSUME Typed, Counted, NEW c \in Calls, Busy' = Busy, audits' = audits,
         summaries' = summaries + (IF c \in admitted THEN 1 ELSE 0),
         admitted' = admitted \ {c}
  PROVE  summaries' \in Nat /\ Counted'
<1>1. SummaryCap \in Nat /\ summaries \in Nat
  BY CallsAssumption DEF Typed
<1>2. CASE c \notin admitted
  <2>1. admitted' = admitted /\ summaries' = summaries
    BY <1>1, <1>2
  <2>2. QED BY <1>1, <2>1, CountedSame
<1>3. CASE c \in admitted
  <2>1. admitted' = admitted \ {c} /\ summaries' = summaries + 1
    BY <1>3
  <2>2. IsFiniteSet(admitted) /\ SummaryCap - summaries = Cardinality(admitted)
    BY DEF Counted
  <2>3. /\ IsFiniteSet(admitted \ {c})
        /\ Cardinality(admitted \ {c}) = Cardinality(admitted) - 1
    BY <1>3, <2>2, FS_RemoveElement
  <2>4. SummaryCap - summaries' = Cardinality(admitted \ {c})
    BY <2>1, <2>2, <2>3, <1>1
  <2>5. QED BY <1>1, <2>1, <2>3, <2>4 DEF Counted
<1>4. QED BY <1>2, <1>3

\* What a client can be told.
Told == {"unavailable", "gave up", "none"} \cup Replies

\* The end of a call, for an answer that agrees with the log.
LEMMA AnswerStep ==
  ASSUME CallsInv, NEW c \in Calls, NEW r \in Told,
         stage[c] # "ended", Answer(c, r),
         r \in Replies => c \in rows,
         r = "gave up" => c \in late /\ c \notin rows,
         UNCHANGED <<outcome, jobs, late, cancelled, shielded>>
  PROVE  CallsInv'
<1> USE DEF CallsInv, Answer, Move, Set, jobs
<1>1. Busy' = Busy /\ audits' = audits
  BY DEF Busy
<1>2. summaries' \in Nat /\ Counted'
  BY <1>1, GivenBack
<1>3. Typed'
  <2>1. reply' \in [Calls -> {"none", "unavailable", "gave up"} \cup Replies]
    BY DEF Typed, Told
  <2>2. /\ stage' \in [Calls -> {"new", "tool", "audit", "waiting", "expiring", "begun", "ended"}]
        /\ admitted' \subseteq Summaries
    BY DEF Typed
  <2>3. QED BY <1>2, <2>1, <2>2 DEF Typed
<1>4. QueueHolds'
  BY DEF QueueHolds
<1>5. ASSUME NEW d \in Calls PROVE Agrees(d)'
  <2>1. CASE d = c
    BY <2>1 DEF Typed, Agrees, Replies
  <2>2. CASE d # c
    BY <2>2 DEF Typed, Agrees, Replies
  <2>3. QED BY <2>1, <2>2
<1>6. QED BY <1>2, <1>3, <1>4, <1>5

LEMMA CallsInvInductive == CallsInv /\ [CallsNext]_callVars => CallsInv'
<1> SUFFICES ASSUME CallsInv, [CallsNext]_callVars PROVE CallsInv'
  OBVIOUS
<1> USE CallsAssumption DEF CallsInv, Move, Set, jobs
<1>0. /\ SummaryCap \in Nat /\ AuditCap \in Nat /\ summaries \in Nat /\ audits \in Nat
      /\ stage \in [Calls -> {"new", "tool", "audit", "waiting", "expiring", "begun", "ended"}]
      /\ job \in [Calls -> {"none", "queued", "running", "written", "recorded", "failed"}]
  BY DEF Typed
<1>1. ASSUME NEW c \in Calls, NoLog(c) PROVE CallsInv'
  BY <1>1, AnswerStep DEF NoLog, Told, Replies
<1>2. ASSUME NEW c \in Calls, Reject(c) PROVE CallsInv'
  <2>1. Typed' BY <1>2 DEF Reject, Typed, Replies
  <2>2. QueueHolds' BY <1>2 DEF Reject, QueueHolds
  <2>3. ASSUME NEW d \in Calls PROVE Agrees(d)'
    BY <1>2, <1>0 DEF Reject, Agrees
  <2>4. Counted'
    BY <1>2, CountedSame DEF Reject, Busy
  <2>5. QED BY <2>1, <2>2, <2>3, <2>4
<1>3. ASSUME NEW c \in Calls, Admit(c) PROVE CallsInv'
  <2>1. Typed'
    <3>1. summaries' \in Nat /\ admitted' \subseteq Summaries
      <4>1. summaries > 0 => summaries - 1 \in Nat
        BY <1>0
      <4>2. summaries' = summaries \/ (summaries > 0 /\ summaries' = summaries - 1)
        BY <1>3 DEF Admit
      <4>3. admitted' \subseteq Summaries
        BY <1>3 DEF Admit, Typed
      <4>4. QED BY <4>1, <4>2, <4>3, <1>0
    <3>2. stage' \in [Calls -> {"new", "tool", "audit", "waiting", "expiring", "begun", "ended"}]
      BY <1>3, <1>0 DEF Admit
    <3>3. QED BY <1>3, <3>1, <3>2 DEF Admit, Typed
  <2>2. QueueHolds' BY <1>3 DEF Admit, QueueHolds
  <2>3. ASSUME NEW d \in Calls PROVE Agrees(d)'
    BY <1>3, <1>0 DEF Admit, Agrees
  <2>4. Counted'
    <3>1. Busy' = Busy BY <1>3 DEF Admit, Busy
    <3>2. CASE c \notin Summaries
      BY <1>3, <3>1, <3>2, CountedSame DEF Admit
    <3>3. CASE c \in Summaries
      <4>1. c \notin admitted
        BY <1>3 DEF Admit, Agrees
      <4>2. IsFiniteSet(admitted) /\ SummaryCap - summaries = Cardinality(admitted)
        BY DEF Counted
      <4>3. /\ IsFiniteSet(admitted \cup {c})
            /\ Cardinality(admitted \cup {c}) = Cardinality(admitted) + 1
        BY <4>1, <4>2, FS_AddElement
      <4>4. admitted' = admitted \cup {c} /\ summaries' = summaries - 1 /\ audits' = audits
        BY <1>3, <3>3 DEF Admit
      <4>5. SummaryCap - summaries' = Cardinality(admitted \cup {c})
        BY <4>2, <4>3, <4>4, <1>0
      <4>6. QED BY <3>1, <4>3, <4>4, <4>5 DEF Counted
    <3>4. QED BY <3>2, <3>3
  <2>5. QED BY <2>1, <2>2, <2>3, <2>4
<1>4. ASSUME NEW c \in Calls, ToolEnds(c) PROVE CallsInv'
  <2>1. Typed' BY <1>4 DEF ToolEnds, Typed, Replies
  <2>2. QueueHolds' BY <1>4 DEF ToolEnds, QueueHolds
  <2>3. ASSUME NEW d \in Calls PROVE Agrees(d)'
    BY <1>4, <1>0 DEF ToolEnds, Agrees
  <2>4. Counted'
    BY <1>4, CountedSame DEF ToolEnds, Busy
  <2>5. QED BY <2>1, <2>2, <2>3, <2>4
<1>5. ASSUME NEW c \in Calls, Cancel(c) \/ DeadlinePasses(c) \/ SeeCancelled(c) PROVE CallsInv'
  <2>1. Typed' BY <1>5 DEF Cancel, DeadlinePasses, SeeCancelled, Typed
  <2>2. QueueHolds' BY <1>5 DEF Cancel, DeadlinePasses, SeeCancelled, QueueHolds
  <2>3. ASSUME NEW d \in Calls PROVE Agrees(d)'
    BY <1>5 DEF Cancel, DeadlinePasses, SeeCancelled, Agrees
  <2>4. Counted'
    BY <1>5, CountedSame DEF Cancel, DeadlinePasses, SeeCancelled, Busy
  <2>5. QED BY <2>1, <2>2, <2>3, <2>4
<1>6. ASSUME NEW c \in Calls, QueueFull(c) PROVE CallsInv'
  BY <1>6, AnswerStep DEF QueueFull, Told, Replies
<1>7. ASSUME NEW c \in Calls, Submit(c) PROVE CallsInv'
  <2>a. job[c] = "none"
    BY <1>7 DEF Submit, Agrees
  <2>b. /\ queue' = Append(queue, c) /\ queue \in Seq(Calls) /\ job' = [job EXCEPT ![c] = "queued"]
    BY <1>7 DEF Submit, Typed
  <2>1. Typed'
    <3>1. audits' \in Nat
      BY <1>7, <1>0 DEF Submit
    <3>2. queue' \in Seq(Calls)
      BY <2>b
    <3>3. /\ stage' \in [Calls -> {"new", "tool", "audit", "waiting", "expiring", "begun", "ended"}]
          /\ job' \in [Calls -> {"none", "queued", "running", "written", "recorded", "failed"}]
      BY <1>7, <1>0 DEF Submit
    <3>4. QED BY <1>7, <3>1, <3>2, <3>3 DEF Submit, Typed
  <2>2. QueueHolds'
    <3>1. /\ Len(queue) \in Nat /\ Len(queue') = Len(queue) + 1
          /\ \A i \in 1..Len(queue) : queue'[i] = queue[i] /\ queue[i] \in Calls
          /\ queue'[Len(queue) + 1] = c
      BY <2>b
    <3>2. \A i \in 1..Len(queue) : queue[i] # c
      BY <2>a DEF QueueHolds
    <3>3. \A i \in 1..Len(queue') : job'[queue'[i]] = "queued"
      BY <2>b, <3>1, <3>2, <1>0 DEF QueueHolds
    <3>4. \A i, j \in 1..Len(queue') : queue'[i] = queue'[j] => i = j
      BY <3>1, <3>2 DEF QueueHolds
    <3>5. QED BY <3>3, <3>4 DEF QueueHolds
  <2>3. ASSUME NEW d \in Calls PROVE Agrees(d)'
    BY <1>7, <1>0, <2>a DEF Submit, Agrees
  <2>4. Counted'
    <3>1. Busy' = Busy \cup {c} /\ c \notin Busy
      BY <2>a, <2>b, <1>0 DEF Busy
    <3>2. IsFiniteSet(Busy) /\ AuditCap - audits = Cardinality(Busy)
      BY DEF Counted
    <3>3. IsFiniteSet(Busy') /\ Cardinality(Busy') = Cardinality(Busy) + 1
      BY <3>1, <3>2, FS_AddElement
    <3>4. audits' = audits - 1 /\ UNCHANGED <<admitted, summaries>>
      BY <1>7 DEF Submit
    <3>5. AuditCap - audits' = Cardinality(Busy')
      BY <3>2, <3>3, <3>4, <1>0
    <3>6. QED BY <3>3, <3>4, <3>5 DEF Counted
  <2>5. QED BY <2>1, <2>2, <2>3, <2>4
<1>8. ASSUME NEW c \in Calls, SeeLate(c) \/ KeepWaiting(c) PROVE CallsInv'
  <2>1. Typed' BY <1>8 DEF SeeLate, KeepWaiting, Typed
  <2>2. QueueHolds' BY <1>8 DEF SeeLate, KeepWaiting, QueueHolds
  <2>3. ASSUME NEW d \in Calls PROVE Agrees(d)'
    BY <1>8, <1>0 DEF SeeLate, KeepWaiting, Agrees
  <2>4. Counted'
    BY <1>8, CountedSame DEF SeeLate, KeepWaiting, Busy
  <2>5. QED BY <2>1, <2>2, <2>3, <2>4
<1>9. ASSUME NEW c \in Calls, GiveUpJob(c) PROVE CallsInv'
  <2>1. c \in late /\ c \notin rows
    BY <1>9 DEF GiveUpJob, Agrees
  <2>2. QED BY <1>9, <2>1, AnswerStep DEF GiveUpJob, Told, Replies
<1>10. ASSUME NEW c \in Calls, Resolve(c) PROVE CallsInv'
  <2>1. Reply(c) \in Told /\ Reply(c) # "gave up"
    BY DEF Reply, Typed, Told, Replies
  <2>2. Reply(c) \in Replies => c \in rows
    BY <1>10 DEF Resolve, Reply, JobDone, Agrees, Replies
  <2>4. stage[c] # "ended" /\ Answer(c, Reply(c)) /\ UNCHANGED <<outcome, jobs, late, cancelled, shielded>>
    BY <1>10 DEF Resolve
  <2> HIDE DEF CallsInv, Move, Set, jobs
  <2>5. QED BY <2>1, <2>2, <2>4, AnswerStep
<1>11. CASE JobBegins
  <2> DEFINE c == Head(queue)
  <2>1. /\ queue \in Seq(Calls) /\ queue # <<>> /\ queue' = Tail(queue)
        /\ job' = [job EXCEPT ![c] = "running"]
        /\ UNCHANGED <<stage, outcome, reply, admitted, summaries, audits, rows, late, cancelled, shielded>>
    BY <1>11 DEF JobBegins, Typed
  <2>2. /\ Len(queue) \in Nat \ {0} /\ Len(queue') = Len(queue) - 1 /\ queue' \in Seq(Calls)
        /\ c = queue[1] /\ c \in Calls
        /\ \A i \in 1..Len(queue') : queue'[i] = queue[i + 1] /\ i + 1 \in 1..Len(queue) /\ queue[i + 1] \in Calls
    BY <2>1
  <2>3. job[c] = "queued"
    BY <2>2 DEF QueueHolds
  <2> HIDE DEF c
  <2>4. Typed'
    BY <2>1, <2>2 DEF Typed
  <2>5. QueueHolds'
    <3>a. ASSUME NEW i \in 1..Len(queue') PROVE queue'[i] # c /\ job[queue'[i]] = "queued"
      <4>1. queue'[i] = queue[i + 1] /\ i + 1 \in 1..Len(queue) /\ 1 \in 1..Len(queue) /\ i + 1 # 1
        BY <2>2
      <4>2. QED BY <2>2, <4>1 DEF QueueHolds
    <3>1. \A i \in 1..Len(queue') : queue'[i] # c /\ job[queue'[i]] = "queued"
      BY <3>a
    <3>2. \A i \in 1..Len(queue') : job'[queue'[i]] = "queued"
      BY <3>1, <2>1, <2>2, <1>0
    <3>3. ASSUME NEW i \in 1..Len(queue'), NEW j \in 1..Len(queue'), queue'[i] = queue'[j]
          PROVE  i = j
      <4>1. queue[i + 1] = queue[j + 1] /\ i + 1 \in 1..Len(queue) /\ j + 1 \in 1..Len(queue)
        BY <2>2, <3>3
      <4>2. i + 1 = j + 1
        BY <4>1 DEF QueueHolds
      <4>3. QED BY <4>2, <2>2
    <3>4. QED BY <3>2, <3>3 DEF QueueHolds
  <2>6. ASSUME NEW d \in Calls PROVE Agrees(d)'
    BY <2>1, <2>2, <2>3, <1>0 DEF Agrees
  <2>7. Busy' = Busy
    BY <2>1, <2>2, <2>3, <1>0 DEF Busy
  <2>8. QED BY <2>1, <2>4, <2>5, <2>6, <2>7, CountedSame
<1>a. \A i \in 1..Len(queue) : queue[i] \in Calls
  <2>1. queue \in Seq(Calls) BY DEF Typed
  <2>2. QED BY <2>1
<1>12. ASSUME NEW c \in Calls, WriteRow(c) PROVE CallsInv'
  <2>1. Typed' BY <1>12 DEF WriteRow, Typed
  <2>2. QueueHolds' BY <1>12, <1>0, <1>a DEF WriteRow, QueueHolds
  <2>3. ASSUME NEW d \in Calls PROVE Agrees(d)'
    BY <1>12, <1>0 DEF WriteRow, InTime, Agrees
  <2>4. Busy' = Busy
    BY <1>12, <1>0 DEF WriteRow, Busy
  <2>5. QED BY <1>12, <2>1, <2>2, <2>3, <2>4, CountedSame DEF WriteRow
<1>13. ASSUME NEW c \in Calls, JobEnds(c) PROVE CallsInv'
  <2>1. Typed'
    <3>1. audits' \in Nat
      BY <1>13, <1>0 DEF JobEnds, Freed
    <3>2. job' \in [Calls -> {"none", "queued", "running", "written", "recorded", "failed"}]
      BY <1>13, <1>0 DEF JobEnds
    <3>3. QED BY <1>13, <3>1, <3>2 DEF JobEnds, Typed
  <2>2. QueueHolds' BY <1>13, <1>0, <1>a DEF JobEnds, QueueHolds
  <2>3. ASSUME NEW d \in Calls PROVE Agrees(d)'
    BY <1>13, <1>0 DEF JobEnds, Agrees
  <2>4. Counted'
    <3>1. Busy' = Busy \ {c} /\ c \in Busy
      BY <1>13, <1>0 DEF JobEnds, Busy
    <3>2. IsFiniteSet(Busy) /\ AuditCap - audits = Cardinality(Busy)
      BY DEF Counted
    <3>3. IsFiniteSet(Busy') /\ Cardinality(Busy') = Cardinality(Busy) - 1
      BY <3>1, <3>2, FS_RemoveElement
    <3>4. audits' = audits + 1 /\ UNCHANGED <<admitted, summaries>>
      BY <1>13 DEF JobEnds, Freed
    <3>5. AuditCap - audits' = Cardinality(Busy')
      BY <3>2, <3>3, <3>4, <1>0
    <3>6. QED BY <3>3, <3>4, <3>5 DEF Counted
  <2>5. QED BY <2>1, <2>2, <2>3, <2>4
<1>14. CASE UNCHANGED callVars
  <2>a. Typed' BY <1>14 DEF callVars, Typed
  <2>b. QueueHolds' BY <1>14 DEF callVars, QueueHolds
  <2>c. \A d \in Calls : Agrees(d)' BY <1>14 DEF callVars, Agrees
  <2>1. Typed' /\ QueueHolds' /\ \A d \in Calls : Agrees(d)'
    BY <2>a, <2>b, <2>c
  <2>2. Busy' = Busy
    BY <1>14 DEF callVars, Busy
  <2>3. QED BY <1>14, <2>1, <2>2, CountedSame DEF callVars
<1>15. QED
  BY <1>1, <1>2, <1>3, <1>4, <1>5, <1>6, <1>7, <1>8, <1>9, <1>10, <1>11, <1>12, <1>13, <1>14
     DEF CallsNext, Coroutine, Worker

LEMMA CallsSafe == CallsInv => CallsTypeOK /\ RepliesMatchRows /\ PermitsExact
<1> SUFFICES ASSUME CallsInv PROVE CallsTypeOK /\ RepliesMatchRows /\ PermitsExact
  OBVIOUS
<1>1. /\ SummaryCap \in Nat /\ AuditCap \in Nat /\ summaries \in Nat /\ audits \in Nat
  BY CallsAssumption DEF CallsInv, Typed
<1>2. /\ AuditCap - audits = Cardinality(Busy) /\ Cardinality(Busy) \in Nat
      /\ SummaryCap - summaries = Cardinality(admitted) /\ Cardinality(admitted) \in Nat
  BY FS_CardinalityType DEF CallsInv, Counted
<1>3. summaries \in 0..SummaryCap /\ audits \in 0..AuditCap
  BY <1>1, <1>2
<1>4. CallsTypeOK
  BY <1>3 DEF CallsInv, Typed, CallsTypeOK
<1>5. RepliesMatchRows
  BY <1>4 DEF CallsInv, Agrees, RepliesMatchRows
<1>6. PermitsExact
  BY <1>2, CallsAssumption DEF CallsInv, Typed, Agrees, PermitsExact, Busy
<1>7. QED BY <1>4, <1>5, <1>6

\* Permits, the executor's queue and the calls never leave their domains; that a
\* permit is never given back to a full semaphore needs the count.
THEOREM CallsTyped == CallsSpec => []CallsTypeOK
<1>1. QED BY CallsInvInit, CallsInvInductive, CallsSafe, PTL DEF CallsSpec

\* Whatever the order of the deadline, the worker and a cancellation, a client that
\* learns anything of a tool has a row in the log, and one that was told its call was
\* given up in the queue has none and never gets one.
THEOREM RepliesTrue == CallsSpec => []RepliesMatchRows
<1>1. QED BY CallsInvInit, CallsInvInductive, CallsSafe, PTL DEF CallsSpec

\* However calls end, the permits of both admissions that are out are as many as the
\* jobs that wait or run and the summaries that are not answered.
THEOREM NoPermitLost == CallsSpec => []PermitsExact
<1>1. QED BY CallsInvInit, CallsInvInductive, CallsSafe, PTL DEF CallsSpec
===============================================================================
