---------------------------- MODULE CommandsProofs ----------------------------
(***************************************************************************)
(* Proofs about the commands of MCCommands: the registration of a release,  *)
(* for any number of edits and deaths, the verdict of an acceptance, and    *)
(* what a smoke test leaves behind, for any number of process groups.       *)
(*                                                                          *)
(* Registration: every document of the command names two files that go back *)
(* to the same edit, and where config.toml is no longer the first when it   *)
(* is exchanged, what it is lies at the stage name.  Acceptance: what is sealed was summed up over    *)
(* evidence that was adopted whole, and one hand only can seal it.  Smoke   *)
(* tests: what the registry holds of a group follows the group's progress,  *)
(* and a cleanup scan that saw nothing under way has found what is left.    *)
(***************************************************************************)
EXTENDS MCCommands, TLAPS

-----------------------------------------------------------------------------
(* The registration of a release: RegistrationPublish. *)

Files == [base : Nat, others : Nat,
          by : {"user", "native", "copy", "absent", "part", "none"} \X Nat, reg : BOOLEAN]
Docs == [some : BOOLEAN, pre : Files, post : Files, native : Nat, transfer : Files,
         complete : BOOLEAN]

\* The steps of the command, by what it has done: nothing yet, the private copy is
\* made, the native file is made, the intent is written, it is moved, published.
Early == {"clean", "native", "add"}
Made == {"copy", "copying", "cache", "intent"}
Copying == {"transfer", "fill", "bind"}
Intended == {"check", "move", "publish"} \cup Copying
Exchange == {"forward", "swap", "look", "undo", "park", "parked"}
Swept == Exchange \cup {"complete", "backup"}
Published == {"sweep"} \cup Swept

\* The types, and the steps there are.
Typed ==
    /\ cross \in BOOLEAN
    /\ {config, stage, backup, transfer, native, before} \subseteq Files
    /\ cache \in {"absent", "whole"} /\ cachestage \in {"absent", "part", "whole"}
    /\ {mem, intent, publication} \subseteq Docs
    /\ {record, edits, crashes, tries} \subseteq Nat
    /\ pc \in Ended \cup {"evidence", "enter"} \cup Early \cup Made \cup Intended \cup Published

\* Both files of a document, and the copy on the other volume, go back to one edit.
OneEdit(d) ==
    /\ d.post.base = d.pre.base
    /\ d.transfer = Absent \/ d.transfer.base = d.pre.base

\* What the command holds in memory is what it wrote last.
Documents ==
    /\ intent.some => OneEdit(intent) /\ ~intent.complete
    /\ publication.some => OneEdit(publication)
    /\ pc \in Early \cup Made => ~intent.some /\ ~publication.some
    /\ pc \in {"add"} \cup Made => mem.some /\ ~mem.complete /\ mem.transfer = Absent
    /\ pc = "add" => native.base = mem.pre.base
    /\ pc \in Made => OneEdit(mem) /\ native = mem.post
    /\ pc \in Intended => intent.some /\ ~publication.some /\ mem = intent
    /\ pc \in Published => publication.some /\ mem = publication

\* Where the copy on the other volume is.
Copies ==
    /\ ~intent.some \/ ~cross => transfer = Absent
    /\ publication.some => transfer = Absent
    /\ cross /\ intent.some /\ ~publication.some => native = intent.post
    /\ intent.some => transfer \in {Absent, Part} \/ transfer.base = intent.pre.base
    /\ intent.some /\ intent.transfer # Absent => transfer \in {Absent, intent.transfer}
    /\ pc \in Copying => cross /\ mem.transfer = Absent
    /\ pc = "bind" => transfer \notin {Absent, Part}
    /\ pc \in {"move", "publish"} /\ cross => mem.transfer # Absent
    /\ pc = "publish" => transfer = Absent

\* The cache comes before config.toml.
CacheFirst ==
    /\ cache = "whole" => cachestage = "absent"
    /\ pc \in {"copy", "copying", "cache"} => cache = "absent"
    /\ pc \in (Intended \ {"check"}) \cup Published => cache = "whole"
    /\ publication.some => cache = "whole"

\* What is gone stays gone.
Gone ==
    /\ pc \in Swept => native = Absent
    /\ pc \in {"complete", "backup"} => stage = Absent
    /\ publication.some /\ publication.complete => stage = Absent
    /\ pc \in Exchange \cup {"complete"} => ~mem.complete
    /\ pc = "backup" => publication.complete

\* A file of the Codex program, or the copy of one.
Native(f) == f # Absent /\ f.by # User

\* What is published was not made by the user.
Ours ==
    /\ pc \in Made => Native(mem.post)
    /\ intent.some => /\ Native(intent.post)
                      /\ intent.transfer = Absent \/ Native(intent.transfer)
                      /\ transfer \in {Absent, Part} \/ Native(transfer)
    /\ publication.some => Native(publication.post)

\* The newest edit, and where the exchange has it at each step.
Saved == config.by = User /\ config.base = edits
AtStage == stage.by = User /\ stage.base = edits
Newest ==
    /\ ~publication.some \/ publication.complete => config.base = edits
    /\ config.base = edits \/ AtStage
    /\ pc \in {"swap", "park", "parked", "complete"} => config.base = edits
    /\ pc = "swap" => stage = mem.post /\ backup = Absent /\ (config = mem.pre \/ Saved)
    /\ pc = "look" => /\ backup = Absent
                      /\ \/ stage = mem.pre /\ config = mem.post /\ config.base = edits
                         \/ AtStage /\ config = mem.post
                         \/ Saved
    /\ pc = "undo" => Saved \/ AtStage
    /\ pc = "park" => stage = mem.pre

\* What makes the promised invariant inductive, and the promise.
Others == Documents /\ Copies /\ CacheFirst /\ Gone
Registers == config.reg => cache = "whole"
Safe == Others /\ Ours /\ Newest /\ Registers /\ NothingLeft

-----------------------------------------------------------------------------
\* The files and the document that stand for nothing.
LEMMA Constants ==
  /\ {Absent, Part, None} \subseteq Files
  /\ Absent.base = 0 /\ ~Absent.reg /\ Part.base = 0 /\ Absent # Part
  /\ Absent.by # User /\ Part.by # User
  /\ NoDoc \in Docs /\ ~NoDoc.some /\ NoDoc.transfer = Absent /\ ~NoDoc.complete
  BY DEF File, Files, User, Absent, Part, None, NoDoc, Docs

\* The fields of a document.
LEMMA DocFields ==
  ASSUME NEW d \in Docs
  PROVE  /\ d.some \in BOOLEAN /\ d.complete \in BOOLEAN /\ d.native \in Nat
         /\ d.pre \in Files /\ d.post \in Files /\ d.transfer \in Files
  BY DEF Docs

\* What a rewritten document keeps.
LEMMA DocUpdates ==
  ASSUME NEW d \in Docs, NEW f \in Files
  PROVE  /\ [d EXCEPT !.post = f] \in Docs
         /\ [d EXCEPT !.transfer = f] \in Docs
         /\ [d EXCEPT !.complete = TRUE] \in Docs
         /\ [d EXCEPT !.post = f].post = f /\ [d EXCEPT !.post = f].pre = d.pre
         /\ [d EXCEPT !.post = f].transfer = d.transfer
         /\ [d EXCEPT !.post = f].some = d.some
         /\ [d EXCEPT !.post = f].complete = d.complete
         /\ [d EXCEPT !.transfer = f].transfer = f /\ [d EXCEPT !.transfer = f].pre = d.pre
         /\ [d EXCEPT !.transfer = f].post = d.post
         /\ [d EXCEPT !.transfer = f].some = d.some
         /\ [d EXCEPT !.transfer = f].complete = d.complete
         /\ [d EXCEPT !.complete = TRUE].post = d.post /\ [d EXCEPT !.complete = TRUE].pre = d.pre
         /\ [d EXCEPT !.complete = TRUE].transfer = d.transfer
         /\ [d EXCEPT !.complete = TRUE].some = d.some
  BY DEF Docs

\* The document a new attempt begins with.
LEMMA NewDoc ==
  ASSUME NEW f \in Files, NEW n \in Nat
  PROVE  LET d == [NoDoc EXCEPT !.some = TRUE, !.pre = f, !.native = n]
         IN  d \in Docs /\ d.some /\ d.pre = f /\ d.transfer = Absent /\ ~d.complete
  BY Constants DEF Docs, NoDoc

\* The files the Codex program and the copy on the other volume make of one.
LEMMA MadeFile ==
  ASSUME NEW f \in Files, NEW t \in Nat, NEW who \in {"native", "copy"}
  PROVE  LET made == File(f.base, f.others, <<who, t>>, TRUE)
         IN  made \in Files /\ made.base = f.base /\ Native(made) /\ made # Part
  BY DEF File, Files, Absent, Part, Native, User

\* The file the user saves.
LEMMA EditedFile ==
  ASSUME NEW f \in Files, NEW b \in Nat, NEW o \in {f.others, b}
  PROVE  LET saved == File(b, o, User, f.reg)
         IN  saved \in Files /\ saved.base = b /\ saved.by = User /\ saved.reg = f.reg
  BY DEF File, Files, User

\* Every step keeps the types.
LEMMA TypedStep == Typed /\ [Next]_vars => Typed'
<1> SUFFICES ASSUME Typed, [Next]_vars PROVE Typed'
  OBVIOUS
<1> USE Constants DEF Typed, Ended, Early, Made, Copying, Intended, Exchange, Swept, Published,
        Goto, Refuse, neighbours, caches, counts
<1>a. /\ mem.pre \in Files /\ mem.post \in Files /\ mem.transfer \in Files
      /\ mem.native \in Nat
  BY DocFields
<1>1. CASE Start
  <2>1. [NoDoc EXCEPT !.pre = config] \in Docs
    BY DEF Docs, NoDoc
  <2>2. QED BY <1>1, <2>1 DEF Start
<1>2. CASE Evidence BY <1>2, <1>a DEF Evidence
<1>3. CASE Enter BY <1>3 DEF Enter
<1>4. CASE CleanNative BY <1>4 DEF CleanNative
<1>5. CASE Stage
  <2>1. tries' \in Nat
    BY <1>5 DEF Stage
  <2>2. mem' \in Docs
    <3>1. mem' = [NoDoc EXCEPT !.some = TRUE, !.pre = config, !.native = tries']
      BY <1>5 DEF Stage
    <3>2. QED BY <2>1, <3>1, NewDoc
  <2>3. QED BY <1>5, <2>1, <2>2 DEF Stage
<1>6. CASE PluginAdd
  <2>1. native' \in Files
    BY <1>6, MadeFile DEF PluginAdd
  <2>2. mem' \in Docs
    BY <1>6, <2>1, DocUpdates DEF PluginAdd
  <2>3. QED BY <1>6, <2>1, <2>2 DEF PluginAdd
<1>7. CASE CopyCache BY <1>7 DEF CopyCache
<1>8. CASE CopyRest BY <1>8 DEF CopyRest
<1>9. CASE PublishCache BY <1>9 DEF PublishCache
<1>10. CASE WriteIntent BY <1>10 DEF WriteIntent
<1>11. CASE CheckIntent BY <1>11 DEF CheckIntent
<1>12. CASE Transfer BY <1>12 DEF Transfer
<1>13. CASE FillTransfer
  <2>1. transfer' \in Files
    BY <1>13, MadeFile DEF FillTransfer
  <2>2. QED BY <1>13, <2>1 DEF FillTransfer
<1>14. CASE BindTransfer
  <2>1. mem' \in Docs
    BY <1>14, DocUpdates DEF BindTransfer
  <2>2. QED BY <1>14, <2>1 DEF BindTransfer
<1>15. CASE MoveStage BY <1>15, <1>a DEF MoveStage, Wanted
<1>16. CASE WritePublication
  <2>1. mem' \in Docs
    BY <1>16, <1>a, DocUpdates DEF WritePublication, Wanted
  <2>2. QED BY <1>16, <2>1 DEF WritePublication
<1>17. CASE SweepNative BY <1>17 DEF SweepNative
<1>18. CASE Forward BY <1>18 DEF Forward
<1>25. CASE Swap BY <1>25 DEF Swap
<1>26. CASE LookAgain BY <1>26 DEF LookAgain
<1>27. CASE Undo BY <1>27 DEF Undo
<1>28. CASE Park BY <1>28 DEF Park
<1>29. CASE Parked BY <1>29 DEF Parked
<1>19. CASE Complete
  <2>1. mem' \in Docs
    BY <1>19, <1>a, DocUpdates DEF Complete
  <2>2. QED BY <1>19, <2>1 DEF Complete
<1>20. CASE DropBackup BY <1>20 DEF DropBackup
<1>21. CASE Crash BY <1>21 DEF Crash
<1>22. CASE Edit
  <2>1. edits' \in Nat
    BY <1>22 DEF Edit
  <2>2. config' \in Files
    <3>1. PICK o \in {config.others, edits'} : config' = File(edits', o, User, config.reg)
      BY <1>22 DEF Edit
    <3>2. config \in Files
      BY DEF Typed
    <3>3. QED BY <2>1, <3>1, <3>2, EditedFile
  <2>3. QED BY <1>22, <2>1, <2>2 DEF Edit
<1>23. CASE UNCHANGED vars BY <1>23 DEF vars
<1>24. QED BY <1>1, <1>2, <1>3, <1>4, <1>5, <1>6, <1>7, <1>8, <1>9, <1>10, <1>11, <1>12, <1>13,
   <1>14, <1>15, <1>16, <1>17, <1>18, <1>19, <1>20, <1>21, <1>22, <1>23, <1>25, <1>26, <1>27,
   <1>28, <1>29 DEF Next, Step

\* Every step keeps what does not depend on who saved what.
LEMMA OthersStep == Typed /\ Safe /\ [Next]_vars => (Others /\ Registers /\ NothingLeft)'
<1> SUFFICES ASSUME Typed, Others, Registers, NothingLeft, [Next]_vars
             PROVE (Others /\ Registers /\ NothingLeft)'
  BY DEF Safe
<1> USE Constants DEF Others, Documents, OneEdit, Copies, CacheFirst, Gone, Registers, NothingLeft,
        Ended, Early, Made, Copying, Intended, Exchange, Swept, Published, Goto, Refuse, neighbours, caches, counts
<1>a. /\ mem \in Docs /\ config \in Files /\ native \in Files /\ stage \in Files
      /\ transfer \in Files /\ record \in Nat /\ tries \in Nat /\ edits \in Nat
      /\ cache \in {"absent", "whole"} /\ before \in Files /\ cross \in BOOLEAN
  BY DEF Typed
<1>b. /\ mem.pre \in Files /\ mem.post \in Files /\ mem.transfer \in Files
      /\ mem.some \in BOOLEAN /\ mem.complete \in BOOLEAN
  BY <1>a, DocFields
<1>1. CASE Start
  BY <1>a, <1>b, <1>1 DEF Start
<1>2. CASE Evidence
  BY <1>a, <1>b, <1>2 DEF Evidence
<1>3. CASE Enter
  BY <1>a, <1>b, <1>3 DEF Enter
<1>4. CASE CleanNative
  BY <1>a, <1>b, <1>4 DEF CleanNative
<1>5. CASE Stage
  BY <1>a, <1>b, <1>5 DEF Stage
<1>6. CASE PluginAdd
  <2>1. native' \in Files /\ native'.base = native.base
    BY ZenonT(60), <1>a, <1>6, MadeFile DEF PluginAdd
  <2>2. mem'.post = native' /\ mem'.pre = mem.pre /\ mem'.transfer = mem.transfer
        /\ mem'.some = mem.some /\ mem'.complete = mem.complete
    BY <1>a, <1>6, <2>1, DocUpdates DEF PluginAdd
  <2>3. QED BY ZenonT(60), <1>a, <1>b, <1>6, <2>1, <2>2 DEF PluginAdd
<1>7. CASE CopyCache
  BY <1>a, <1>b, <1>7 DEF CopyCache
<1>8. CASE CopyRest
  BY <1>a, <1>b, <1>8 DEF CopyRest
<1>9. CASE PublishCache
  BY <1>a, <1>b, <1>9 DEF PublishCache
<1>10. CASE WriteIntent
  BY <1>a, <1>b, <1>10 DEF WriteIntent
<1>11. CASE CheckIntent
  BY <1>a, <1>b, <1>11 DEF CheckIntent
<1>12. CASE Transfer
  BY <1>a, <1>b, <1>12 DEF Transfer
<1>13. CASE FillTransfer
  <2>1. transfer' \notin {Absent, Part} /\ transfer'.base = native.base
    BY <1>a, <1>13, MadeFile DEF FillTransfer, Native
  <2>2. native.base = mem.pre.base
    BY <1>13 DEF FillTransfer
  <2>3. QED BY <1>a, <1>b, <1>13, <2>1, <2>2 DEF FillTransfer
<1>14. CASE BindTransfer
  BY <1>a, <1>b, <1>14 DEF BindTransfer
<1>15. CASE MoveStage
  BY <1>a, <1>b, <1>15 DEF MoveStage, Source, Wanted
<1>16. CASE WritePublication
  <2>1. mem'.post = Wanted /\ mem'.pre = mem.pre /\ mem'.transfer = mem.transfer
        /\ mem'.some = mem.some /\ mem'.complete = mem.complete
    BY <1>a, <1>b, <1>16, DocUpdates DEF WritePublication, Wanted
  <2>2. Wanted.base = mem.pre.base
    BY <1>b, <1>16 DEF WritePublication, Wanted
  <2>3. QED BY <1>a, <1>b, <1>16, <2>1, <2>2 DEF WritePublication, Wanted
<1>17. CASE SweepNative
  BY <1>a, <1>b, <1>17 DEF SweepNative
<1>18. CASE Forward
  BY <1>a, <1>b, <1>18 DEF Forward, Rows, Now
<1>25. CASE Swap
  BY <1>a, <1>b, <1>25 DEF Swap
<1>26. CASE LookAgain
  BY <1>a, <1>b, <1>26 DEF LookAgain
<1>27. CASE Undo
  BY <1>a, <1>b, <1>27 DEF Undo
<1>28. CASE Park
  BY <1>a, <1>b, <1>28 DEF Park
<1>29. CASE Parked
  BY <1>a, <1>b, <1>29 DEF Parked, Rows, Now
<1>19. CASE Complete
  BY <1>a, <1>b, <1>19 DEF Complete
<1>20. CASE DropBackup
  BY <1>a, <1>b, <1>20 DEF DropBackup
<1>21. CASE Crash
  BY <1>a, <1>b, <1>21 DEF Crash
<1>22. CASE Edit
  <2>1. edits' \in Nat
    BY <1>a, <1>22 DEF Edit
  <2>2. config'.reg = config.reg
    <3>1. PICK o \in {config.others, edits'} : config' = File(edits', o, User, config.reg)
      BY <1>22 DEF Edit
    <3>2. config \in Files
      BY DEF Typed
    <3>3. QED BY <2>1, <3>1, <3>2, EditedFile
  <2>3. QED BY <1>a, <1>b, <1>22, <2>1, <2>2 DEF Edit
<1>23. CASE UNCHANGED vars
  BY <1>23 DEF vars
<1>24. QED BY <1>1, <1>2, <1>3, <1>4, <1>5, <1>6, <1>7, <1>8, <1>9, <1>10, <1>11, <1>12, <1>13, <1>14, <1>15, <1>16, <1>17, <1>18, <1>19, <1>20, <1>21, <1>22, <1>23, <1>25, <1>26, <1>27,
   <1>28, <1>29 DEF Next, Step

\* Every step keeps the files to publish apart from those of the user.
LEMMA OursStep == Typed /\ Safe /\ [Next]_vars => Ours'
<1> SUFFICES ASSUME Typed, Safe, [Next]_vars PROVE Ours'
  OBVIOUS
<1> USE Constants DEF Safe, Others, Ours, Documents, Copies,
        Ended, Early, Made, Copying, Intended, Exchange, Swept, Published, Goto, Refuse, neighbours,
        caches, counts
<1>a. /\ mem \in Docs /\ config \in Files /\ native \in Files /\ stage \in Files
      /\ transfer \in Files /\ record \in Nat /\ tries \in Nat /\ edits \in Nat
  BY DEF Typed
<1>1. CASE Start
  BY <1>a, <1>1 DEF Start
<1>2. CASE Evidence
  BY <1>a, <1>2 DEF Evidence
<1>3. CASE Enter
  BY <1>a, <1>3 DEF Enter
<1>4. CASE CleanNative
  BY <1>a, <1>4 DEF CleanNative
<1>5. CASE Stage
  BY <1>a, <1>5 DEF Stage
<1>6. CASE PluginAdd
  <2>1. native' \in Files /\ Native(native')
    BY ZenonT(60), <1>a, <1>6, MadeFile DEF PluginAdd
  <2>2. mem'.post = native'
    BY <1>a, <1>6, <2>1, DocUpdates DEF PluginAdd
  <2>3. QED BY <1>6, <2>1, <2>2 DEF PluginAdd
<1>7. CASE CopyCache
  BY <1>a, <1>7 DEF CopyCache
<1>8. CASE CopyRest
  BY <1>a, <1>8 DEF CopyRest
<1>9. CASE PublishCache
  BY <1>a, <1>9 DEF PublishCache
<1>10. CASE WriteIntent
  BY <1>a, <1>10 DEF WriteIntent
<1>11. CASE CheckIntent
  BY <1>a, <1>11 DEF CheckIntent
<1>12. CASE Transfer
  BY <1>a, <1>12 DEF Transfer
<1>13. CASE FillTransfer
  <2>1. Native(transfer')
    BY ZenonT(60), <1>a, <1>13, MadeFile DEF FillTransfer
  <2>2. QED BY <1>13, <2>1 DEF FillTransfer
<1>14. CASE BindTransfer
  <2>1. mem'.post = mem.post /\ mem'.transfer = transfer
    BY <1>a, <1>14, DocUpdates DEF BindTransfer
  <2>2. QED BY <1>14, <2>1 DEF BindTransfer
<1>15. CASE MoveStage
  BY <1>a, <1>15 DEF MoveStage, Source, Wanted
<1>16. CASE WritePublication
  <2>1. Wanted \in Files
    BY <1>a, DocFields DEF Wanted
  <2>2. mem'.post = Wanted
    BY <1>a, <1>16, <2>1, DocUpdates DEF WritePublication
  <2>3. QED BY <1>16, <2>2 DEF WritePublication, Wanted
<1>17. CASE SweepNative
  BY <1>a, <1>17 DEF SweepNative
<1>18. CASE Forward
  BY <1>a, <1>18 DEF Forward
<1>19. CASE Swap
  BY <1>a, <1>19 DEF Swap
<1>20. CASE LookAgain
  BY <1>a, <1>20 DEF LookAgain
<1>21. CASE Undo
  BY <1>a, <1>21 DEF Undo
<1>22. CASE Park
  BY <1>a, <1>22 DEF Park
<1>23. CASE Parked
  BY <1>a, <1>23 DEF Parked
<1>24. CASE Complete
  <2>1. mem'.post = mem.post
    BY <1>a, <1>24, DocUpdates DEF Complete
  <2>2. QED BY <1>24, <2>1 DEF Complete
<1>25. CASE DropBackup
  BY <1>a, <1>25 DEF DropBackup
<1>26. CASE Crash
  BY <1>a, <1>26 DEF Crash
<1>27. CASE Edit
  BY <1>a, <1>27 DEF Edit
<1>28. CASE UNCHANGED vars
  BY <1>28 DEF vars
<1>29. QED BY <1>1, <1>2, <1>3, <1>4, <1>5, <1>6, <1>7, <1>8, <1>9, <1>10, <1>11, <1>12, <1>13, <1>14, <1>15, <1>16, <1>17, <1>18, <1>19, <1>20, <1>21, <1>22, <1>23, <1>24, <1>25, <1>26, <1>27, <1>28 DEF Next, Step

\* Every step keeps the newest edit where it can be found.
LEMMA NewestStep == Typed /\ Safe /\ [Next]_vars => Newest'
<1> SUFFICES ASSUME Typed, Safe, [Next]_vars PROVE Newest'
  OBVIOUS
<1> USE Constants DEF Safe, Others, Ours, Newest, Saved, AtStage, Native, Documents, OneEdit, Gone,
        Ended, Early, Made, Copying, Intended, Exchange, Swept, Published, Goto, Refuse, neighbours,
        caches, counts
<1>a. /\ mem \in Docs /\ config \in Files /\ native \in Files /\ stage \in Files
      /\ transfer \in Files /\ record \in Nat /\ tries \in Nat /\ edits \in Nat
  BY DEF Typed
<1>1. CASE Start
  BY <1>a, <1>1 DEF Start
<1>2. CASE Evidence
  BY <1>a, <1>2 DEF Evidence
<1>3. CASE Enter
  BY <1>a, <1>3 DEF Enter
<1>4. CASE CleanNative
  BY <1>a, <1>4 DEF CleanNative
<1>5. CASE Stage
  BY <1>a, <1>5 DEF Stage
<1>6. CASE PluginAdd
  BY <1>a, <1>6 DEF PluginAdd
<1>7. CASE CopyCache
  BY <1>a, <1>7 DEF CopyCache
<1>8. CASE CopyRest
  BY <1>a, <1>8 DEF CopyRest
<1>9. CASE PublishCache
  BY <1>a, <1>9 DEF PublishCache
<1>10. CASE WriteIntent
  BY <1>a, <1>10 DEF WriteIntent
<1>11. CASE CheckIntent
  BY <1>a, <1>11 DEF CheckIntent
<1>12. CASE Transfer
  BY <1>a, <1>12 DEF Transfer
<1>13. CASE FillTransfer
  BY <1>a, <1>13 DEF FillTransfer
<1>14. CASE BindTransfer
  BY <1>a, <1>14 DEF BindTransfer
<1>15. CASE MoveStage
  BY <1>a, <1>15 DEF MoveStage, Source, Wanted
<1>16. CASE WritePublication
  <2>1. Wanted \in Files
    BY <1>a, DocFields DEF Wanted
  <2>2. mem'.complete = mem.complete
    BY <1>a, <1>16, <2>1, DocUpdates DEF WritePublication
  <2>3. QED BY <1>16, <2>2 DEF WritePublication, Wanted
<1>17. CASE SweepNative
  BY <1>a, <1>17 DEF SweepNative
<1>18. CASE Forward
  BY <1>a, <1>18 DEF Forward, Rows, Now
<1>19. CASE Swap
  BY <1>a, <1>19 DEF Swap
<1>20. CASE LookAgain
  BY <1>a, <1>20 DEF LookAgain, Rows, Now
<1>21. CASE Undo
  BY <1>a, <1>21 DEF Undo
<1>22. CASE Park
  BY <1>a, <1>22 DEF Park
<1>23. CASE Parked
  BY <1>a, <1>23 DEF Parked, Rows, Now
<1>24. CASE Complete
  <2>1. mem'.post = mem.post /\ mem'.pre = mem.pre /\ mem'.complete = TRUE
    BY <1>a, <1>24, DocUpdates DEF Complete, Docs
  <2>2. QED BY <1>24, <2>1 DEF Complete
<1>25. CASE DropBackup
  BY <1>a, <1>25 DEF DropBackup
<1>26. CASE Crash
  BY <1>a, <1>26 DEF Crash
<1>27. CASE Edit
  <2>1. edits' \in Nat
    BY <1>a, <1>27 DEF Edit
  <2>2. config'.base = edits' /\ config'.by = User
    <3>1. PICK o \in {config.others, edits'} : config' = File(edits', o, User, config.reg)
      BY <1>27 DEF Edit
    <3>2. config \in Files
      BY DEF Typed
    <3>3. QED BY <2>1, <3>1, <3>2, EditedFile
  <2>3. QED BY <1>27, <2>2 DEF Edit
<1>28. CASE UNCHANGED vars
  BY <1>28 DEF vars
<1>29. QED BY <1>1, <1>2, <1>3, <1>4, <1>5, <1>6, <1>7, <1>8, <1>9, <1>10, <1>11, <1>12, <1>13, <1>14, <1>15, <1>16, <1>17, <1>18, <1>19, <1>20, <1>21, <1>22, <1>23, <1>24, <1>25, <1>26, <1>27, <1>28 DEF Next, Step

\* Every step keeps the strengthened invariant.
LEMMA SafeStep == Typed /\ Safe /\ [Next]_vars => Safe'
  BY OthersStep, OursStep, NewestStep DEF Safe

\* Both hold when the first command has not begun.
LEMMA SafeInit == Init => Typed /\ Safe
<1> SUFFICES ASSUME Init PROVE Typed /\ Safe
  OBVIOUS
<1>1. File(0, 0, User, FALSE) \in Files /\ File(0, 0, User, FALSE).base = 0
      /\ ~File(0, 0, User, FALSE).reg
  BY DEF File, Files, User
<1>2. Typed
  <2>1. {config, stage, backup, transfer, native, before} \subseteq Files
    BY <1>1, Constants DEF Init
  <2>2. {mem, intent, publication} \subseteq Docs
    BY Constants DEF Init
  <2>3. /\ cross \in BOOLEAN /\ {record, edits, crashes, tries} \subseteq Nat
        /\ cache \in {"absent", "whole"} /\ cachestage \in {"absent", "part", "whole"}
        /\ pc \in Ended
    BY DEF Init, Ended
  <2>4. QED BY <2>1, <2>2, <2>3 DEF Typed
<1>3. Safe
  BY <1>1, Constants DEF Init, Safe, Others, Documents, Copies, CacheFirst, Gone, Ours, Newest,
     Registers, NothingLeft, Early, Made, Copying, Intended, Exchange, Swept, Published
<1>4. QED BY <1>2, <1>3

\* Every variable keeps its type: the documents are whole records of known files.
THEOREM PublishTyped == Spec => []Typed
<1>1. Init => Typed
  BY SafeInit
<1>2. QED BY <1>1, TypedStep, PTL DEF Spec

\* The inductive invariant of the registration.
LEMMA PublishSafe == Spec => []Safe
<1>1. Init => Safe
  BY SafeInit
<1>2. QED BY <1>1, SafeStep, PublishTyped, PTL DEF Spec

\* However often the command dies and is rerun, and whatever the user does to
\* config.toml meanwhile: the newest edit is what config.toml goes back to, or lies whole
\* at the stage name while the registration is not complete, the
\* release is registered only after its cache is there, and a registration that
\* reports success leaves none of its private copies behind.
THEOREM RegistrationIsSafe == Spec => []RegistrationSafe
<1>1. Safe => RegistrationSafe
  <2>1. Safe => EditsKept
    BY DEF Safe, Newest, AtStage, Registers, EditsKept
  <2>2. QED BY <2>1 DEF Safe, RegistrationSafe
<1>2. QED BY <1>1, PublishSafe, PTL

-----------------------------------------------------------------------------
(* The acceptance of an asset. *)

Verdicts == A!Ship \cup {"REJECTED", "UNVERIFIED"}
Claims == A!Ship \cup {"REJECTED"}   \* what is reported only by who sealed it
RunPcs == {"bundle", "tools", "stages", "job", "wait", "stop", "adopt", "results", "drift", "payload",
           "summary", "seal", "review", "completion", "done"}
Sealing == {"seal", "review", "completion"}
BeforeResults == {"bundle", "tools", "stages", "job", "wait", "stop", "adopt"}
AfterResults == {"drift", "payload", "summary", "done"} \cup Sealing
Found == {A!None, "pass", "note", "error", "unsafe"}
GateWords == {A!None, "pass", "gap", "fail", "malformed"}
Runs == [pc : RunPcs, job : A!Jobs, accident : BOOLEAN, r0 : {"pass", "error"}, blocked : SUBSET A!Jobs,
         gates : {A!None, "pass", "fail", "incomplete"}, r5 : {"pass", "error"},
         said : {A!None, "killed", "NEEDS_REVIEW"} \cup Verdicts]
Evidences == [result : Found, gate : GateWords, rc : {0, 1}, group : {A!None, "gone", "alive"}]
Workers == [leader : {A!None, "runs", "left", "stuck"}, kid : BOOLEAN, rc : {0, 1}, result : Found,
            gate : GateWords, fault : A!Faults \cup {A!None}]
Summaries == [written : BOOLEAN, success : BOOLEAN, failed : BOOLEAN, complete : BOOLEAN,
              delivery : BOOLEAN, notes : BOOLEAN]
Seals == [state : Verdicts \cup {A!None}, by : Reviews \cup {"run", A!None},
          review : {A!None, "approve", "reject"}]
ControlFiles == [summary : Summaries, review : Seals, completion : Seals, receipt : Deliveries \cup {A!None}]
Commands == [pc : {"idle", "verify", "seal", "review", "completion", "copy", "receipt", "done"},
             review : {A!None, "approve", "reject", "invalid"}, state : Verdicts \cup {A!None},
             said : {A!None, "killed", "delivered"} \cup Verdicts]

AcceptanceTyped ==
    /\ required \in BOOLEAN /\ disk \in [A!Files -> BOOLEAN]
    /\ run \in Runs /\ took \in [A!Jobs -> Evidences] /\ worker \in Workers /\ ev \in ControlFiles
    /\ cmd \in [Reviews \cup Deliveries -> Commands] /\ dest \in [Deliveries -> {A!None, "D"}]

\* What waits to be taken in was left by a worker that ended by itself.
WorkerSound ==
    /\ run.pc = "wait" => ~run.accident
    /\ run.pc = "stop" => run.accident \/ worker.leader = "left"
    /\ run.pc = "adopt" => worker.leader = "left" /\ ~worker.kid /\ worker.rc = 0
    /\ run.pc \notin {"wait", "stop", "adopt", "done"} => worker.leader # "runs" /\ worker.result = A!None
    /\ worker.result # A!None => worker.result \in A!ResultsOf(run.job) /\ worker.gate \in A!GatesOf(run.job)
    /\ worker.result = A!None => worker.gate = A!None

\* The jobs run in their order, and none after the inspector has called the asset unsafe.
EvidenceSound ==
    /\ \A j \in A!Jobs :
        /\ took[j].result = A!None => took[j].gate = A!None
        /\ took[j].result # A!None =>
             /\ took[j].rc = 0 /\ took[j].group = "gone"
             /\ took[j].result \in A!ResultsOf(j) /\ took[j].gate \in A!GatesOf(j)
        /\ run.pc \in BeforeResults /\ j >= run.job => took[j].result = A!None
        /\ j > 1 /\ took[1].result = "unsafe" => took[j].result = A!None
    /\ run.pc \in {"wait", "stop", "adopt"} => run.job = 1 \/ took[1].result # "unsafe"
    /\ run.r0 = "error" => kind = "interchange"

\* The gates are read once, when the evidence is all there.
GatesSound == run.gates # A!None => run.gates = A!Gates /\ run.pc \in AfterResults

\* A summary that says anything is that of the evidence, which nothing changes any more.
SummarySound ==
    /\ run.r5 = "error" => run.accident /\ run.pc \in AfterResults
    /\ run.pc \notin Sealing \cup {"done"} => ~ev.summary.written
    /\ ev.summary.success \/ ev.summary.complete =>
         ev.summary.written /\ ev.summary = A!Summary /\ run.pc \in Sealing \cup {"done"}
    /\ run.pc \in Sealing => ev.summary = A!Summary /\ ~(ev.summary.success /\ required)

\* What was written as the review follows from the summary, and goes on to the completion.
Follows(seal) ==
    /\ ev.summary.written /\ seal.state = A!SealState(ev.summary, seal.review)
    /\ seal.review = A!None => ~(ev.summary.success /\ required)
SealsSound ==
    /\ ev.review.state # A!None => Follows(ev.review)
    /\ ev.completion.state # A!None => ev.completion = ev.review
    /\ run.pc = "completion" =>
         /\ ev.review = A!Sealed(A!SealState(ev.summary, A!None), "run", A!None)
         /\ ev.completion.state = A!None
    /\ A!Spoke("run", run.said)
    /\ ev.completion.by = "run" => run.pc = "done"

ReviewSound(c) ==
    /\ cmd[c].pc \in {"verify", "seal", "review", "completion"} => ev.summary.success /\ cmd[c].review # A!None
    /\ cmd[c].pc \in {"review", "completion"} =>
         cmd[c].review \in {"approve", "reject"} /\ cmd[c].state = A!SealState(ev.summary, cmd[c].review)
    /\ cmd[c].pc = "completion" =>
         ev.review = A!Sealed(cmd[c].state, c, cmd[c].review) /\ ev.completion.state = A!None
    /\ A!Spoke(c, cmd[c].said)
    /\ ev.completion.by = c => cmd[c].pc = "done"
    /\ cmd[c].pc \in {"idle", "verify", "seal", "review", "completion", "done"}

DeliverySound(d) ==
    /\ cmd[d].pc \in {"copy", "receipt"} \/ dest[d] # A!None => ev.completion.state \in A!Ship
    /\ cmd[d].pc = "receipt" => dest[d] = "D"
    /\ cmd[d].said = "delivered" => ev.receipt = d /\ dest[d] = "D"
    /\ cmd[d].pc \in {"idle", "copy", "receipt", "done"}

AcceptanceInv ==
    /\ AcceptanceTyped /\ WorkerSound /\ EvidenceSound /\ GatesSound /\ SummarySound /\ SealsSound
    /\ (\A c \in Reviews : ReviewSound(c)) /\ (\A d \in Deliveries : DeliverySound(d))


LEMMA Names == /\ "run" \notin Reviews \cup Deliveries /\ A!None \notin Reviews \cup Deliveries
               /\ \A c \in Reviews : c \notin Deliveries
  BY CommandsAssumption DEF A!None

\* Every verdict is a word of its own.
LEMMA SealVerdict ==
  ASSUME NEW s, NEW review
  PROVE  A!SealState(s, review) \in Verdicts /\ A!None \notin Verdicts
  BY DEF A!SealState, Verdicts, A!Ship, A!None

LEMMA SummaryTyped ==
  ASSUME AcceptanceTyped
  PROVE  A!Summary \in Summaries /\ A!Summary.written
  BY DEF A!Summary, Summaries, A!Success, A!CheckFailed, A!Complete, AcceptanceTyped, Runs,
         A!Tested, A!Closed

\* What the words of a run that go on to its report depend on.
SameReport ==
    /\ run'.accident = run.accident /\ run'.blocked = run.blocked /\ run'.gates = run.gates
    /\ run'.r0 = run.r0 /\ run'.r5 = run.r5 /\ took' = took /\ kind' = kind
LEMMA SameSummary == SameReport => A!Summary' = A!Summary /\ A!Gates' = A!Gates
  BY DEF SameReport, A!Summary, A!Gates, A!Success, A!CheckFailed, A!Complete, A!Tested, A!Closed, A!ChecksFail

\* Evidence stays what it is while the jobs go on in their order.
LEMMA EvidenceStays ==
  ASSUME EvidenceSound, run \in Runs, run' \in Runs, UNCHANGED <<took, kind>>, run'.r0 = "error" => run.r0 = "error" \/ kind = "interchange",
         run'.pc \in BeforeResults => run.pc \in BeforeResults /\ (run'.job = run.job \/ run'.job = run.job + 1),
         run'.pc \in {"wait", "stop", "adopt"} =>
             run'.job = run.job /\ (run.pc \in {"wait", "stop", "adopt"} \/ run.job = 1 \/ took[1].result # "unsafe")
  PROVE  EvidenceSound'
<1>1. run.job \in {1, 2, 3} /\ run'.job \in {1, 2, 3}
  BY DEF Runs, A!Jobs
<1>2. ASSUME NEW j \in A!Jobs, run'.pc \in BeforeResults, j >= run'.job PROVE took[j].result = A!None
  <2>1. j >= run.job
    BY <1>1, <1>2 DEF A!Jobs
  <2>2. QED BY <1>2, <2>1 DEF EvidenceSound
<1>3. QED BY <1>1, <1>2 DEF EvidenceSound, BeforeResults

\* A step before the results are read leaves the summary, the seals and the commands alone.
LEMMA EarlyKeeps ==
  ASSUME AcceptanceInv, run.pc \notin AfterResults, run'.pc \notin AfterResults,
         run'.gates = run.gates, run'.r5 = run.r5, run'.said = run.said,
         UNCHANGED <<kind, required, disk, ev, cmd, dest>>,
         run' \in Runs, took' \in [A!Jobs -> Evidences], worker' \in Workers,
         WorkerSound', EvidenceSound'
  PROVE  AcceptanceInv'
<1>1. /\ AcceptanceTyped /\ GatesSound /\ SummarySound /\ SealsSound
      /\ (\A c \in Reviews : ReviewSound(c)) /\ (\A d \in Deliveries : DeliverySound(d))
  BY DEF AcceptanceInv
<1>2. AcceptanceTyped'
  BY <1>1 DEF AcceptanceTyped
<1>3. GatesSound'
  BY <1>1 DEF GatesSound
<1>4. ~ev.summary.written /\ ~ev.summary.success /\ ~ev.summary.complete /\ run.r5 # "error"
  BY <1>1 DEF SummarySound, AfterResults
<1>5. SummarySound'
  BY <1>4 DEF SummarySound, AfterResults
<1>6. SealsSound'
  BY <1>1 DEF SealsSound, Follows, A!SealState, A!Spoke, AfterResults, Sealing
<1>7. \A c \in Reviews : ReviewSound(c)'
  BY <1>1 DEF ReviewSound, A!SealState, A!Spoke
<1>8. \A d \in Deliveries : DeliverySound(d)'
  BY <1>1 DEF DeliverySound
<1>9. QED BY <1>2, <1>3, <1>5, <1>6, <1>7, <1>8 DEF AcceptanceInv

LEMMA NextJobIs ==
  ASSUME NEW r \in Runs
  PROVE  /\ A!NextJob(r) \in Runs /\ A!NextJob(r).pc \in {"job", "results"}
         /\ A!NextJob(r).pc = "job" => A!NextJob(r).job = r.job + 1
         /\ A!NextJob(r).r0 = r.r0
         /\ A!NextJob(r).gates = r.gates /\ A!NextJob(r).r5 = r.r5 /\ A!NextJob(r).said = r.said
<1>1. CASE r.job = 3
  BY <1>1 DEF A!NextJob, Runs, RunPcs
<1>2. CASE r.job # 3
  <2>1. r.job + 1 \in A!Jobs
    BY <1>2 DEF Runs, A!Jobs
  <2>2. A!NextJob(r) = [r EXCEPT !.pc = "job", !.job = r.job + 1]
    BY <1>2 DEF A!NextJob
  <2>3. QED BY <2>1, <2>2 DEF Runs, RunPcs
<1>3. QED BY <1>1, <1>2

\* The steps of the run before its results are read.
LEMMA EarlySteps ==
  ASSUME AcceptanceInv,
         (A!VerifyBundle /\ disk["source"]) \/ A!VerifyTools \/ A!RunStages
         \/ A!BlockJob \/ A!RefuseJob \/ A!StartJob \/ A!CutOff \/ A!Reap \/ A!StopGroup \/ A!AdoptJob
  PROVE  AcceptanceInv'
<1>1. /\ run \in Runs /\ took \in [A!Jobs -> Evidences] /\ worker \in Workers
      /\ WorkerSound /\ EvidenceSound
  BY DEF AcceptanceInv, AcceptanceTyped
<1>2. UNCHANGED <<kind, required, cmd, dest>>
  BY DEF A!VerifyBundle, A!VerifyTools, A!RunStages, A!BlockJob, A!RefuseJob, A!StartJob, A!CutOff, A!Reap,
         A!StopGroup, A!AdoptJob, A!contractVars
<1>3. CASE (A!VerifyBundle /\ disk["source"]) \/ A!VerifyTools \/ A!RunStages
  <2>1. /\ run.pc \in {"bundle", "tools", "stages"} /\ UNCHANGED <<took, worker, disk, ev>>
        /\ run' \in Runs /\ run'.pc \in {"tools", "stages", "job"}
        /\ run'.gates = run.gates /\ run'.r5 = run.r5 /\ run'.said = run.said /\ run'.job = run.job
        /\ (run'.r0 = "error" => run.r0 = "error" \/ kind = "interchange")
    BY ZenonT(60), <1>1, <1>3 DEF A!VerifyBundle, A!VerifyTools, A!RunStages, Runs, RunPcs
  <2>2. WorkerSound' /\ EvidenceSound'
    <3>1. WorkerSound'
      BY <1>1, <2>1 DEF WorkerSound, Runs
    <3>2. EvidenceSound'
      BY <1>1, <1>2, <2>1, EvidenceStays DEF BeforeResults, SameReport, Sealing
    <3>3. QED BY <3>1, <3>2
  <2>3. QED BY <1>1, <1>2, <2>1, <2>2, EarlyKeeps DEF AfterResults, Sealing
<1>4. CASE A!BlockJob \/ A!RefuseJob
  <2>1. /\ run.pc = "job" /\ UNCHANGED <<took, worker, disk, ev>>
        /\ \/ run' = A!NextJob([run EXCEPT !.blocked = @ \cup {run.job}])
           \/ run' = A!NextJob([run EXCEPT !.accident = TRUE])
    BY <1>4 DEF A!BlockJob, A!RefuseJob, A!Accident
  <2>2. /\ [run EXCEPT !.blocked = @ \cup {run.job}] \in Runs /\ [run EXCEPT !.accident = TRUE] \in Runs
    BY <1>1 DEF Runs
  <2>3. /\ run' \in Runs /\ run'.pc \in {"job", "results"}
        /\ run'.gates = run.gates /\ run'.r5 = run.r5 /\ run'.said = run.said
        /\ (run'.pc = "job" => run'.job = run.job + 1) /\ run'.r0 = run.r0
    BY <1>1, <2>1, <2>2, NextJobIs DEF Runs
  <2>4. WorkerSound' /\ EvidenceSound'
    <3>1. WorkerSound'
      BY <1>1, <2>1, <2>3 DEF WorkerSound, Runs
    <3>2. EvidenceSound'
      BY <1>1, <1>2, <2>1, <2>3, EvidenceStays DEF BeforeResults, SameReport, Sealing
    <3>3. QED BY <3>1, <3>2
  <2>5. QED BY <1>1, <1>2, <2>1, <2>3, <2>4, EarlyKeeps DEF AfterResults, Sealing
<1>5. CASE A!StartJob
  <2>1. /\ run.pc = "job" /\ ~run.accident /\ run' = [run EXCEPT !.pc = "wait"]
        /\ worker' = [A!NoWorker EXCEPT !.leader = "runs"] /\ UNCHANGED <<took, disk, ev>>
        /\ run.job = 1 \/ took[1].result # "unsafe"
    BY <1>1, <1>5 DEF A!StartJob, A!Startable, A!Blocked, A!contractVars, Runs, A!Jobs
  <2>2. run' \in Runs /\ worker' \in Workers
    BY <1>1, <2>1 DEF Runs, RunPcs, Workers, A!NoWorker, Found, GateWords, A!Faults
  <2>3. WorkerSound' /\ EvidenceSound'
    <3>1. WorkerSound'
      BY <1>1, <2>1 DEF WorkerSound, Runs, A!NoWorker
    <3>2. EvidenceSound'
      BY <1>1, <1>2, <2>1, <2>2, EvidenceStays DEF Runs, BeforeResults, SameReport, Sealing
    <3>3. QED BY <3>1, <3>2
  <2>4. QED BY <1>1, <1>2, <2>1, <2>2, <2>3, EarlyKeeps DEF AfterResults, Sealing, Runs
<1>6. CASE A!CutOff \/ A!Reap
  <2>1. /\ run.pc = "wait" /\ \E a \in BOOLEAN : /\ run' = [run EXCEPT !.pc = "stop", !.accident = a]
                                                 /\ a \/ worker.leader = "left"
        /\ UNCHANGED <<took, worker, disk, ev>>
    BY <1>1, <1>6 DEF A!CutOff, A!Reap, A!Leaks, Workers
  <2>2. run' \in Runs /\ run'.pc = "stop" /\ (run'.accident \/ worker.leader = "left")
        /\ run'.gates = run.gates /\ run'.r5 = run.r5 /\ run'.said = run.said /\ run'.job = run.job
        /\ run'.r0 = run.r0
    BY <1>1, <2>1 DEF Runs, RunPcs
  <2>3. WorkerSound' /\ EvidenceSound'
    <3>1. WorkerSound'
      BY <1>1, <2>1, <2>2 DEF WorkerSound, Runs
    <3>2. EvidenceSound'
      BY <1>1, <1>2, <2>1, <2>2, EvidenceStays DEF BeforeResults, SameReport, Sealing
    <3>3. QED BY <3>1, <3>2
  <2>4. QED BY <1>1, <1>2, <2>1, <2>2, <2>3, EarlyKeeps DEF AfterResults, Sealing
<1>7. CASE A!StopGroup
  <2>1. run.pc = "stop" /\ UNCHANGED <<took, disk, ev>>
    BY <1>7 DEF A!StopGroup, A!contractVars
  <2>2. CASE ~run.accident /\ worker.rc = 0 /\ worker' = [worker EXCEPT !.kid = FALSE]
             /\ run' = [run EXCEPT !.pc = "adopt"]
    <3>1. run' \in Runs /\ worker' \in Workers
      BY <1>1, <2>2 DEF Runs, RunPcs, Workers
    <3>2. WorkerSound' /\ EvidenceSound'
      <4>1. WorkerSound'
        BY <1>1, <2>1, <2>2 DEF WorkerSound, Runs, Workers
      <4>2. EvidenceSound'
        BY <1>1, <1>2, <2>1, <2>2, <3>1, EvidenceStays DEF Runs, BeforeResults, SameReport, Sealing
      <4>3. QED BY <4>1, <4>2
    <3>3. QED BY <1>1, <1>2, <2>1, <2>2, <3>1, <3>2, EarlyKeeps DEF AfterResults, Sealing, Runs
  <2>3. CASE run' = A!Accident(run) /\ worker' \in {A!NoWorker, [A!NoWorker EXCEPT !.leader = "stuck"]}
    <3>1. [run EXCEPT !.accident = TRUE] \in Runs
      BY <1>1 DEF Runs
    <3>2. /\ run' \in Runs /\ run'.pc \in {"job", "results"}
          /\ run'.gates = run.gates /\ run'.r5 = run.r5 /\ run'.said = run.said
          /\ (run'.pc = "job" => run'.job = run.job + 1) /\ run'.r0 = run.r0
      BY <1>1, <2>3, <3>1, NextJobIs DEF Runs, A!Accident
    <3>3. worker' \in Workers /\ worker'.result = A!None /\ worker'.gate = A!None /\ worker'.leader # "runs"
      <4>1. CASE worker' = A!NoWorker
        BY <4>1 DEF Workers, A!NoWorker, Found, GateWords, A!None
      <4>2. CASE worker' = [A!NoWorker EXCEPT !.leader = "stuck"]
        BY <4>2 DEF Workers, A!NoWorker, Found, GateWords, A!None
      <4>3. QED BY <2>3, <4>1, <4>2
    <3>4. WorkerSound' /\ EvidenceSound'
      <4>1. WorkerSound'
        BY <1>1, <2>1, <3>2, <3>3 DEF WorkerSound, Runs
      <4>2. EvidenceSound'
        BY <1>1, <1>2, <2>1, <3>2, <3>3, EvidenceStays DEF BeforeResults, SameReport, Sealing
      <4>3. QED BY <4>1, <4>2
    <3>5. QED BY <1>1, <1>2, <2>1, <3>2, <3>3, <3>4, EarlyKeeps DEF AfterResults, Sealing
  <2>4. QED BY <1>7, <2>2, <2>3 DEF A!StopGroup
<1>8. CASE A!AdoptJob
  <2>1. run.pc = "adopt" /\ worker' = A!NoWorker /\ UNCHANGED <<disk, ev>>
    BY <1>8 DEF A!AdoptJob, A!contractVars
  <2>2. worker' \in Workers /\ worker'.result = A!None /\ worker'.gate = A!None /\ worker'.leader # "runs"
    BY <2>1 DEF Workers, A!NoWorker, Found, GateWords, A!None
  <2>3. [run EXCEPT !.accident = TRUE] \in Runs
    BY <1>1 DEF Runs
  <2>4. /\ run' \in Runs /\ run'.pc \in {"job", "results"}
        /\ run'.gates = run.gates /\ run'.r5 = run.r5 /\ run'.said = run.said
        /\ (run'.pc = "job" => run'.job = run.job + 1) /\ run'.r0 = run.r0
    BY <1>1, <1>8, <2>3, NextJobIs DEF Runs, A!AdoptJob, A!Accident
  <2>5. WorkerSound'
    BY <2>2, <2>4 DEF WorkerSound
  <2>6. took' \in [A!Jobs -> Evidences] /\ EvidenceSound'
    <3>1. CASE took' = took
      BY <1>1, <1>2, <2>1, <2>4, <3>1, EvidenceStays DEF BeforeResults
    <3>2. CASE took' = [took EXCEPT ![run.job] =
                [result |-> worker.result, gate |-> worker.gate, rc |-> worker.rc,
                 group |-> IF A!Alive(worker) THEN "alive" ELSE "gone"]]
      <4> DEFINE e == [result |-> worker.result, gate |-> worker.gate, rc |-> worker.rc,
                       group |-> IF A!Alive(worker) THEN "alive" ELSE "gone"]
      <4>1. ~A!Alive(worker)
        BY <1>1, <2>1 DEF WorkerSound, A!Alive
      <4>2. e \in Evidences
        BY <1>1, <4>1 DEF Workers, Evidences
      <4>3. /\ e.rc = 0 /\ e.group = "gone"
            /\ e.result # A!None => e.result \in A!ResultsOf(run.job) /\ e.gate \in A!GatesOf(run.job)
            /\ e.result = A!None => e.gate = A!None
        BY <1>1, <2>1, <4>1 DEF WorkerSound
      <4> HIDE DEF e
      <4>4. took' = [took EXCEPT ![run.job] = e]
        BY <3>2 DEF e
      <4>5. /\ run.job \in {1, 2, 3} /\ run.job \in A!Jobs /\ run.pc \in BeforeResults
            /\ run'.pc \in BeforeResults => run'.job = run.job + 1
        BY <1>1, <2>1, <2>4 DEF Runs, A!Jobs, BeforeResults
      <4>6. ASSUME NEW j \in A!Jobs
            PROVE  /\ took'[j].result = A!None => took'[j].gate = A!None
                   /\ took'[j].result # A!None =>
                        /\ took'[j].rc = 0 /\ took'[j].group = "gone"
                        /\ took'[j].result \in A!ResultsOf(j) /\ took'[j].gate \in A!GatesOf(j)
        BY <1>1, <4>3, <4>4 DEF EvidenceSound
      <4>7. ASSUME NEW j \in A!Jobs, run'.pc \in BeforeResults, j >= run'.job
            PROVE  took'[j].result = A!None
        <5>1. j # run.job /\ j >= run.job
          BY <4>5, <4>7 DEF A!Jobs
        <5>2. QED BY <1>1, <4>4, <4>5, <5>1 DEF EvidenceSound
      <4>8. ASSUME NEW j \in A!Jobs, j > 1, took'[1].result = "unsafe"
            PROVE  took'[j].result = A!None
        <5>1. CASE run.job = 1
          BY <1>1, <4>4, <4>5, <4>8, <5>1 DEF EvidenceSound, A!Jobs
        <5>2. CASE run.job # 1
          BY <1>1, <2>1, <4>4, <4>8, <5>2 DEF EvidenceSound, A!Jobs
        <5>3. QED BY <5>1, <5>2
      <4>9. (run'.r0 = "error" => kind' = "interchange") /\ run'.pc \notin {"wait", "stop", "adopt"}
        BY <1>1, <1>2, <2>4 DEF EvidenceSound
      <4>10. took' \in [A!Jobs -> Evidences]
        BY <1>1, <4>2, <4>4
      <4>11. QED BY <4>6, <4>7, <4>8, <4>9, <4>10 DEF EvidenceSound
    <3>3. QED BY <1>8, <3>1, <3>2 DEF A!AdoptJob
  <2>7. QED BY <1>1, <1>2, <2>1, <2>2, <2>4, <2>5, <2>6, EarlyKeeps DEF AfterResults, Sealing
<1>9. QED BY <1>3, <1>4, <1>5, <1>6, <1>7, <1>8

\* The words of a summary, and so of a run, stay as they are once they are written.
LEMMA ReportStays ==
  ASSUME AcceptanceInv, SameReport, ev'.summary = ev.summary, UNCHANGED <<required>>,
         run.pc \in Sealing \cup {"done"} => run'.pc \in Sealing \cup {"done"},
         run'.pc \in Sealing \cup {"done"} /\ run.pc \notin Sealing \cup {"done"} => run'.pc = "done",
         run'.pc \in Sealing => run.pc \in Sealing,
         run.pc \in AfterResults => run'.pc \in AfterResults
  PROVE  GatesSound' /\ SummarySound'
<1>1. GatesSound /\ SummarySound
  BY DEF AcceptanceInv
<1>2. A!Summary' = A!Summary /\ A!Gates' = A!Gates
  BY SameSummary
<1>3. GatesSound'
  BY <1>1, <1>2 DEF GatesSound, SameReport
<1>4. SummarySound'
  BY <1>1, <1>2 DEF SummarySound, SameReport
<1>5. QED BY <1>3, <1>4

\* The steps of the run after its results, up to its summary.
LEMMA LateSteps ==
  ASSUME AcceptanceInv, A!ReadResults \/ A!MeasureAgain \/ A!MeasurePayload
  PROVE  AcceptanceInv'
<1>1. /\ run \in Runs /\ AcceptanceTyped /\ WorkerSound /\ EvidenceSound /\ GatesSound /\ SummarySound /\ SealsSound
      /\ (\A c \in Reviews : ReviewSound(c)) /\ (\A d \in Deliveries : DeliverySound(d))
  BY DEF AcceptanceInv, AcceptanceTyped
<1>2. /\ UNCHANGED <<kind, required, disk, took, worker, ev, cmd, dest>>
      /\ run.pc \in {"results", "drift", "payload"}
  BY DEF A!ReadResults, A!MeasureAgain, A!MeasurePayload, A!contractVars
<1>3. /\ run' \in Runs /\ run'.pc \in {"drift", "payload", "summary"} /\ run'.said = run.said
      /\ run'.r0 = run.r0 /\ run'.job = run.job /\ (run'.r5 = "error" => run'.accident)
      /\ run'.gates # A!None => run'.gates = A!Gates
  <2>1. run.gates # A!None => run.gates = A!Gates
    BY <1>1 DEF GatesSound
  <2>2. run.r5 = "error" => run.accident
    BY <1>1 DEF SummarySound
  <2>3. CASE A!ReadResults
    <3>1. took[3].gate # "gap"
      BY <1>1 DEF EvidenceSound, A!Jobs, A!GatesOf, A!None
    <3>2. A!Gates \in {"pass", "fail", "incomplete"}
      BY <1>1, <3>1 DEF A!Gates, AcceptanceTyped, Evidences, GateWords, A!Jobs
    <3>3. QED BY <1>1, <2>2, <2>3, <3>2 DEF A!ReadResults, Runs, RunPcs, AcceptanceTyped, Evidences
  <2>4. CASE A!MeasureAgain
    BY <1>1, <2>1, <2>2, <2>4 DEF A!MeasureAgain, Runs, RunPcs
  <2>5. CASE A!MeasurePayload
    BY <1>1, <2>1, <2>2, <2>5 DEF A!MeasurePayload, Runs, RunPcs
  <2>6. QED BY <2>3, <2>4, <2>5
<1>4. AcceptanceTyped'
  BY <1>1, <1>2, <1>3 DEF AcceptanceTyped
<1>5. WorkerSound' /\ EvidenceSound'
  <2>1. WorkerSound'
    BY <1>1, <1>2, <1>3 DEF WorkerSound, Runs, Sealing
  <2>2. EvidenceSound'
    BY <1>1, <1>2, <1>3, EvidenceStays DEF BeforeResults, SameReport, Sealing
  <2>3. QED BY <2>1, <2>2
<1>6. GatesSound'
  <2>1. A!Gates' = A!Gates
    BY <1>2 DEF A!Gates
  <2>2. QED BY <1>3, <2>1 DEF GatesSound, AfterResults
<1>7. SummarySound'
  <2>1. ~ev.summary.written /\ ~ev.summary.success /\ ~ev.summary.complete
    BY <1>1, <1>2 DEF SummarySound, Sealing
  <2>2. QED BY <1>2, <1>3, <2>1 DEF SummarySound, AfterResults, Sealing
<1>8. SealsSound'
  BY <1>1, <1>2, <1>3 DEF SealsSound, Follows, A!SealState, A!Spoke
<1>9. (\A c \in Reviews : ReviewSound(c)') /\ (\A d \in Deliveries : DeliverySound(d)')
  BY <1>1, <1>2 DEF ReviewSound, DeliverySound, A!SealState, A!Spoke
<1>10. QED BY <1>4, <1>5, <1>6, <1>7, <1>8, <1>9 DEF AcceptanceInv

-----------------------------------------------------------------------------
(* The end of the run: its summary, its failure and its seals. *)

\* What the words of the review documents and of the deliveries rest on, unchanged.
SaysNoMore == \/ run'.said = run.said /\ (run.pc = "done" => run'.pc = "done")
              \/ run.pc # "done" /\ run'.said \notin Claims
LEMMA WordsStay ==
  ASSUME SealsSound, \A c \in Reviews : ReviewSound(c), \A d \in Deliveries : DeliverySound(d),
         UNCHANGED <<required, ev, cmd, dest>>
  PROVE  /\ (run'.pc = "completion" => run.pc = "completion") /\ SaysNoMore
              => SealsSound'
         /\ \A c \in Reviews : ReviewSound(c)'
         /\ \A d \in Deliveries : DeliverySound(d)'
<1>1. ASSUME run'.pc = "completion" => run.pc = "completion", SaysNoMore
      PROVE  SealsSound'
  BY <1>1 DEF SealsSound, Follows, A!SealState, A!Spoke, Claims, SaysNoMore
<1>2. \A c \in Reviews : ReviewSound(c)'
  BY DEF ReviewSound, A!SealState, A!Spoke
<1>3. \A d \in Deliveries : DeliverySound(d)'
  BY DEF DeliverySound
<1>4. QED BY <1>1, <1>2, <1>3

LEMMA SummaryWritten ==
  ASSUME AcceptanceInv, A!WriteSummary
  PROVE  AcceptanceInv'
<1>1. /\ AcceptanceTyped /\ WorkerSound /\ EvidenceSound /\ GatesSound /\ SummarySound /\ SealsSound
      /\ (\A c \in Reviews : ReviewSound(c)) /\ (\A d \in Deliveries : DeliverySound(d))
      /\ run \in Runs /\ ev \in ControlFiles
  BY DEF AcceptanceInv, AcceptanceTyped
<1>2. /\ run.pc = "summary" /\ UNCHANGED <<kind, required, disk, took, worker, cmd, dest>>
      /\ ev'.summary = A!Summary /\ ev'.review = ev.review /\ ev'.completion = ev.completion
      /\ ev'.receipt = ev.receipt /\ ev' \in ControlFiles
  BY <1>1, SummaryTyped DEF A!WriteSummary, A!contractVars, ControlFiles
<1>3. /\ run' \in Runs /\ run'.pc \in {"seal", "done"} /\ (run'.pc = "seal" => ~(A!Summary.success /\ required))
      /\ run'.said = run.said \/ run'.said = "NEEDS_REVIEW"
      /\ run'.job = run.job /\ run'.accident = run.accident /\ SameReport
  BY <1>1, <1>2 DEF A!WriteSummary, Runs, RunPcs, SameReport
<1>4. A!Summary' = A!Summary /\ A!Gates' = A!Gates
  BY <1>3, SameSummary
<1>5. ~ev.summary.written /\ ~ev.summary.success
  BY <1>1, <1>2 DEF SummarySound, Sealing
<1>6. ev.review.state = A!None /\ ev.completion.state = A!None
  BY <1>1, <1>5 DEF SealsSound, Follows
<1>7. AcceptanceTyped'
  BY <1>1, <1>2, <1>3 DEF AcceptanceTyped
<1>8. WorkerSound' /\ EvidenceSound'
  <2>1. WorkerSound'
    BY <1>1, <1>2, <1>3 DEF WorkerSound, Runs, Sealing
  <2>2. EvidenceSound'
    BY <1>1, <1>2, <1>3, EvidenceStays DEF BeforeResults, SameReport, Sealing
  <2>3. QED BY <2>1, <2>2
<1>9. GatesSound'
  BY <1>1, <1>3, <1>4 DEF GatesSound, SameReport, AfterResults, Sealing
<1>10. SummarySound'
  BY <1>1, <1>2, <1>3, <1>4, SummaryTyped DEF SummarySound, SameReport, AfterResults, Sealing
<1>11. SealsSound'
  BY <1>1, <1>2, <1>3, <1>6 DEF SealsSound, A!Spoke, A!Ship, A!None
<1>12. \A c \in Reviews : ReviewSound(c)'
  BY <1>1, <1>2, <1>5 DEF ReviewSound, A!Spoke
<1>13. \A d \in Deliveries : DeliverySound(d)'
  BY <1>1, <1>2 DEF DeliverySound
<1>14. QED BY <1>7, <1>8, <1>9, <1>10, <1>11, <1>12, <1>13 DEF AcceptanceInv

LEMMA FailureReported ==
  ASSUME AcceptanceInv, A!RunFails, run.pc \notin {"wait", "stop", "adopt", "done"},
         UNCHANGED <<kind, required, disk, took, worker, cmd, dest>>
  PROVE  AcceptanceInv'
<1>1. /\ AcceptanceTyped /\ WorkerSound /\ EvidenceSound /\ GatesSound /\ SummarySound /\ SealsSound
      /\ (\A c \in Reviews : ReviewSound(c)) /\ (\A d \in Deliveries : DeliverySound(d))
      /\ run \in Runs /\ ev \in ControlFiles
  BY DEF AcceptanceInv, AcceptanceTyped
<1>2. /\ run' \in Runs /\ run'.pc = "done" /\ run'.said = "UNVERIFIED" /\ run'.job = run.job /\ SameReport
  BY <1>1 DEF A!RunFails, Runs, RunPcs, SameReport, Verdicts
<1>3. CASE ev' = ev
  <2>1. AcceptanceTyped'
    BY <1>1, <1>2, <1>3 DEF AcceptanceTyped
  <2>2. WorkerSound' /\ EvidenceSound'
    <3>1. WorkerSound'
      BY <1>1, <1>2 DEF WorkerSound, Runs, Sealing
    <3>2. EvidenceSound'
      BY <1>1, <1>2, EvidenceStays DEF BeforeResults, SameReport, Sealing
    <3>3. QED BY <3>1, <3>2
  <2>3. GatesSound' /\ SummarySound'
    BY <1>2, <1>3, ReportStays DEF AfterResults, Sealing
  <2>4. SaysNoMore
    BY <1>2 DEF SaysNoMore, Claims, A!Ship
  <2>5. QED BY <1>1, <1>2, <1>3, <2>1, <2>2, <2>3, <2>4, WordsStay DEF AcceptanceInv
<1>4. CASE ev' = [ev EXCEPT !.summary = [A!NoSummary EXCEPT !.written = TRUE]] /\ ~ev.summary.written
  <2> DEFINE s == [A!NoSummary EXCEPT !.written = TRUE]
  <2>1. s \in Summaries /\ ~s.success /\ ~s.complete
    BY DEF A!NoSummary, Summaries
  <2> HIDE DEF s
  <2>2. /\ ev' \in ControlFiles /\ ev'.summary = s /\ ev'.review = ev.review
        /\ ev'.completion = ev.completion /\ ev'.receipt = ev.receipt
    BY <1>1, <1>4, <2>1 DEF ControlFiles, s
  <2>3. ~ev.summary.success
    BY <1>1, <1>4 DEF SummarySound
  <2>4. ev.review.state = A!None /\ ev.completion.state = A!None
    BY <1>1, <1>4 DEF SealsSound, Follows
  <2>5. AcceptanceTyped'
    BY <1>1, <1>2, <2>2 DEF AcceptanceTyped
  <2>6. WorkerSound' /\ EvidenceSound'
    <3>1. WorkerSound'
      BY <1>1, <1>2 DEF WorkerSound, Runs, Sealing
    <3>2. EvidenceSound'
      BY <1>1, <1>2, EvidenceStays DEF BeforeResults, SameReport, Sealing
    <3>3. QED BY <3>1, <3>2
  <2>7. GatesSound'
    BY <1>1, <1>2, SameSummary DEF GatesSound, SameReport, AfterResults
  <2>8. SummarySound'
    BY <1>1, <1>2, <2>1, <2>2 DEF SummarySound, SameReport, AfterResults, Sealing
  <2>9. SealsSound'
    BY <1>1, <1>2, <2>2, <2>4 DEF SealsSound, A!Spoke, A!Ship, A!None
  <2>10. \A c \in Reviews : ReviewSound(c)'
    BY <1>1, <2>2, <2>3 DEF ReviewSound, A!Spoke
  <2>11. \A d \in Deliveries : DeliverySound(d)'
    BY <1>1, <2>2 DEF DeliverySound
  <2>12. QED BY <2>5, <2>6, <2>7, <2>8, <2>9, <2>10, <2>11 DEF AcceptanceInv
<1>5. QED BY <1>3, <1>4 DEF A!RunFails

\* The seals the run writes itself.
LEMMA RunSeals ==
  ASSUME AcceptanceInv, A!SealRun \/ A!RunWritesReview \/ A!RunWritesCompletion
  PROVE  AcceptanceInv'
<1>1. /\ AcceptanceTyped /\ WorkerSound /\ EvidenceSound /\ GatesSound /\ SummarySound /\ SealsSound
      /\ (\A c \in Reviews : ReviewSound(c)) /\ (\A d \in Deliveries : DeliverySound(d))
      /\ run \in Runs /\ ev \in ControlFiles
  BY DEF AcceptanceInv, AcceptanceTyped
<1>2. /\ UNCHANGED <<kind, required, disk, took, worker, cmd, dest>> /\ run.pc \in Sealing
  BY DEF A!SealRun, A!RunWritesReview, A!RunWritesCompletion, A!contractVars, Sealing
<1>3. ev.summary = A!Summary /\ ev.summary.written /\ ~(ev.summary.success /\ required)
  BY <1>1, <1>2, SummaryTyped DEF SummarySound
<1> DEFINE state == A!SealState(ev.summary, A!None)
           seal == A!Sealed(state, "run", A!None)
<1>4. state \in Verdicts /\ state # A!None
  BY SealVerdict
<1>5. seal \in Seals /\ seal.state = state /\ seal.by = "run" /\ seal.review = A!None
  BY <1>4 DEF A!Sealed, Seals
<1> HIDE DEF state, seal
<1>6. CASE A!RunFails
  BY <1>2, <1>6, FailureReported DEF Sealing
<1>7. CASE A!SealRun /\ ~A!RunFails
  <2>1. /\ run' \in Runs /\ run'.pc = "review" /\ run'.said = run.said /\ run'.job = run.job
        /\ run.pc = "seal" /\ SameReport /\ ev' = ev
    BY <1>1, <1>2, <1>7 DEF A!SealRun, Runs, RunPcs, SameReport
  <2>2. AcceptanceTyped' /\ WorkerSound' /\ EvidenceSound'
    <3>1. AcceptanceTyped' /\ WorkerSound'
      BY <1>1, <1>2, <2>1 DEF AcceptanceTyped, WorkerSound, Runs, Sealing
    <3>2. EvidenceSound'
      BY <1>1, <1>2, <2>1, EvidenceStays DEF BeforeResults, SameReport, Sealing
    <3>3. QED BY <3>1, <3>2
  <2>3. GatesSound' /\ SummarySound'
    BY <1>2, <2>1, ReportStays DEF AfterResults, Sealing
  <2>4. QED BY <1>1, <1>2, <2>1, <2>2, <2>3, WordsStay DEF AcceptanceInv, SaysNoMore
<1>8. CASE A!RunWritesReview /\ ~A!RunFails
  <2>1. /\ run' \in Runs /\ run'.pc = "completion" /\ run'.said = run.said /\ run'.job = run.job
        /\ run.pc = "review" /\ SameReport /\ ev.review.state = A!None /\ ev' = [ev EXCEPT !.review = seal]
    BY <1>1, <1>2, <1>8 DEF A!RunWritesReview, A!Link, Runs, RunPcs, SameReport, seal, state
  <2>2. /\ ev' \in ControlFiles /\ ev'.summary = ev.summary /\ ev'.review = seal
        /\ ev'.completion = ev.completion /\ ev'.receipt = ev.receipt
    BY <1>1, <1>5, <2>1 DEF ControlFiles
  <2>3. ev.completion.state = A!None
    BY <1>1, <2>1 DEF SealsSound
  <2>4. AcceptanceTyped' /\ WorkerSound' /\ EvidenceSound'
    <3>1. AcceptanceTyped' /\ WorkerSound'
      BY <1>1, <1>2, <2>1, <2>2 DEF AcceptanceTyped, WorkerSound, Runs, Sealing
    <3>2. EvidenceSound'
      BY <1>1, <1>2, <2>1, <2>2, EvidenceStays DEF BeforeResults, SameReport, Sealing
    <3>3. QED BY <3>1, <3>2
  <2>5. GatesSound' /\ SummarySound'
    BY <1>2, <2>1, <2>2, ReportStays DEF AfterResults, Sealing
  <2>6. SealsSound'
    <3>1. ev'.review = A!Sealed(A!SealState(ev'.summary, A!None), "run", A!None)
      BY <2>2 DEF seal, state
    <3>2. Follows(ev.review)'
      BY <1>2, <1>3, <1>5, <2>2 DEF Follows, state, A!SealState
    <3>3. A!Spoke("run", run.said)'
      BY <1>1, <1>4, <2>1, <2>2, <2>3 DEF SealsSound, A!Spoke, A!Ship, A!None
    <3>4. QED BY <1>1, <1>2, <2>1, <2>2, <2>3, <3>1, <3>2, <3>3 DEF SealsSound, A!SealState, A!Spoke
  <2>7. \A c \in Reviews : ReviewSound(c)'
    <3> SUFFICES ASSUME NEW c \in Reviews PROVE ReviewSound(c)'
      OBVIOUS
    <3>1. cmd[c].pc # "completion"
      <4>1. A!SealState(ev.summary, cmd[c].review) # A!None
        BY SealVerdict
      <4>2. ReviewSound(c)
        BY <1>1
      <4>3. cmd[c].pc = "completion" => ev.review.state = cmd[c].state /\ cmd[c].state = A!SealState(ev.summary, cmd[c].review)
        BY <4>2 DEF ReviewSound, A!Sealed
      <4>4. QED BY <2>1, <4>1, <4>3
    <3>2. A!Spoke(c, cmd[c].said)'
      BY <1>1, <1>2, <2>2, <2>3 DEF ReviewSound, A!Spoke, A!Ship, A!None
    <3>3. QED BY <1>1, <1>2, <2>2, <3>1, <3>2 DEF ReviewSound, A!SealState, A!Spoke
  <2>8. \A d \in Deliveries : DeliverySound(d)'
    BY <1>1, <1>2, <2>2 DEF DeliverySound
  <2>9. QED BY <2>4, <2>5, <2>6, <2>7, <2>8 DEF AcceptanceInv
<1>9. CASE A!RunWritesCompletion
  <2>1. /\ run' \in Runs /\ run'.pc = "done" /\ run'.said = state /\ run'.job = run.job
        /\ run.pc = "completion" /\ SameReport /\ ev.completion.state = A!None
        /\ ev' = [ev EXCEPT !.completion = seal]
    BY <1>1, <1>2, <1>4, <1>9 DEF A!RunWritesCompletion, A!Link, Runs, RunPcs, SameReport, seal, state
  <2>2. /\ ev' \in ControlFiles /\ ev'.summary = ev.summary /\ ev'.completion = seal
        /\ ev'.review = ev.review /\ ev'.receipt = ev.receipt
    BY <1>1, <1>5, <2>1 DEF ControlFiles
  <2>3. ev.review = seal
    BY <1>1, <2>1 DEF SealsSound, seal, state
  <2>4. AcceptanceTyped' /\ WorkerSound' /\ EvidenceSound'
    <3>1. AcceptanceTyped' /\ WorkerSound'
      BY <1>1, <1>2, <2>1, <2>2 DEF AcceptanceTyped, WorkerSound, Runs, Sealing
    <3>2. EvidenceSound'
      BY <1>1, <1>2, <2>1, <2>2, EvidenceStays DEF BeforeResults, SameReport, Sealing
    <3>3. QED BY <3>1, <3>2
  <2>5. GatesSound' /\ SummarySound'
    BY <1>2, <2>1, <2>2, ReportStays DEF AfterResults, Sealing
  <2>6. SealsSound'
    <3>1. Follows(ev.review)'
      BY <1>1, <1>2, <1>4, <1>5, <2>2, <2>3 DEF SealsSound, Follows, A!SealState
    <3>2. QED BY <1>5, <2>1, <2>2, <2>3, <3>1 DEF SealsSound, A!Spoke
  <2>7. \A c \in Reviews : ReviewSound(c)'
    <3> SUFFICES ASSUME NEW c \in Reviews PROVE ReviewSound(c)'
      OBVIOUS
    <3>1. cmd[c].pc # "completion"
      BY <1>1, <1>5, <2>3, Names DEF ReviewSound, A!Sealed
    <3>2. A!Spoke(c, cmd[c].said)'
      BY <1>1, <1>2, <1>5, <2>1, <2>2, Names DEF ReviewSound, A!Spoke, A!Ship, A!None
    <3>3. QED BY <1>1, <1>2, <1>5, <2>2, Names, <3>1, <3>2 DEF ReviewSound, A!SealState, A!Spoke
  <2>8. \A d \in Deliveries : DeliverySound(d)'
    BY <1>1, <1>2, <2>1, <2>2 DEF DeliverySound, A!Ship, A!None
  <2>9. QED BY <2>4, <2>5, <2>6, <2>7, <2>8 DEF AcceptanceInv
<1>10. QED BY <1>6, <1>7, <1>8, <1>9

-----------------------------------------------------------------------------
(* The reviews, the deliveries, and the rest of the machine. *)

\* A step that leaves the run and its evidence alone leaves alone what is said of them.
LEMMA RunStays ==
  ASSUME AcceptanceInv, UNCHANGED <<kind, required, run, took, worker>>, ev'.summary = ev.summary
  PROVE  WorkerSound' /\ EvidenceSound' /\ GatesSound' /\ SummarySound'
<1>1. WorkerSound /\ EvidenceSound
  BY DEF AcceptanceInv
<1>2. WorkerSound' /\ EvidenceSound'
  BY <1>1 DEF WorkerSound, EvidenceSound
<1>3. SameReport
  BY DEF SameReport
<1>4. GatesSound' /\ SummarySound'
  BY <1>3, ReportStays DEF Sealing
<1>5. QED BY <1>2, <1>4

\* One command moves, and writes no seal.
LEMMA CommandMoves ==
  ASSUME AcceptanceInv, NEW c \in Reviews \cup Deliveries,
         UNCHANGED <<kind, required, disk, run, took, worker>>,
         cmd' \in [Reviews \cup Deliveries -> Commands], \A x \in (Reviews \cup Deliveries) \ {c} : cmd'[x] = cmd[x],
         dest' \in [Deliveries -> {A!None, "D"}], \A x \in Deliveries \ {c} : dest'[x] = dest[x],
         ev' \in ControlFiles, ev'.summary = ev.summary, ev'.review = ev.review, ev'.completion = ev.completion,
         \A x \in Deliveries \ {c} : ev.receipt = x => ev'.receipt = x,
         c \in Reviews => ReviewSound(c)', c \in Deliveries => DeliverySound(c)'
  PROVE  AcceptanceInv'
<1>1. /\ AcceptanceTyped /\ SealsSound
      /\ (\A x \in Reviews : ReviewSound(x)) /\ (\A x \in Deliveries : DeliverySound(x))
  BY DEF AcceptanceInv
<1>2. AcceptanceTyped'
  BY <1>1 DEF AcceptanceTyped
<1>3. SealsSound'
  BY <1>1 DEF SealsSound, Follows, A!SealState, A!Spoke
<1>4. ASSUME NEW x \in Reviews PROVE ReviewSound(x)'
  <2>1. CASE x # c
    BY <1>1, <2>1 DEF ReviewSound, A!SealState, A!Spoke
  <2>2. QED BY <2>1
<1>5. ASSUME NEW x \in Deliveries PROVE DeliverySound(x)'
  <2>1. CASE x # c
    BY <1>1, <2>1 DEF DeliverySound
  <2>2. QED BY <2>1
<1>6. QED BY <1>2, <1>3, <1>4, <1>5, RunStays DEF AcceptanceInv

\* A command that ended has nothing in its hands any more.
LEMMA EndedIs ==
  ASSUME AcceptanceTyped, NEW c \in Reviews \cup Deliveries, NEW said \in {"killed", "delivered"} \cup Verdicts,
         A!Ends(c, said)
  PROVE  /\ cmd' \in [Reviews \cup Deliveries -> Commands]
         /\ cmd'[c].pc = "done" /\ cmd'[c].said = said
         /\ \A x \in (Reviews \cup Deliveries) \ {c} : cmd'[x] = cmd[x]
<1> DEFINE e == [pc |-> "done", review |-> A!None, state |-> A!None, said |-> said]
<1>1. e \in Commands /\ e.pc = "done" /\ e.said = said
  BY DEF Commands
<1>2. cmd' = [cmd EXCEPT ![c] = e]
  BY DEF A!Ends
<1> HIDE DEF e
<1>3. QED BY <1>1, <1>2 DEF AcceptanceTyped

LEMMA CommandFails ==
  ASSUME AcceptanceInv, NEW c \in Reviews \cup Deliveries, cmd[c].pc # "done",
         A!Fails(c) \/ A!Ends(c, "killed"),
         UNCHANGED <<kind, required, disk, run, took, worker, ev, dest>>
  PROVE  AcceptanceInv'
<1>1. AcceptanceTyped /\ (\A d \in Deliveries : DeliverySound(d))
  BY DEF AcceptanceInv
<1>2. /\ cmd' \in [Reviews \cup Deliveries -> Commands]
      /\ cmd'[c].pc = "done" /\ cmd'[c].said \in {"UNVERIFIED", "killed"}
      /\ \A x \in (Reviews \cup Deliveries) \ {c} : cmd'[x] = cmd[x]
  BY <1>1, EndedIs DEF A!Fails, Verdicts
<1>3. c \in Reviews => ReviewSound(c)'
  BY <1>2 DEF AcceptanceInv, ReviewSound, A!Spoke, A!Ship
<1>4. c \in Deliveries => DeliverySound(c)'
  BY <1>1, <1>2 DEF DeliverySound
<1>5. QED BY <1>1, <1>2, <1>3, <1>4, CommandMoves DEF AcceptanceTyped

\* A review up to the seal it computes.
LEMMA ReviewMoves ==
  ASSUME AcceptanceInv, NEW c \in Reviews, A!OpenReview(c) \/ A!VerifyReview(c) \/ A!SealReview(c)
  PROVE  AcceptanceInv'
<1>1. AcceptanceTyped /\ ReviewSound(c) /\ c \notin Deliveries
  BY Names DEF AcceptanceInv
<1>2. UNCHANGED <<kind, required, disk, run, took, worker, ev, dest>>
  BY DEF A!OpenReview, A!VerifyReview, A!SealReview, A!onlyCommands, A!contractVars
<1>3. CASE A!OpenReview(c)
  <2>1. PICK doc \in {"approve", "reject", "invalid"} :
          cmd' = [cmd EXCEPT ![c] = [cmd[c] EXCEPT !.pc = "verify", !.review = doc]]
    BY <1>1, <1>3 DEF A!OpenReview, AcceptanceTyped
  <2> DEFINE e == [cmd[c] EXCEPT !.pc = "verify", !.review = doc]
  <2>2. e \in Commands /\ e.pc = "verify" /\ e.said = cmd[c].said /\ e.review # A!None
    BY ZenonT(60), <1>1 DEF AcceptanceTyped, Commands, A!None
  <2> HIDE DEF e
  <2>3. cmd' = [cmd EXCEPT ![c] = e]
    BY <2>1 DEF e
  <2>4. /\ cmd' \in [Reviews \cup Deliveries -> Commands] /\ cmd'[c] = e
        /\ \A x \in (Reviews \cup Deliveries) \ {c} : cmd'[x] = cmd[x]
    BY <1>1, <2>2, <2>3 DEF AcceptanceTyped
  <2>5. ReviewSound(c)'
    BY <1>1, <1>2, <1>3, <2>2, <2>4 DEF ReviewSound, A!OpenReview, A!Spoke
  <2>6. QED BY <1>1, <1>2, <2>4, <2>5, CommandMoves DEF AcceptanceTyped
<1>4. CASE A!Fails(c)
  BY <1>1, <1>2, <1>4, CommandFails DEF A!OpenReview, A!VerifyReview, A!SealReview
<1>5. CASE A!VerifyReview(c) /\ ~A!Fails(c)
  <2>1. cmd[c].pc = "verify" /\ cmd' = [cmd EXCEPT ![c] = [cmd[c] EXCEPT !.pc = "seal"]]
    BY <1>1, <1>5 DEF A!VerifyReview, A!Goes, AcceptanceTyped
  <2>2. /\ cmd' \in [Reviews \cup Deliveries -> Commands]
        /\ \A x \in (Reviews \cup Deliveries) \ {c} : cmd'[x] = cmd[x]
        /\ cmd'[c].pc = "seal" /\ cmd'[c].said = cmd[c].said /\ cmd'[c].review = cmd[c].review
    BY <1>1, <2>1 DEF AcceptanceTyped, Commands
  <2>3. ReviewSound(c)'
    BY <1>1, <1>2, <2>1, <2>2 DEF ReviewSound, A!Spoke
  <2>4. QED BY <1>1, <1>2, <2>2, <2>3, CommandMoves DEF AcceptanceTyped
<1>6. CASE A!SealReview(c) /\ ~A!Fails(c)
  <2> DEFINE state == A!SealState(ev.summary, cmd[c].review)
             e == [cmd[c] EXCEPT !.pc = "review", !.state = state]
  <2>1. /\ cmd[c].pc = "seal" /\ cmd[c].review \in {"approve", "reject"} /\ cmd' = [cmd EXCEPT ![c] = e]
    BY <1>1, <1>6 DEF A!SealReview, AcceptanceTyped, Commands, ReviewSound
  <2>2. state \in Verdicts
    BY SealVerdict
  <2>3. e \in Commands /\ e.pc = "review" /\ e.said = cmd[c].said /\ e.review = cmd[c].review /\ e.state = state
    BY <1>1, <2>2 DEF AcceptanceTyped, Commands
  <2> HIDE DEF e
  <2>4. /\ cmd' \in [Reviews \cup Deliveries -> Commands] /\ cmd'[c] = e
        /\ \A x \in (Reviews \cup Deliveries) \ {c} : cmd'[x] = cmd[x]
    BY <1>1, <2>1, <2>3 DEF AcceptanceTyped
  <2>5. A!SealState(ev'.summary, cmd'[c].review) = state
    BY <1>2, <2>3, <2>4
  <2>6. A!Spoke(c, cmd[c].said)'
    BY <1>1, <1>2, <2>3, <2>4 DEF ReviewSound, A!Spoke
  <2>7. ReviewSound(c)'
    BY <1>1, <1>2, <2>1, <2>3, <2>4, <2>5, <2>6 DEF ReviewSound, A!SealState, A!None
  <2>8. QED BY <1>1, <1>2, <2>4, <2>7, CommandMoves DEF AcceptanceTyped
<1>7. QED BY <1>3, <1>4, <1>5, <1>6 DEF A!OpenReview, A!VerifyReview, A!SealReview

\* The first of those who seal takes the name of the review.
LEMMA ReviewWritten ==
  ASSUME AcceptanceInv, NEW c \in Reviews, A!WriteReview(c)
  PROVE  AcceptanceInv'
<1>1. /\ AcceptanceTyped /\ SealsSound /\ SummarySound /\ ReviewSound(c)
      /\ (\A x \in Reviews : ReviewSound(x)) /\ (\A d \in Deliveries : DeliverySound(d))
  BY DEF AcceptanceInv
<1>2. /\ UNCHANGED <<kind, required, disk, run, took, worker, dest>> /\ cmd[c].pc = "review"
  BY DEF A!WriteReview, A!onlyCommands, A!contractVars
<1>3. CASE A!Taken("review") /\ A!Fails(c) /\ UNCHANGED ev
  BY <1>1, <1>2, <1>3, CommandFails
<1>4. CASE A!Link("review", A!Sealed(cmd[c].state, c, cmd[c].review)) /\ A!Goes(c, "completion")
  <2> DEFINE seal == A!Sealed(cmd[c].state, c, cmd[c].review)
             e == [cmd[c] EXCEPT !.pc = "completion"]
  <2>1. /\ cmd[c].review \in {"approve", "reject"} /\ cmd[c].state = A!SealState(ev.summary, cmd[c].review)
        /\ ev.summary.success
    BY <1>1, <1>2 DEF ReviewSound
  <2>2. cmd[c].state \in Verdicts /\ cmd[c].state # A!None
    BY <2>1, SealVerdict
  <2>3. /\ seal \in Seals /\ seal.state = cmd[c].state /\ seal.by = c /\ seal.review = cmd[c].review
    BY <2>1, <2>2 DEF A!Sealed, Seals
  <2>4. e \in Commands /\ e.pc = "completion" /\ e.said = cmd[c].said /\ e.review = cmd[c].review
        /\ e.state = cmd[c].state
    BY <1>1 DEF AcceptanceTyped, Commands
  <2>5. cmd' = [cmd EXCEPT ![c] = e]
    BY <1>1, <1>4 DEF A!Goes, AcceptanceTyped
  <2>6. ev.review.state = A!None /\ ev' = [ev EXCEPT !.review = seal]
    BY <1>4 DEF A!Link
  <2> HIDE DEF seal, e
  <2>7. /\ cmd' \in [Reviews \cup Deliveries -> Commands] /\ cmd'[c] = e
        /\ \A x \in (Reviews \cup Deliveries) \ {c} : cmd'[x] = cmd[x]
    BY <1>1, <2>4, <2>5 DEF AcceptanceTyped
  <2>8. /\ ev' \in ControlFiles /\ ev'.summary = ev.summary /\ ev'.review = seal
        /\ ev'.completion = ev.completion /\ ev'.receipt = ev.receipt
    BY <1>1, <2>3, <2>6 DEF ControlFiles, AcceptanceTyped
  <2>9. ev.completion.state = A!None
    BY <1>1, <2>6 DEF SealsSound
  <2>10. AcceptanceTyped'
    BY <1>1, <1>2, <2>7, <2>8 DEF AcceptanceTyped
  <2>11. SealsSound'
    <3>1. Follows(ev.review)'
      <4>1. ev.summary.written
        BY <1>1, <2>1 DEF SummarySound
      <4>2. ev'.review.state = A!SealState(ev.summary, ev'.review.review) /\ ev'.review.review # A!None
        BY <2>1, <2>3, <2>8 DEF A!None
      <4>3. QED BY <2>8, <4>1, <4>2 DEF Follows, A!SealState
    <3>2. run.pc # "completion"
      BY <1>1, <2>6, SealVerdict DEF SealsSound, A!Sealed
    <3>3. A!Spoke("run", run.said)'
      BY <1>1, <1>2, <2>8, <2>9 DEF SealsSound, A!Spoke, A!Ship, A!None
    <3>4. QED BY <1>1, <1>2, <2>8, <2>9, <3>1, <3>2, <3>3 DEF SealsSound
  <2>12. ASSUME NEW x \in Reviews PROVE ReviewSound(x)'
    <3>1. ReviewSound(x)
      BY <1>1
    <3>2. A!Spoke(x, cmd[x].said)' /\ cmd'[x].said = cmd[x].said
      BY <1>2, <2>4, <2>7, <2>8, <2>9, <3>1 DEF ReviewSound, A!Spoke, A!Ship, A!None
    <3>3. CASE x = c
      <4>1. ev'.review = A!Sealed(cmd'[x].state, x, cmd'[x].review)
        BY <2>4, <2>7, <2>8, <3>3 DEF seal
      <4>2. cmd'[x].state = A!SealState(ev'.summary, cmd'[x].review)
        BY <2>1, <2>4, <2>7, <2>8, <3>3
      <4>3. QED BY <1>2, <2>1, <3>1, <2>4, <2>7, <2>8, <2>9, <3>2, <3>3, <4>1, <4>2 DEF ReviewSound, A!SealState, A!Sealed, A!None
    <3>4. CASE x # c
      <4>1. cmd[x].pc = "completion" => ev.review.state = cmd[x].state /\ cmd[x].state = A!SealState(ev.summary, cmd[x].review)
        BY <3>1 DEF ReviewSound, A!Sealed
      <4>2. cmd[x].pc # "completion"
        BY <2>6, <4>1, SealVerdict
      <4>3. QED BY <2>7, <2>8, <3>1, <3>2, <3>4, <4>2 DEF ReviewSound, A!SealState
    <3>5. QED BY <3>3, <3>4
  <2>13. ASSUME NEW d \in Deliveries PROVE DeliverySound(d)'
    BY <1>1, <1>2, <2>7, <2>8, Names DEF DeliverySound
  <2>14. QED BY <1>2, <2>8, <2>10, <2>11, <2>12, <2>13, RunStays DEF AcceptanceInv
<1>5. QED BY <1>3, <1>4 DEF A!WriteReview

\* Only who took the name of the review finds its way to the completion.
LEMMA CompletionWritten ==
  ASSUME AcceptanceInv, NEW c \in Reviews, A!WriteCompletion(c)
  PROVE  AcceptanceInv'
<1>1. /\ AcceptanceTyped /\ SealsSound /\ ReviewSound(c)
      /\ (\A x \in Reviews : ReviewSound(x)) /\ (\A d \in Deliveries : DeliverySound(d))
  BY DEF AcceptanceInv
<1>2. /\ UNCHANGED <<kind, required, disk, run, took, worker, dest>> /\ cmd[c].pc = "completion"
      /\ ev.completion.state = A!None /\ ev' = [ev EXCEPT !.completion = A!Sealed(cmd[c].state, c, cmd[c].review)]
      /\ A!Ends(c, cmd[c].state)
  BY DEF A!WriteCompletion, A!Link, A!onlyCommands, A!contractVars
<1>3. /\ ev.review = A!Sealed(cmd[c].state, c, cmd[c].review)
      /\ cmd[c].state = A!SealState(ev.summary, cmd[c].review)
  BY <1>1, <1>2 DEF ReviewSound
<1>4. cmd[c].state \in Verdicts /\ cmd[c].state # A!None
  BY <1>3, SealVerdict
<1>5. ev.review.state = cmd[c].state /\ ev.review.by = c /\ ev.review.state # A!None
  BY <1>3, <1>4 DEF A!Sealed
<1>6. ev' = [ev EXCEPT !.completion = ev.review]
  BY <1>2, <1>3
<1>7. /\ ev' \in ControlFiles /\ ev'.summary = ev.summary /\ ev'.completion = ev.review
      /\ ev'.review = ev.review /\ ev'.receipt = ev.receipt
  BY <1>1, <1>6 DEF ControlFiles, AcceptanceTyped
<1>8. /\ cmd' \in [Reviews \cup Deliveries -> Commands] /\ cmd'[c].pc = "done" /\ cmd'[c].said = cmd[c].state
      /\ \A x \in (Reviews \cup Deliveries) \ {c} : cmd'[x] = cmd[x]
  BY <1>1, <1>2, <1>4, EndedIs
<1>9. AcceptanceTyped'
  BY <1>1, <1>2, <1>7, <1>8 DEF AcceptanceTyped
<1>10. SealsSound'
  <2>1. Follows(ev.review)'
    BY <1>1, <1>2, <1>5, <1>7 DEF SealsSound, Follows, A!SealState
  <2>2. run.pc # "completion"
    <3>1. run.pc = "completion" => ev.review.by = "run"
      BY <1>1 DEF SealsSound, A!Sealed
    <3>2. QED BY <1>5, <3>1, Names
  <2>3. A!Spoke("run", run.said)'
    BY <1>1, <1>2, <1>5, <1>7, Names DEF SealsSound, A!Spoke, A!Ship, A!None
  <2>4. QED BY <1>2, <1>5, <1>7, Names, <2>1, <2>2, <2>3 DEF SealsSound
<1>11. ASSUME NEW x \in Reviews PROVE ReviewSound(x)'
  <2>1. ReviewSound(x)
    BY <1>1
  <2>2. CASE x = c
    BY <1>5, <1>7, <1>8, <2>2 DEF ReviewSound, A!Spoke
  <2>3. CASE x # c
    <3>1. cmd[x].pc = "completion" => ev.review.by = x
      BY <2>1 DEF ReviewSound, A!Sealed
    <3>2. cmd[x].pc # "completion"
      BY <1>5, <2>3, <3>1
    <3>3. A!Spoke(x, cmd[x].said)' /\ cmd'[x] = cmd[x]
      BY <1>2, <1>5, <1>7, <1>8, <2>1, <2>3 DEF ReviewSound, A!Spoke, A!Ship, A!None
    <3>4. QED BY <1>5, <1>7, <2>3, <2>1, <3>2, <3>3 DEF ReviewSound, A!SealState
  <2>4. QED BY <2>2, <2>3
<1>12. ASSUME NEW d \in Deliveries PROVE DeliverySound(d)'
  BY <1>1, <1>2, <1>7, <1>8, Names DEF DeliverySound, A!Ship, A!None
<1>13. QED BY <1>2, <1>7, <1>9, <1>10, <1>11, <1>12, RunStays DEF AcceptanceInv

LEMMA DeliverySteps ==
  ASSUME AcceptanceInv, NEW d \in Deliveries, A!OpenDelivery(d) \/ A!CopyDelivery(d) \/ A!WriteReceipt(d)
  PROVE  AcceptanceInv'
<1>1. AcceptanceTyped /\ DeliverySound(d) /\ d \notin Reviews /\ d # A!None
  BY Names DEF AcceptanceInv
<1>2. UNCHANGED <<kind, required, disk, run, took, worker>>
  BY DEF A!OpenDelivery, A!CopyDelivery, A!WriteReceipt, A!onlyCommands, A!contractVars
<1>3. CASE A!Fails(d)
  <2>1. cmd'[d].pc = "done" /\ cmd'[d].said = "UNVERIFIED"
    BY <1>1, <1>3, EndedIs DEF A!Fails, Verdicts
  <2>2. A!Goes(d, "receipt") => cmd'[d].pc = "receipt"
    BY <1>1 DEF A!Goes, AcceptanceTyped, Commands
  <2>3. A!Ends(d, "delivered") => cmd'[d].said = "delivered"
    BY <1>1, EndedIs
  <2>4. UNCHANGED <<ev, dest>>
    BY <2>1, <2>2, <2>3 DEF A!OpenDelivery, A!CopyDelivery, A!WriteReceipt
  <2>5. QED BY <1>2, <1>3, <2>4, CommandFails DEF A!OpenDelivery, A!CopyDelivery, A!WriteReceipt
<1>4. CASE \E to \in {"copy", "receipt"} :
             /\ A!Goes(d, to) /\ ev' = ev /\ ev.completion.state \in A!Ship /\ cmd[d].pc \in {"idle", "copy"}
             /\ \/ to = "copy" /\ dest' = dest
                \/ to = "receipt" /\ dest' = [dest EXCEPT ![d] = "D"]
  <2>1. PICK to \in {"copy", "receipt"} :
             /\ A!Goes(d, to) /\ ev' = ev /\ ev.completion.state \in A!Ship /\ cmd[d].pc \in {"idle", "copy"}
             /\ \/ to = "copy" /\ dest' = dest
                \/ to = "receipt" /\ dest' = [dest EXCEPT ![d] = "D"]
    BY <1>4
  <2> DEFINE e == [cmd[d] EXCEPT !.pc = to]
  <2>2. e \in Commands /\ e.pc = to /\ e.said = cmd[d].said
    BY <1>1 DEF AcceptanceTyped, Commands
  <2>3. cmd' = [cmd EXCEPT ![d] = e]
    BY <1>1, <2>1 DEF A!Goes, AcceptanceTyped
  <2> HIDE DEF e
  <2>4. /\ cmd' \in [Reviews \cup Deliveries -> Commands] /\ cmd'[d] = e
        /\ \A x \in (Reviews \cup Deliveries) \ {d} : cmd'[x] = cmd[x]
    BY <1>1, <2>2, <2>3 DEF AcceptanceTyped
  <2>5. /\ dest' \in [Deliveries -> {A!None, "D"}] /\ (to = "receipt" => dest'[d] = "D")
        /\ (dest[d] = "D" => dest'[d] = "D") /\ \A x \in Deliveries \ {d} : dest'[x] = dest[x]
    BY <1>1, <2>1 DEF AcceptanceTyped
  <2>6. DeliverySound(d)'
    BY <1>1, <2>1, <2>2, <2>4, <2>5 DEF DeliverySound
  <2>7. QED BY <1>1, <1>2, <2>1, <2>4, <2>5, <2>6, CommandMoves DEF AcceptanceTyped
<1>5. CASE A!WriteReceipt(d) /\ ~A!Fails(d)
  <2>1. /\ cmd[d].pc = "receipt" /\ ev.receipt = A!None /\ ev' = [ev EXCEPT !.receipt = d]
        /\ A!Ends(d, "delivered") /\ dest' = dest
    BY <1>5 DEF A!WriteReceipt
  <2>2. /\ ev' \in ControlFiles /\ ev'.summary = ev.summary /\ ev'.completion = ev.completion
        /\ ev'.review = ev.review /\ ev'.receipt = d
    BY <1>1, <2>1 DEF ControlFiles, AcceptanceTyped
  <2>3. /\ cmd' \in [Reviews \cup Deliveries -> Commands] /\ cmd'[d].pc = "done" /\ cmd'[d].said = "delivered"
        /\ \A x \in (Reviews \cup Deliveries) \ {d} : cmd'[x] = cmd[x]
    BY <1>1, <2>1, EndedIs
  <2>4. DeliverySound(d)'
    BY <1>1, <2>1, <2>2, <2>3 DEF DeliverySound
  <2>5. \A x \in Deliveries : ev.receipt # x
    BY <2>1, Names
  <2>6. QED BY <1>1, <1>2, <2>1, <2>2, <2>3, <2>4, <2>5, CommandMoves DEF AcceptanceTyped
<1>6. QED
  <2>1. A!OpenDelivery(d) => A!Fails(d) \/ <1>4!1
    BY <1>1 DEF A!OpenDelivery
  <2>2. A!CopyDelivery(d) => A!Fails(d) \/ <1>4!1
    BY <1>1 DEF A!CopyDelivery, DeliverySound
  <2>3. QED BY <1>3, <1>4, <1>5, <2>1, <2>2

\* The worker ends, a file is edited, a command is killed.
LEMMA TheRest ==
  ASSUME AcceptanceInv, A!WorkerEnds \/ A!EditFile \/ A!Kill \/ UNCHANGED A!vars
  PROVE  AcceptanceInv'
<1>1. /\ AcceptanceTyped /\ WorkerSound /\ EvidenceSound /\ GatesSound /\ SummarySound /\ SealsSound
      /\ (\A c \in Reviews : ReviewSound(c)) /\ (\A d \in Deliveries : DeliverySound(d))
      /\ run \in Runs /\ worker \in Workers
  BY DEF AcceptanceInv, AcceptanceTyped
<1>2. ASSUME UNCHANGED <<kind, required, run, took, ev, cmd, dest>>,
             disk' \in [A!Files -> BOOLEAN], worker' \in Workers, WorkerSound'
      PROVE  AcceptanceInv'
  <2>1. SameReport
    BY <1>2 DEF SameReport
  <2>2. GatesSound' /\ SummarySound'
    BY <1>2, <2>1, ReportStays DEF Sealing
  <2>3. AcceptanceTyped'
    BY <1>1, <1>2 DEF AcceptanceTyped
  <2>4. EvidenceSound'
    BY <1>1, <1>2 DEF EvidenceSound
  <2>5. QED BY <1>1, <1>2, <2>2, <2>3, <2>4, WordsStay DEF AcceptanceInv, SaysNoMore
<1>3. CASE A!WorkerEnds
  <2>1. /\ UNCHANGED <<kind, required, disk, run, took, ev, cmd, dest>> /\ worker.leader = "runs"
    BY <1>3 DEF A!WorkerEnds, A!contractVars
  <2>2. run.pc \notin {"adopt"} /\ (run.pc \in {"wait", "stop", "adopt", "done"} \/ worker.leader # "runs")
    BY <1>1, <2>1 DEF WorkerSound
  <2>3. run.job \in A!Jobs
    BY <1>1 DEF Runs
  <2>4. \E r \in Found, g \in GateWords, rc \in {0, 1}, kid \in BOOLEAN, f \in A!Faults \cup {A!None} :
           /\ worker' = [worker EXCEPT !.leader = "left", !.result = r, !.gate = g, !.rc = rc, !.kid = kid, !.fault = f]
           /\ r # A!None => r \in A!ResultsOf(run.job) /\ g \in A!GatesOf(run.job)
           /\ r = A!None => g = A!None
    <3>1. CASE \E r \in A!ResultsOf(run.job), g \in A!GatesOf(run.job) :
                 worker' = [worker EXCEPT !.leader = "left", !.result = r, !.gate = g]
      <4>1. PICK r \in A!ResultsOf(run.job), g \in A!GatesOf(run.job) :
                 worker' = [worker EXCEPT !.leader = "left", !.result = r, !.gate = g]
        BY <3>1
      <4>2. r \in Found /\ g \in GateWords /\ r # A!None
        BY <2>3 DEF A!ResultsOf, A!GatesOf, Found, GateWords, A!Jobs, A!None
      <4>3. worker' = [worker EXCEPT !.leader = "left", !.result = r, !.gate = g, !.rc = worker.rc,
                                     !.kid = worker.kid, !.fault = worker.fault]
        BY <1>1, <4>1 DEF Workers
      <4>4. QED BY <1>1, <4>2, <4>3 DEF Workers
    <3>2. CASE worker' = [worker EXCEPT !.leader = "left", !.rc = 1]
      <4>1. worker' = [worker EXCEPT !.leader = "left", !.result = worker.result, !.gate = worker.gate, !.rc = 1,
                                     !.kid = worker.kid, !.fault = worker.fault]
        BY <1>1, <3>2 DEF Workers
      <4>2. /\ worker.result \in Found /\ worker.gate \in GateWords /\ worker.kid \in BOOLEAN
            /\ worker.fault \in A!Faults \cup {A!None}
        BY <1>1 DEF Workers
      <4>3. /\ worker.result # A!None => worker.result \in A!ResultsOf(run.job) /\ worker.gate \in A!GatesOf(run.job)
            /\ worker.result = A!None => worker.gate = A!None
        BY <1>1 DEF WorkerSound
      <4>4. QED BY ZenonT(60), <4>1, <4>2, <4>3
    <3>3. CASE \E kid \in BOOLEAN, f \in A!Faults \cup {A!None} :
                 worker' = [worker EXCEPT !.leader = "left", !.kid = kid, !.fault = f, !.result = "pass", !.gate = "pass"]
      <4>1. PICK kid \in BOOLEAN, f \in A!Faults \cup {A!None} :
                 worker' = [worker EXCEPT !.leader = "left", !.kid = kid, !.fault = f, !.result = "pass", !.gate = "pass"]
        BY <3>3
      <4>2. worker' = [worker EXCEPT !.leader = "left", !.result = "pass", !.gate = "pass", !.rc = worker.rc,
                                     !.kid = kid, !.fault = f]
        BY <1>1, <4>1 DEF Workers
      <4>3. "pass" \in A!ResultsOf(run.job) /\ "pass" \in A!GatesOf(run.job)
        BY <2>3 DEF A!ResultsOf, A!GatesOf, A!Jobs
      <4>4. QED BY <1>1, <4>2, <4>3 DEF Workers, Found, GateWords, A!None
    <3>4. QED
      <4>1. CASE worker' = [worker EXCEPT !.leader = "left", !.kid = TRUE, !.result = "pass", !.gate = "pass"]
        <5>1. worker' = [worker EXCEPT !.leader = "left", !.kid = TRUE, !.fault = worker.fault,
                                       !.result = "pass", !.gate = "pass"]
          BY <1>1, <4>1 DEF Workers
        <5>2. QED BY <1>1, <3>3, <5>1 DEF Workers
      <4>2. CASE \E f \in A!Faults : worker' = [worker EXCEPT !.leader = "left", !.fault = f, !.result = "pass", !.gate = "pass"]
        <5>1. PICK f \in A!Faults : worker' = [worker EXCEPT !.leader = "left", !.fault = f, !.result = "pass", !.gate = "pass"]
          BY <4>2
        <5>2. worker' = [worker EXCEPT !.leader = "left", !.kid = worker.kid, !.fault = f,
                                       !.result = "pass", !.gate = "pass"]
          BY <1>1, <5>1 DEF Workers
        <5>3. QED BY <1>1, <3>3, <5>2 DEF Workers
      <4>3. QED BY <1>3, <3>1, <3>2, <4>1, <4>2 DEF A!WorkerEnds
  <2>5. worker' \in Workers /\ WorkerSound'
    <3>1. PICK r \in Found, g \in GateWords, rc \in {0, 1}, kid \in BOOLEAN, f \in A!Faults \cup {A!None} :
           /\ worker' = [worker EXCEPT !.leader = "left", !.result = r, !.gate = g, !.rc = rc, !.kid = kid, !.fault = f]
           /\ r # A!None => r \in A!ResultsOf(run.job) /\ g \in A!GatesOf(run.job)
           /\ r = A!None => g = A!None
      BY <2>4
    <3>2. worker' \in Workers /\ worker'.leader = "left" /\ worker'.result = r /\ worker'.gate = g
      BY <1>1, <3>1 DEF Workers
    <3>3. QED BY <1>1, <2>1, <2>2, <3>1, <3>2 DEF WorkerSound, A!ResultsOf, A!GatesOf
  <2>6. QED BY <1>1, <1>2, <2>1, <2>5 DEF AcceptanceTyped
<1>4. CASE A!EditFile
  <2>1. /\ UNCHANGED <<kind, required, run, took, worker, ev, cmd, dest>>
        /\ \E f \in A!Files : disk' = [disk EXCEPT ![f] = ~disk[f]]
    BY <1>4 DEF A!EditFile, A!contractVars
  <2>2. disk' \in [A!Files -> BOOLEAN]
    BY <1>1, <2>1 DEF AcceptanceTyped
  <2>3. WorkerSound'
    BY <1>1, <2>1 DEF WorkerSound, A!ResultsOf, A!GatesOf
  <2>4. QED BY <1>1, <1>2, <2>1, <2>2, <2>3
<1>5. CASE A!Kill
  <2>1. UNCHANGED <<kind, required, disk, took, worker, ev, dest>>
    BY <1>5 DEF A!Kill, A!contractVars
  <2>2. CASE run.pc # "done" /\ run' = [run EXCEPT !.pc = "done", !.said = "killed"] /\ UNCHANGED cmd
    <3>1. run' \in Runs /\ run'.pc = "done" /\ run'.said = "killed" /\ run'.job = run.job /\ SameReport
      BY <1>1, <2>1, <2>2 DEF Runs, RunPcs, SameReport
    <3>2. AcceptanceTyped' /\ WorkerSound' /\ EvidenceSound'
      <4>1. AcceptanceTyped' /\ WorkerSound'
        BY <1>1, <2>1, <2>2, <3>1 DEF AcceptanceTyped, WorkerSound
      <4>2. QED BY <1>1, <2>1, <3>1, <4>1, EvidenceStays DEF SameReport, BeforeResults
    <3>3. GatesSound' /\ SummarySound'
      BY <2>1, <3>1, ReportStays DEF AfterResults, Sealing
    <3>4. SaysNoMore
      BY <2>2, <3>1 DEF SaysNoMore, Claims, A!Ship
    <3>5. QED BY <1>1, <2>1, <2>2, <3>1, <3>2, <3>3, <3>4, WordsStay DEF AcceptanceInv
  <2>3. CASE \E c \in DOMAIN cmd : cmd[c].pc # "done" /\ A!Ends(c, "killed") /\ UNCHANGED run
    <3>1. DOMAIN cmd = Reviews \cup Deliveries
      BY <1>1 DEF AcceptanceTyped
    <3>2. QED BY <2>1, <2>3, <3>1, CommandFails
  <2>4. QED BY <1>5, <2>2, <2>3 DEF A!Kill
<1>6. CASE UNCHANGED A!vars
  <2>1. UNCHANGED <<kind, required, disk, run, took, worker, ev, cmd, dest>>
    BY <1>6 DEF A!vars
  <2>2. WorkerSound'
    BY <1>1, <2>1 DEF WorkerSound, A!ResultsOf, A!GatesOf
  <2>3. QED BY <1>1, <1>2, <2>1, <2>2 DEF AcceptanceTyped
<1>7. QED BY <1>3, <1>4, <1>5, <1>6

-----------------------------------------------------------------------------
LEMMA AcceptanceInit == MCInit => AcceptanceInv
<1> SUFFICES ASSUME MCInit PROVE AcceptanceInv
  OBVIOUS
<1>1. /\ required \in BOOLEAN
      /\ disk = [f \in A!Files |-> TRUE]
      /\ run = [pc |-> "bundle", job |-> 1, accident |-> FALSE, r0 |-> "pass", blocked |-> {}, gates |-> A!None,
                r5 |-> "pass", said |-> A!None]
      /\ took = [j \in A!Jobs |-> A!NoEvidence]
      /\ worker = A!NoWorker
      /\ ev = [summary |-> A!NoSummary, review |-> A!NoSeal, completion |-> A!NoSeal, receipt |-> A!None]
      /\ cmd = [c \in Reviews \cup Deliveries |-> [pc |-> "idle", review |-> A!None, state |-> A!None, said |-> A!None]]
      /\ dest = [d \in Deliveries |-> A!None]
  BY DEF MCInit, A!Init
<1>2. run \in Runs /\ worker \in Workers
  BY <1>1 DEF Runs, RunPcs, Workers, A!NoWorker, Found, GateWords, A!Jobs
<1>3. took \in [A!Jobs -> Evidences] /\ disk \in [A!Files -> BOOLEAN] /\ dest \in [Deliveries -> {A!None, "D"}]
  BY <1>1 DEF Evidences, A!NoEvidence, Found, GateWords
<1>4. A!NoSummary \in Summaries /\ A!NoSeal \in Seals
  BY DEF Summaries, A!NoSummary, Seals, A!NoSeal
<1>5. ev \in ControlFiles /\ cmd \in [Reviews \cup Deliveries -> Commands]
  BY <1>1, <1>4 DEF ControlFiles, Commands
<1>6. AcceptanceTyped
  BY <1>1, <1>2, <1>3, <1>5 DEF AcceptanceTyped
<1>7. WorkerSound /\ EvidenceSound /\ GatesSound
  BY <1>1 DEF WorkerSound, EvidenceSound, GatesSound, A!NoWorker, A!NoEvidence, A!None
<1>8. SummarySound
  BY <1>1 DEF SummarySound, A!NoSummary, Sealing
<1>9. SealsSound
  BY <1>1 DEF SealsSound, A!NoSeal, A!Spoke, A!None, A!Ship
<1>10. \A c \in Reviews : ReviewSound(c)
  BY <1>1, Names DEF ReviewSound, A!NoSeal, A!Spoke, A!None, A!Ship
<1>11. \A d \in Deliveries : DeliverySound(d)
  BY <1>1 DEF DeliverySound, A!None
<1>12. QED BY <1>6, <1>7, <1>8, <1>9, <1>10, <1>11 DEF AcceptanceInv

LEMMA AcceptanceStep ==
  ASSUME AcceptanceInv, [MCNext]_MCVars
  PROVE  AcceptanceInv'
<1>1. CASE A!Next
  <2>1. CASE A!RunStep
    <3>1. CASE A!VerifyBundle /\ ~disk["source"]
      <4>1. /\ A!RunFails /\ UNCHANGED <<kind, required, disk, took, worker, cmd, dest>>
            /\ run.pc = "bundle"
        BY <3>1 DEF A!VerifyBundle, A!contractVars
      <4>2. QED BY <4>1, FailureReported
    <3>2. QED BY <2>1, <3>1, EarlySteps, LateSteps, SummaryWritten, RunSeals DEF A!RunStep
  <2>2. CASE A!CommandStep
    BY <2>2, ReviewMoves, ReviewWritten, CompletionWritten, DeliverySteps DEF A!CommandStep
  <2>3. QED BY <1>1, <2>1, <2>2, TheRest DEF A!Next, A!Over
<1>2. CASE ~A!Next
  <2>1. UNCHANGED A!vars
    BY <1>2 DEF MCNext, Registration, Smoke, Acceptance, MCVars, acceptanceVars, A!vars
  <2>2. QED BY <2>1, TheRest
<1>3. QED BY <1>1, <1>2

LEMMA AcceptanceHolds == MCSpec => []AcceptanceInv
  BY AcceptanceInit, AcceptanceStep, PTL DEF MCSpec

\* What is sealed as shipping or as rejected follows from the evidence, and from the review.
LEMMA SealedFor ==
  ASSUME AcceptanceInv, ev.completion.state \in A!Ship \cup {"REJECTED"}
  PROVE  /\ ev.review = ev.completion /\ ev.review.review \in {A!None, "approve", "reject"}
         /\ ev.review.review = A!None => ~(ev.summary.success /\ required)
         /\ ev.completion.state = A!SealState(A!Summary, ev.review.review) /\ ev.summary = A!Summary
<1>1. AcceptanceTyped /\ SealsSound /\ SummarySound
  BY DEF AcceptanceInv
<1>2. ev.completion.state # A!None
  BY DEF A!Ship, A!None
<1>3. ev.review = ev.completion /\ Follows(ev.review)
  BY <1>1, <1>2 DEF SealsSound
<1>4. ev.summary.success \/ ev.summary.complete
  BY <1>3 DEF Follows, A!SealState, A!Ship
<1>5. ev.summary = A!Summary
  BY <1>1, <1>4 DEF SummarySound
<1>6. ev.review.review \in {A!None, "approve", "reject"}
  BY <1>1 DEF AcceptanceTyped, ControlFiles, Seals
<1>7. QED BY <1>3, <1>5, <1>6 DEF Follows

\* Nothing ships, and no bytes reach a destination, but of an asset whose jobs all ended as they
\* should, without an objection of a check, a gate or a reviewer, also where the inspector's
\* objection let all the other jobs run (src/acceptance): for all sets of reviews and deliveries, however many files are edited and
\* commands killed on the way.
THEOREM ShipsOnlyChecked == MCSpec => []ShipMeansChecked
<1>1. AcceptanceInv => ShipMeansChecked
  <2> SUFFICES ASSUME AcceptanceInv, ev.completion.state \in A!Ship \/ (\E d \in Deliveries : dest[d] # A!None)
               PROVE  /\ ev.completion.state \in A!Ship
                      /\ \A j \in A!Jobs : A!Whole(j)
                      /\ took[1].gate = "pass" /\ took[3].gate = "pass" /\ run.r0 = "pass"
                      /\ ev.review.review \in (IF required THEN {"approve"} ELSE {"approve", A!None})
    BY DEF ShipMeansChecked, A!ShipMeansChecked
  <2>1. ev.completion.state \in A!Ship
    BY DEF AcceptanceInv, DeliverySound
  <2>2. /\ AcceptanceTyped /\ EvidenceSound /\ GatesSound
    BY DEF AcceptanceInv
  <2>3. A!SealState(A!Summary, ev.review.review) \in A!Ship
    BY <2>1, SealedFor
  <2>4. A!Summary.success /\ ev.review.review # "reject"
    BY <2>3 DEF A!SealState, A!Ship
  <2>5. A!Success
    BY <2>4 DEF A!Summary
  <2>6. A!Tested /\ ~A!ChecksFail /\ run.gates = "pass"
    BY <2>5 DEF A!Success, A!CheckFailed, A!Complete
  <2>7. \A j \in A!Jobs : took[j].result \in {"pass", "note"}
    BY <2>2, <2>6 DEF A!Tested, A!ChecksFail, AcceptanceTyped, Evidences, Found
  <2>8. \A j \in A!Jobs : A!Whole(j) /\ took[j].gate \in A!GatesOf(j)
    BY <2>2, <2>7 DEF A!Whole, EvidenceSound, A!None
  <2>9. took[1].gate = "pass" /\ took[3].gate = "pass"
    <3>1. A!Gates = "pass"
      BY <2>2, <2>6 DEF GatesSound, A!None
    <3>2. took[1].gate # "gap" /\ took[3].gate \notin {A!None, "malformed"} /\ took[3].gate = "pass"
      BY <3>1 DEF A!Gates
    <3>3. QED BY <2>8, <3>2 DEF A!Jobs, A!GatesOf
  <2>10. run.r0 = "pass"
    BY <2>2, <2>6 DEF A!ChecksFail, AcceptanceTyped, Runs
  <2>11. ev.review.review \in (IF required THEN {"approve"} ELSE {"approve", A!None})
    BY <2>1, <2>4, SealedFor
  <2>12. QED BY <2>1, <2>8, <2>9, <2>10, <2>11
<1>2. QED BY <1>1, AcceptanceHolds, PTL

\* REJECTED is a verdict on a completed run, with the evidence of every job at hand, none blocked and
\* no accident recorded, and there is a check, a gate or a reviewer that objects; an objection of
\* run_r0 to tools that were edited is one of them (acceptance/decide.py, evidence.py).
THEOREM RejectedOnlyForCause == MCSpec => []RejectedForCause
<1>1. AcceptanceInv => RejectedForCause
  <2> SUFFICES ASSUME AcceptanceInv, ev.completion.state = "REJECTED"
               PROVE  /\ ~run.accident /\ run.blocked = {}
                      /\ \A j \in A!Jobs : took[j].result \notin {A!None, "unsafe"} /\ took[j].rc = 0 /\ took[j].group = "gone"
                      /\ took[1].gate # "gap"
                      /\ \/ run.r0 = "error" /\ kind = "interchange"
                         \/ took[3].gate = "fail" \/ \E j \in A!Jobs : took[j].result = "error"
                         \/ ev.review.review = "reject"
    BY DEF RejectedForCause, A!RejectedForCause
  <2>1. AcceptanceTyped /\ EvidenceSound /\ GatesSound /\ SummarySound
    BY DEF AcceptanceInv
  <2>2. A!SealState(A!Summary, ev.review.review) = "REJECTED"
    BY SealedFor
  <2>3. A!Summary.complete /\ (A!Summary.failed \/ (A!Summary.success /\ ev.review.review = "reject"))
    <3> DEFINE s == A!Summary
    <3>1. s.success \in BOOLEAN /\ s.complete \in BOOLEAN /\ s.failed \in BOOLEAN /\ s.delivery \in BOOLEAN
      BY <2>1, SummaryTyped DEF Summaries
    <3>2. A!SealState(s, ev.review.review) = "REJECTED"
      BY <2>2
    <3> HIDE DEF s
    <3>3. s.complete /\ (s.failed \/ (s.success /\ ev.review.review = "reject"))
      BY <3>1, <3>2 DEF A!SealState
    <3>4. QED BY <3>3 DEF s
  <2>4. A!Tested /\ A!Closed /\ run.gates \in {"pass", "fail"}
    BY <2>3 DEF A!Summary, A!Complete
  <2>5. ~run.accident
    BY <2>3 DEF A!Summary, A!Success, A!CheckFailed
  <2>6. \A j \in A!Jobs : took[j].result \notin {A!None, "unsafe"} /\ took[j].rc = 0 /\ took[j].group = "gone"
    BY <2>1, <2>4 DEF A!Tested, EvidenceSound, A!ResultsOf, A!Jobs
  <2>7. A!Gates = run.gates
    BY <2>1, <2>4 DEF GatesSound, A!None
  <2>8. took[1].gate # "gap" /\ (run.gates = "fail" => took[3].gate = "fail")
    BY <2>4, <2>7 DEF A!Gates
  <2>9. run.r5 # "error"
    BY <2>1, <2>5 DEF SummarySound
  <2>10. A!Summary.failed =>
             \/ run.r0 = "error" /\ kind = "interchange"
             \/ took[3].gate = "fail"
             \/ \E j \in A!Jobs : took[j].result = "error"
    BY <2>1, <2>6, <2>8, <2>9 DEF A!Summary, A!CheckFailed, A!ChecksFail, EvidenceSound
  <2>11. QED BY <2>3, <2>4, <2>5, <2>6, <2>8, <2>10 DEF A!Closed
<1>2. QED BY <1>1, AcceptanceHolds, PTL

\* Of `run` and any number of `review` and `deliver` commands, who reports SHIP, SHIP_WITH_NOTES or
\* REJECTED is who sealed the evidence directory with that word, and who sealed reports that word;
\* everyone else that ends says UNVERIFIED (acceptance/evidence.py, _write; scripts/asset_accept.py).
THEOREM OneVerdictOnly == MCSpec => []OneVerdict
<1>1. AcceptanceInv => OneVerdict
  BY DEF AcceptanceInv, OneVerdict, A!OneVerdict, SealsSound, ReviewSound, DeliverySound, A!Taken
<1>2. QED BY <1>1, AcceptanceHolds, PTL

-----------------------------------------------------------------------------
(* The smoke tests: SmokeHarness. *)

Procs == {"none", "boot", "temp", "named", "run", "orphan", "dying", "gone"}
SupervisorPcs == {"start", "spawn", "registry", "watch", "watched", "poll", "reap", "owned",
                  "unpublished", "refreshed", "done", "over", "scan"}
RunnerPcs == {"nfr_wait", "nfr_waited", "helper_term", "helper_termed", "group_term", "group_termed",
              "reap_groups", "reaped", "finish_reap", "finish_reaped", "kill_groups", "killing",
              "finish_kill", "finish_killing", "settle", "settled", "finish", "finishing", "ending"}
Scans == [dir : {"none", "inner", "outer"}, todo : SUBSET ({"resv", "temp", "final"} \X S!Groups),
          found : SUBSET S!Groups, publishing : BOOLEAN, failed : BOOLEAN, retire : BOOLEAN,
          to : SupervisorPcs \cup RunnerPcs \cup {"none"}]

SmokeTyped ==
    /\ proc \in [S!Groups -> Procs] /\ exit \in {"none", "ok", "failed"}
    /\ resv \subseteq S!Groups /\ rec \in [S!Groups -> {"none", "temp", "final"}]
    /\ known \in [S!Groups -> {"no", "temp", "final"}] /\ caught \in BOOLEAN
    /\ scan \in Scans /\ late \in 0..3
    /\ smokeStage \in [Kids -> {"idle", "reserved", "spawned", "retired"}]
    /\ unwinding \in BOOLEAN

\* Each test has its own steps, and a scan goes back to where it was begun.
PlaceSound ==
    IF mode = "recovery"
    THEN smokePc \in SupervisorPcs /\ (smokePc = "scan" => scan.to \in {"watched", "poll", "refreshed"})
    ELSE /\ smokePc \in RunnerPcs \cup {"start", "spawn", "scan", "over"}
         /\ smokePc = "scan" => scan.to \in RunnerPcs

\* What the directory holds of a group is as far as the group has come, and only the final
\* name of a record is remembered, unless one was caught under its temporary name.
GroupSound(g) ==
    /\ proc[g] \in {"none", "boot"} => rec[g] = "none"
    /\ proc[g] = "temp" => rec[g] = "temp"
    /\ proc[g] \in {"named", "run", "orphan"} => rec[g] = "final"
    /\ proc[g] \in {"boot", "temp", "named"} => g \in resv
    /\ known[g] = "final" => rec[g] = "final" \/ proc[g] = "gone"
    /\ known[g] = "temp" => caught
    /\ proc[g] = "orphan" => g = Worker

\* A leader that has exited may leave its group behind, with its record.
LeaderSound ==
    /\ exit # "none" => proc[Worker] \in {"orphan", "dying", "gone"}
    /\ proc[Worker] = "orphan" => exit # "none"
    /\ exit = "ok" /\ S!Live(Worker) => rec[Worker] = "final"

\* What the worker did with a group; it succeeds only when nothing is left.
KidSound(k) ==
    /\ smokeStage[k] \in {"idle", "reserved"} => proc[k] = "none"
    /\ smokeStage[k] = "reserved" => k \in resv
    /\ smokeStage[k] = "retired" /\ ~unwinding => ~S!Live(k)
    /\ proc[Worker] = "none" => smokeStage[k] = "idle"
    /\ exit = "ok" => ~unwinding /\ smokeStage[k] = "retired" /\ k \notin resv /\ rec[k] = "none"

\* The recovery test cleans up when its worker's group is gone or was killed.
Cleaning == mode = "recovery" /\ (smokePc \in {"registry", "refreshed", "done", "over"}
                                  \/ (smokePc = "scan" /\ scan.to = "refreshed"))
FlowSound ==
    /\ smokePc \in {"start", "spawn"} => proc[Worker] = "none"
    /\ smokePc = "spawn" => Worker \in resv
    /\ success => exit = "ok" /\ ~S!Live(Worker)
    /\ Cleaning /\ ~failed => ~S!Live(Worker)
    /\ Cleaning /\ ~caught => S!Finished(Worker)

\* A scan of the cleanup that saw nothing under way and did not fail has found, or will
\* find, every group that is not finished.
Seen(k) == \/ S!Finished(k) \/ (k \in scan.found /\ known[k] = "final")
           \/ <<"final", k>> \in scan.todo \/ <<"resv", k>> \in scan.todo
ScanSound ==
    /\ ~caught /\ scan.failed => late = 3
    /\ smokePc # "scan" => scan.todo = {}
    /\ Cleaning /\ smokePc = "scan" => scan.dir = "inner"
    /\ Cleaning /\ smokePc \in {"scan", "refreshed"} /\ ~caught /\ ~scan.publishing /\ ~scan.failed =>
         \A k \in Kids : Seen(k)

NothingForgotten ==
    mode = "recovery" /\ smokePc \in {"done", "over"} /\ ~caught =>
        \A g \in S!Groups : S!Finished(g) \/ (late = 3 /\ known[g] = "no")

SmokeInv == /\ SmokeTyped /\ PlaceSound /\ (\A g \in S!Groups : GroupSound(g)) /\ LeaderSound
            /\ (\A k \in Kids : KidSound(k)) /\ FlowSound /\ ScanSound /\ NothingForgotten

-----------------------------------------------------------------------------
(* What the steps do to the groups and to what is remembered of them. *)

\* The record or the reservation of a group that is gone is taken away.
Taken(g) ==
    /\ UNCHANGED <<proc, exit>> /\ ~S!Live(g)
    /\ \/ rec' = rec /\ (resv' = resv \/ (g = Worker /\ resv' = resv \ {g}))
       \/ rec' = [rec EXCEPT ![g] = "none"] /\ resv' = resv

Starts == S!Begin \/ S!SpawnWorker
WhatGroupsDo ==
    \/ UNCHANGED <<proc, exit, resv, rec>>
    \/ \E X \in SUBSET S!Groups : proc' = S!Kill(X) /\ UNCHANGED <<exit, resv, rec>>
    \/ \E g \in S!Groups : Taken(g)
LEMMA Memberships == Worker \in S!Groups /\ Kids \subseteq S!Groups /\ \A k \in Kids : k # Worker
BY CommandsAssumption DEF S!Groups

LEMMA KillMoves ==
  ASSUME SmokeTyped, NEW X \in SUBSET S!Groups
  PROVE  S!KillKnown(X) => \E Y \in SUBSET S!Groups : proc' = S!Kill(Y)
BY DEF S!KillKnown, S!Readable

LEMMA Retires ==
  ASSUME SmokeTyped, GroupSound(Worker), S!RetireRecord(Worker), S!CanRetire(Worker),
         UNCHANGED <<proc, exit>>, S!HelperLeft \/ ~S!Live(Worker)
  PROVE  Taken(Worker)
BY Memberships DEF SmokeTyped, GroupSound, S!RetireRecord, S!CanRetire, Taken, S!HelperLeft, S!HelperLive,
     S!HelperKnown, S!LeaderLives, S!Live, Procs

LEMMA SupervisorMoves ==
  ASSUME SmokeTyped, GroupSound(Worker), S!Supervise \/ S!Watch
  PROVE  WhatGroupsDo
<1>1. \A d \in {"inner", "outer"} : S!Remembered(d) \subseteq S!Groups
  BY DEF S!Remembered
<1>2. scan.found \subseteq S!Groups /\ {Worker} \subseteq S!Groups
  BY Memberships DEF SmokeTyped, Scans
<1>3. CASE S!OwnedEnds
  BY <1>3, Retires, Memberships DEF S!OwnedEnds, WhatGroupsDo, S!files, S!processes
<1>4. CASE S!Settle
  BY <1>4, Retires, Memberships DEF S!Settle, WhatGroupsDo, S!files, S!processes
<1>5. CASE S!Ending
  BY <1>5, Retires, Memberships DEF S!Ending, WhatGroupsDo, S!files, S!processes
<1>6. CASE S!RefreshFails \/ S!RefreshSignals \/ S!Killing
  BY <1>1, <1>2, <1>6, KillMoves DEF S!RefreshFails, S!RefreshSignals, S!Killing, WhatGroupsDo, S!files, S!processes
<1>7. CASE S!OwnRecord \/ S!OwnedKill
  BY <1>2, <1>7 DEF S!OwnRecord, S!OwnedKill, WhatGroupsDo, S!files, S!processes
<1>8. CASE S!HelperTerm \/ S!GroupTermed \/ S!Finishing
  BY <1>2, <1>8 DEF S!HelperTerm, S!GroupTermed, S!Finishing, S!KillHelper, WhatGroupsDo, S!files, S!processes
<1>9. QED
  BY <1>3, <1>4, <1>5, <1>6, <1>7, <1>8
     DEF S!Supervise, S!Watch, S!WatchOuter, S!WatchInner, S!Poll, S!Refresh, S!RefreshAgain, S!RefreshEmpty,
         S!Report, S!NfrWait, S!NfrWaited, S!LookAgain, S!KillGroups, S!GroupsReaped, S!Settled, S!Finish,
         S!Quiet, S!files, S!processes, WhatGroupsDo

LEMMA ScanMoves ==
  ASSUME SmokeTyped, S!Scan
  PROVE  WhatGroupsDo
<1>1. CASE S!ScanEntry
  <2>1. PICK e \in scan.todo : S!See(e[1], e[2])
    BY <1>1 DEF S!ScanEntry
  <2>2. e[2] \in S!Groups
    BY <2>1 DEF SmokeTyped, Scans
  <2>3. rec' = rec \/ (~S!Live(e[2]) /\ rec' = [rec EXCEPT ![e[2]] = "none"])
    BY <2>1 DEF S!See, S!SeeReservation, S!SeeNothing, S!SeeLive, S!SeeDead
  <2>4. UNCHANGED <<proc, exit, resv>>
    BY <1>1 DEF S!ScanEntry, S!processes
  <2>5. QED BY <2>2, <2>3, <2>4 DEF WhatGroupsDo, Taken
<1>2. CASE UNCHANGED <<proc, exit, resv, rec>>
  BY <1>2 DEF WhatGroupsDo
<1>3. QED BY <1>1, <1>2 DEF S!Scan, S!files, S!processes

LEMMA GroupsDo ==
  ASSUME SmokeTyped, GroupSound(Worker), S!Next
  PROVE  WhatGroupsDo \/ S!GroupStep \/ S!WorkerStep \/ Starts
BY SupervisorMoves, ScanMoves DEF S!Next, S!Control, Starts, S!Tick, S!GraceEnds, S!files, S!processes, WhatGroupsDo

\* What is remembered is forgotten, or is the name of a record that is there.
Recalled(g) ==
    \/ known'[g] \in {known[g], "no"}
    \/ rec' = rec /\ rec[g] = "final" /\ known'[g] = "final"
    \/ known'[g] = "temp" /\ caught'

LEMMA Recalls ==
  ASSUME SmokeTyped, S!Next
  PROVE  (caught => caught') /\ \A g \in S!Groups : Recalled(g)
<1>1. ASSUME UNCHANGED <<known, caught>> PROVE (caught => caught') /\ \A g \in S!Groups : Recalled(g)
  BY <1>1 DEF Recalled
<1>2. ASSUME known' = [known EXCEPT ![Worker] = "final"], rec[Worker] = "final" \/ known[Worker] = "final",
             UNCHANGED <<rec, caught>>
      PROVE  (caught => caught') /\ \A g \in S!Groups : Recalled(g)
  BY <1>2, Memberships DEF Recalled, SmokeTyped
<1>3. CASE S!OwnRecord
  BY <1>1, <1>2, <1>3 DEF S!OwnRecord, S!files, S!memory
<1>4. CASE S!NfrWait
  BY <1>1, <1>2, <1>4 DEF S!NfrWait, S!ReadHelper, S!Quiet, S!files, S!memory
<1>5. CASE S!Settle
  BY <1>5, Memberships DEF S!Settle, Recalled, SmokeTyped, S!memory, S!LiveGroups, S!OpenScan
<1>6. CASE S!Scan
  <2>1. CASE S!ScanEntry
    <3>1. PICK e \in scan.todo : S!See(e[1], e[2])
      BY <2>1 DEF S!ScanEntry
    <3>2. e[2] \in S!Groups /\ e[1] \in {"resv", "temp", "final"}
      BY <3>1 DEF SmokeTyped, Scans
    <3>3. CASE UNCHANGED <<known, caught>>
      BY <1>1, <3>3
    <3>4. CASE S!SeeLive(e[2], e[1]) /\ rec[e[2]] = e[1]
      <4>1. known' = known \/ known' = [h \in S!Groups |-> IF h = e[2] THEN e[1]
                           ELSE IF S!Dir(h) = S!Dir(e[2]) /\ ~S!Live(h) THEN "no" ELSE known[h]]
        BY <3>4 DEF S!SeeLive, S!Remember
      <4>2. rec' = rec /\ caught' = (caught \/ e[1] = "temp")
        BY <3>4 DEF S!SeeLive
      <4>3. e[1] \in {"temp", "final"}
        BY <3>2, <3>4 DEF SmokeTyped
      <4>4. QED BY <3>2, <3>4, <4>1, <4>2, <4>3 DEF Recalled
    <3>5. QED BY <3>1, <3>3, <3>4 DEF S!See, S!SeeReservation, S!SeeNothing, S!SeeDead, S!memory
  <2>2. CASE S!ScanClose /\ caught' = caught
    BY <2>2 DEF S!ScanClose, Recalled
  <2>3. QED BY <1>6, <2>1, <2>2 DEF S!Scan
<1>7. QED
  BY <1>1, <1>3, <1>4, <1>5, <1>6
     DEF S!Next, S!Control, S!Begin, S!SpawnWorker, S!Supervise, S!Watch, S!WatchOuter, S!WatchInner, S!Poll,
         S!OwnedKill, S!OwnedEnds, S!Refresh, S!RefreshAgain, S!RefreshFails, S!RefreshSignals, S!RefreshEmpty,
         S!Report, S!NfrWaited, S!HelperTerm, S!LookAgain, S!GroupTermed, S!KillGroups, S!Killing,
         S!GroupsReaped, S!Settled, S!Finish, S!Finishing, S!Ending, S!WorkerStep, S!Reserve, S!SpawnKid,
         S!StopKid, S!RetireKid, S!AbandonKid, S!GiveUp, S!WorkerExits, S!WorkerCrashes, S!WorkerOnly,
         S!GroupStep, S!Tick, S!GraceEnds, S!memory

-----------------------------------------------------------------------------
(* The groups and their records. *)

LEMMA PassiveGroups ==
  ASSUME SmokeTyped, \A g \in S!Groups : GroupSound(g) /\ Recalled(g), LeaderSound, caught => caught',
         WhatGroupsDo
  PROVE  (\A g \in S!Groups : GroupSound(g)') /\ LeaderSound'
<1> USE Memberships
<1>1. CASE UNCHANGED <<proc, exit, resv, rec>>
  BY <1>1 DEF GroupSound, LeaderSound, Recalled, S!Live
<1>2. ASSUME NEW X \in SUBSET S!Groups, proc' = S!Kill(X), UNCHANGED <<exit, resv, rec>>
      PROVE  (\A g \in S!Groups : GroupSound(g)') /\ LeaderSound'
  <2>1. \A g \in S!Groups : proc'[g] = proc[g] \/ (proc'[g] = "dying" /\ S!Live(g))
    BY <1>2 DEF S!Kill
  <2>2. ASSUME NEW g \in S!Groups PROVE GroupSound(g)'
    BY <1>2, <2>1 DEF GroupSound, Recalled, S!Live
  <2>3. LeaderSound'
    BY <1>2, <2>1 DEF LeaderSound, S!Live
  <2>4. QED BY <2>2, <2>3
<1>3. ASSUME NEW x \in S!Groups, Taken(x)
      PROVE  (\A g \in S!Groups : GroupSound(g)') /\ LeaderSound'
  <2>1. \A g \in S!Groups : g # x => rec'[g] = rec[g] /\ (g \in resv' <=> g \in resv)
    BY <1>3 DEF Taken, SmokeTyped
  <2>2. rec'[x] \in {rec[x], "none"} /\ proc[x] \in {"none", "gone"} /\ proc' = proc /\ exit' = exit
    BY <1>3 DEF Taken, SmokeTyped, S!Live
  <2>3. ASSUME NEW g \in S!Groups PROVE GroupSound(g)'
    BY <2>1, <2>2, <2>3, GroupSound(g), Recalled(g), GroupSound(x), Recalled(x) DEF GroupSound, Recalled
  <2>4. LeaderSound'
    BY <2>1, <2>2 DEF LeaderSound, S!Live
  <2>5. QED BY <2>3, <2>4
<1>4. QED BY <1>1, <1>2, <1>3 DEF WhatGroupsDo

\* A group that goes on by itself.
LEMMA GroupGoes ==
  ASSUME SmokeTyped, \A g \in S!Groups : GroupSound(g), LeaderSound, S!GroupStep
  PROVE  /\ \A g \in S!Groups : GroupSound(g)'
         /\ LeaderSound'
         /\ exit' = exit \/ (exit = "none" /\ exit' = "failed")
         /\ \A g \in S!Groups :
              \/ proc'[g] = proc[g] /\ rec'[g] = rec[g] /\ (g \in resv' <=> g \in resv)
              \/ S!Live(g) /\ proc[g] = "dying" /\ proc'[g] = "gone" /\ rec'[g] = rec[g] /\ (g \in resv' <=> g \in resv)
              \/ S!Live(g) /\ proc[g] # "dying" /\ proc'[g] # "none"
<1> USE Memberships
<1>1. PICK x \in S!Groups : S!Group(x)
  BY DEF S!GroupStep
<1>2. UNCHANGED <<known, caught, scan, late, grace, mode, smokeStage, unwinding, smokePc>>
  BY DEF S!GroupStep, S!memory, S!clock, S!workers
<1>3. \A g \in S!Groups : g # x => proc'[g] = proc[g] /\ rec'[g] = rec[g] /\ (g \in resv' <=> g \in resv)
  BY <1>1 DEF SmokeTyped, S!Group, S!WriteRecord, S!RenameRecord, S!FinishReservation, S!Dies, S!Reaped, S!Ends, S!files
<1>4. CASE S!WriteRecord(x) \/ S!RenameRecord(x) \/ S!FinishReservation(x)
  <2>1. /\ exit' = exit
        /\ \/ proc[x] = "boot" /\ proc'[x] = "temp" /\ rec'[x] = "temp" /\ resv' = resv
           \/ proc[x] = "temp" /\ proc'[x] = "named" /\ rec'[x] = "final" /\ resv' = resv
           \/ proc[x] = "named" /\ proc'[x] = "run" /\ rec' = rec
    BY <1>4 DEF SmokeTyped, S!WriteRecord, S!RenameRecord, S!FinishReservation
  <2>2. ASSUME NEW g \in S!Groups PROVE GroupSound(g)'
    BY <1>2, <1>3, <2>1, <2>2, GroupSound(g), GroupSound(x) DEF GroupSound
  <2>3. LeaderSound'
    BY <1>2, <1>3, <2>1 DEF LeaderSound, S!Live
  <2>4. QED BY <1>3, <2>1, <2>2, <2>3 DEF S!Live
<1>5. CASE S!Dies(x) \/ S!Reaped(x)
  <2>1. /\ proc'[x] = "gone" /\ resv' = resv /\ S!Live(x)
        /\ exit' = IF x = Worker /\ exit = "none" THEN "failed" ELSE exit
        /\ rec'[x] = rec[x] \/ (proc[x] = "temp" /\ rec'[x] = "none")
        /\ proc[x] = "dying" => rec' = rec
    BY <1>5 DEF SmokeTyped, S!Dies, S!Reaped, S!Ends, S!Live, S!files
  <2>2. ASSUME NEW g \in S!Groups PROVE GroupSound(g)'
    BY <1>2, <1>3, <2>1, <2>2, GroupSound(g), GroupSound(x) DEF GroupSound
  <2>3. LeaderSound'
    BY <1>2, <1>3, <2>1 DEF LeaderSound, S!Live
  <2>4. exit' = exit \/ (exit = "none" /\ exit' = "failed")
    BY <2>1
  <2>5. QED BY <1>3, <2>1, <2>2, <2>3, <2>4 DEF S!Live
<1>6. QED BY <1>1, <1>4, <1>5 DEF S!Group

LEMMA OthersStand ==
  ASSUME S!Next
  PROVE  mode' = mode /\ (S!WorkerStep \/ UNCHANGED <<smokeStage, unwinding>>)
BY DEF S!Next, S!Control, S!Begin, S!SpawnWorker, S!Scan, S!Supervise, S!Watch, S!WatchOuter, S!WatchInner, S!Poll,
       S!OwnRecord, S!OwnedKill, S!OwnedEnds, S!Refresh, S!RefreshAgain, S!RefreshFails, S!RefreshSignals,
       S!RefreshEmpty, S!Report, S!NfrWait, S!NfrWaited, S!HelperTerm, S!LookAgain, S!GroupTermed, S!KillGroups,
       S!Killing, S!GroupsReaped, S!Settle, S!Settled, S!Finish, S!Finishing, S!Ending, S!WorkerStep, S!Reserve,
       S!SpawnKid, S!StopKid, S!RetireKid, S!AbandonKid, S!GiveUp, S!WorkerExits, S!WorkerCrashes, S!WorkerOnly,
       S!GroupStep, S!Tick, S!GraceEnds, S!SupervisorOnly, S!RunnerOnly, S!workers

LEMMA KidsWait ==
  ASSUME SmokeTyped, \A k \in Kids : KidSound(k), \A g \in S!Groups : GroupSound(g), LeaderSound,
         WhatGroupsDo \/ S!GroupStep, UNCHANGED <<smokeStage, unwinding>>
  PROVE  \A k \in Kids : KidSound(k)'
<1> USE Memberships
<1>1. CASE UNCHANGED <<proc, exit, resv, rec>>
  BY <1>1 DEF KidSound, S!Live
<1>2. ASSUME NEW X \in SUBSET S!Groups, proc' = S!Kill(X), UNCHANGED <<exit, resv, rec>>
      PROVE  \A k \in Kids : KidSound(k)'
  <2>1. \A g \in S!Groups : proc'[g] = proc[g] \/ (proc'[g] = "dying" /\ S!Live(g))
    BY <1>2 DEF S!Kill
  <2>2. QED BY <1>2, <2>1 DEF KidSound, S!Live
<1>3. ASSUME NEW x \in S!Groups, Taken(x)
      PROVE  \A k \in Kids : KidSound(k)'
  <2>1. \A k \in Kids : (k \in resv' <=> k \in resv) /\ rec'[k] \in {rec[k], "none"}
    BY <1>3 DEF Taken, SmokeTyped
  <2>2. QED BY <1>3, <2>1 DEF KidSound, S!Live, Taken
<1>4. CASE S!GroupStep
  <2>1. \A g \in S!Groups : proc[g] # "none" => proc'[g] # "none"
    BY <1>4, GroupGoes
  <2>2. ASSUME NEW k \in Kids PROVE KidSound(k)'
    <3>1. CASE proc'[k] = proc[k] /\ rec'[k] = rec[k] /\ (k \in resv' <=> k \in resv)
      BY <1>4, <2>1, <3>1, KidSound(k), GroupGoes DEF KidSound, S!Live
    <3>2. CASE S!Live(k)
      BY <1>4, <2>1, <3>2, KidSound(k), GroupGoes DEF KidSound, S!Live
    <3>3. QED BY <1>4, <3>1, <3>2, GroupGoes
  <2>3. QED BY <2>2
<1>5. QED BY <1>1, <1>2, <1>3, <1>4 DEF WhatGroupsDo

LEMMA ListingEmpty ==
  ASSUME SmokeTyped, S!Listing("inner") = {}
  PROVE  \A k \in Kids : k \notin resv /\ rec[k] = "none"
<1> SUFFICES ASSUME NEW k \in Kids PROVE k \notin resv /\ rec[k] = "none"
  OBVIOUS
<1>1. S!Dir(k) = "inner" /\ k \in S!Groups
  BY Memberships DEF S!Dir
<1>2. S!Names(k) \subseteq S!Listing("inner")
  BY <1>1 DEF S!Listing
<1>3. S!Names(k) = {}
  BY <1>2
<1>4. QED BY <1>3 DEF S!Names

\* The worker at its groups.
LEMMA WorkerGoes ==
  ASSUME SmokeTyped, \A k \in Kids : KidSound(k), \A g \in S!Groups : GroupSound(g), LeaderSound, S!WorkerStep
  PROVE  (\A k \in Kids : KidSound(k)') /\ (\A g \in S!Groups : GroupSound(g)') /\ LeaderSound'
<1> USE Memberships
<1>1. UNCHANGED <<known, caught>> /\ proc[Worker] = "run" /\ exit = "none"
  BY DEF S!WorkerStep, S!Reserve, S!SpawnKid, S!StopKid, S!RetireKid, S!AbandonKid, S!GiveUp, S!WorkerExits,
         S!WorkerCrashes, S!WorkerOnly, S!memory, S!Working
<1>2. ASSUME NEW k \in Kids, S!Reserve(k)
      PROVE  (\A x \in Kids : KidSound(x)') /\ (\A g \in S!Groups : GroupSound(g)') /\ LeaderSound'
  <2>1. /\ UNCHANGED <<proc, exit, rec, unwinding>> /\ resv' = resv \cup {k}
        /\ smokeStage[k] = "idle" /\ smokeStage'[k] = "reserved"
        /\ \A x \in Kids : x # k => smokeStage'[x] = smokeStage[x]
    BY <1>2 DEF SmokeTyped, S!Reserve, S!processes
  <2>2. QED BY <1>1, <2>1 DEF KidSound, GroupSound, LeaderSound, S!Live
<1>3. ASSUME NEW k \in Kids, S!SpawnKid(k)
      PROVE  (\A x \in Kids : KidSound(x)') /\ (\A g \in S!Groups : GroupSound(g)') /\ LeaderSound'
  <2>1. /\ UNCHANGED <<exit, rec>> /\ smokeStage[k] = "reserved" /\ ~unwinding
        /\ \A x \in Kids : x # k => smokeStage'[x] = smokeStage[x]
        /\ \A g \in S!Groups : g # k => proc'[g] = proc[g] /\ (g \in resv' <=> g \in resv)
        /\ \/ smokeStage'[k] = "spawned" /\ proc'[k] = "boot" /\ resv' = resv /\ unwinding' = unwinding
           \/ smokeStage'[k] = "retired" /\ proc' = proc /\ unwinding'
    BY <1>3 DEF SmokeTyped, S!SpawnKid, S!Spawn
  <2>2. ASSUME NEW x \in Kids PROVE KidSound(x)'
    BY <1>1, <2>1, <2>2, KidSound(x) DEF KidSound, S!Live
  <2>3. ASSUME NEW g \in S!Groups PROVE GroupSound(g)'
    BY <1>1, <2>1, <2>3, GroupSound(g), KidSound(k) DEF GroupSound, KidSound
  <2>4. QED BY <1>1, <2>1, <2>2, <2>3 DEF LeaderSound, S!Live
<1>4. ASSUME NEW k \in Kids, S!StopKid(k)
      PROVE  (\A x \in Kids : KidSound(x)') /\ (\A g \in S!Groups : GroupSound(g)') /\ LeaderSound'
  <2>1. /\ UNCHANGED <<exit, resv, rec, smokeStage, unwinding>> /\ S!Live(k) /\ proc'[k] = "dying"
        /\ \A g \in S!Groups : g # k => proc'[g] = proc[g]
    BY <1>4 DEF SmokeTyped, S!StopKid, S!Kill, S!files, S!workers
  <2>2. QED BY <1>1, <2>1 DEF KidSound, GroupSound, LeaderSound, S!Live
<1>5. ASSUME NEW k \in Kids, S!RetireKid(k)
      PROVE  (\A x \in Kids : KidSound(x)') /\ (\A g \in S!Groups : GroupSound(g)') /\ LeaderSound'
  <2>1. /\ UNCHANGED <<proc, exit>> /\ smokeStage[k] = "spawned" /\ smokeStage'[k] = "retired"
        /\ \A x \in Kids : x # k => smokeStage'[x] = smokeStage[x]
        /\ \A g \in S!Groups : g # k => rec'[g] = rec[g] /\ (g \in resv' <=> g \in resv)
        /\ rec'[k] \in {rec[k], "none"}
        /\ \/ ~S!Live(k) /\ unwinding' = unwinding
           \/ UNCHANGED <<rec, resv>> /\ unwinding'
    BY <1>5 DEF SmokeTyped, S!RetireKid, S!CanRetire, S!RetireRecord, S!processes, S!files
  <2>2. ASSUME NEW x \in Kids PROVE KidSound(x)'
    BY <1>1, <2>1, <2>2, KidSound(x) DEF KidSound, S!Live
  <2>3. ASSUME NEW g \in S!Groups PROVE GroupSound(g)'
    BY <1>1, <2>1, <2>3, GroupSound(g) DEF GroupSound, S!Live, SmokeTyped, Procs
  <2>4. QED BY <1>1, <2>1, <2>2, <2>3 DEF LeaderSound, S!Live
<1>6. ASSUME NEW k \in Kids, S!AbandonKid(k)
      PROVE  (\A x \in Kids : KidSound(x)') /\ (\A g \in S!Groups : GroupSound(g)') /\ LeaderSound'
  <2>1. /\ UNCHANGED <<proc, exit, resv, rec>> /\ unwinding' /\ smokeStage[k] = "spawned" /\ smokeStage'[k] = "retired"
        /\ \A x \in Kids : x # k => smokeStage'[x] = smokeStage[x]
    BY <1>6 DEF SmokeTyped, S!AbandonKid, S!processes, S!files
  <2>2. QED BY <1>1, <2>1 DEF KidSound, GroupSound, LeaderSound, S!Live
<1>7. CASE S!GiveUp
  BY <1>1, <1>7 DEF S!GiveUp, S!processes, S!files, KidSound, GroupSound, LeaderSound, S!Live
<1>8. CASE S!WorkerExits \/ S!WorkerCrashes
  <2>1. /\ UNCHANGED <<resv, rec, smokeStage, unwinding>> /\ proc'[Worker] \in {"orphan", "gone"}
        /\ \A g \in S!Groups : g # Worker => proc'[g] = proc[g]
        /\ exit' = "failed" \/ (exit' = "ok" /\ S!WorkDone)
    BY <1>8 DEF SmokeTyped, S!WorkerExits, S!WorkerCrashes, S!files, S!workers
  <2>2. exit' = "ok" => ~unwinding /\ \A k \in Kids : smokeStage[k] = "retired" /\ k \notin resv /\ rec[k] = "none"
    BY <2>1, ListingEmpty DEF S!WorkDone
  <2>3. QED BY <1>1, <2>1, <2>2 DEF KidSound, GroupSound, LeaderSound, S!Live
<1>9. QED BY <1>2, <1>3, <1>4, <1>5, <1>6, <1>7, <1>8 DEF S!WorkerStep

\* The worker is made.
LEMMA WorkerStarts ==
  ASSUME SmokeTyped, \A k \in Kids : KidSound(k), \A g \in S!Groups : GroupSound(g), LeaderSound, FlowSound, Starts
  PROVE  (\A k \in Kids : KidSound(k)') /\ (\A g \in S!Groups : GroupSound(g)') /\ LeaderSound'
<1> USE Memberships
<1>1. /\ UNCHANGED <<known, caught, exit, rec, smokeStage, unwinding>>
      /\ proc[Worker] = "none" /\ exit = "none" /\ \A k \in Kids : smokeStage[k] = "idle" /\ proc[k] = "none"
  BY DEF Starts, S!Begin, S!SpawnWorker, S!processes, S!memory, S!SupervisorOnly, S!workers, FlowSound, LeaderSound,
         KidSound, SmokeTyped
<1>2. \A g \in S!Groups : g # Worker => g \in Kids /\ proc'[g] = proc[g]
  BY DEF Starts, S!Begin, S!SpawnWorker, S!Spawn, S!processes, SmokeTyped, S!Groups
<1>3. proc'[Worker] = "none" \/ (proc'[Worker] = "boot" /\ Worker \in resv')
  BY <1>1 DEF Starts, S!Begin, S!SpawnWorker, S!Spawn, S!processes, SmokeTyped, FlowSound
<1>4. QED BY <1>1, <1>2, <1>3 DEF KidSound, GroupSound, LeaderSound, S!Live

-----------------------------------------------------------------------------
(* Types and places. *)

LEMMA FilesTyped ==
  ASSUME SmokeTyped, GroupSound(Worker), S!Next
  PROVE  /\ proc' \in [S!Groups -> Procs] /\ exit' \in {"none", "ok", "failed"}
         /\ resv' \subseteq S!Groups /\ rec' \in [S!Groups -> {"none", "temp", "final"}]
         /\ smokeStage' \in [Kids -> {"idle", "reserved", "spawned", "retired"}] /\ unwinding' \in BOOLEAN
<1> USE Memberships
<1> DEFINE Good == /\ proc' \in [S!Groups -> Procs] /\ exit' \in {"none", "ok", "failed"}
                   /\ resv' \subseteq S!Groups /\ rec' \in [S!Groups -> {"none", "temp", "final"}]
           Works == /\ smokeStage' \in [Kids -> {"idle", "reserved", "spawned", "retired"}]
                    /\ unwinding' \in BOOLEAN
<1>1. ASSUME WhatGroupsDo PROVE Good
  BY <1>1 DEF WhatGroupsDo, SmokeTyped, S!Kill, Procs, Taken
<1>2. ASSUME S!GroupStep PROVE Good
  BY <1>2 DEF S!GroupStep, S!Group, S!WriteRecord, S!RenameRecord, S!FinishReservation, S!Dies, S!Reaped, S!Ends,
              S!files, SmokeTyped, Procs
<1>3. ASSUME Starts PROVE Good
  BY <1>3 DEF Starts, S!Begin, S!SpawnWorker, S!Spawn, S!processes, SmokeTyped, Procs
<1>4. ASSUME NEW k \in Kids, S!Reserve(k) \/ S!SpawnKid(k) \/ S!StopKid(k)
      PROVE  Good /\ Works
  BY ZenonT(60), <1>4 DEF S!Reserve, S!SpawnKid, S!Spawn, S!StopKid, S!Kill, S!processes, S!files, S!workers, SmokeTyped, Procs
<1>5. ASSUME NEW k \in Kids, S!RetireKid(k) \/ S!AbandonKid(k)
      PROVE  Good /\ Works
  BY <1>5 DEF S!RetireKid, S!RetireRecord, S!AbandonKid, S!processes, S!files, S!workers, SmokeTyped, Procs
<1>6. CASE S!GiveUp \/ S!WorkerExits \/ S!WorkerCrashes
  BY <1>6 DEF S!GiveUp, S!WorkerExits, S!WorkerCrashes, S!processes, S!files, S!workers, SmokeTyped, Procs
<1>7. CASE S!WorkerStep
  BY <1>4, <1>5, <1>6, <1>7 DEF S!WorkerStep
<1>8. Good
  BY <1>1, <1>2, <1>3, <1>7, GroupsDo
<1>9. Works
  BY <1>7, OthersStand DEF SmokeTyped
<1>10. QED BY <1>8, <1>9

LEMMA MemoryTyped ==
  ASSUME SmokeTyped, S!Next
  PROVE  known' \in [S!Groups -> {"no", "temp", "final"}] /\ caught' \in BOOLEAN
<1> USE Memberships
<1>1. CASE S!OwnRecord \/ S!NfrWait \/ S!Settle
  BY <1>1 DEF S!OwnRecord, S!NfrWait, S!ReadHelper, S!Settle, S!LiveGroups, S!OpenScan, S!memory, SmokeTyped
<1>2. CASE S!Scan
  <2>1. CASE S!ScanEntry
    <3>1. PICK e \in scan.todo : S!See(e[1], e[2])
      BY <2>1 DEF S!ScanEntry
    <3>2. e[2] \in S!Groups /\ e[1] \in {"resv", "temp", "final"}
      BY <3>1 DEF SmokeTyped, Scans
    <3>3. CASE S!SeeLive(e[2], e[1]) /\ e[1] # "resv"
      BY <3>2, <3>3 DEF S!SeeLive, S!Remember, SmokeTyped
    <3>4. QED BY <3>1, <3>2, <3>3 DEF S!See, S!SeeReservation, S!SeeNothing, S!SeeDead, S!memory, SmokeTyped
  <2>2. CASE S!ScanClose /\ caught' = caught
    BY <2>2 DEF S!ScanClose, SmokeTyped
  <2>3. QED BY <1>2, <2>1, <2>2 DEF S!Scan
<1>3. CASE UNCHANGED <<known, caught>>
  BY <1>3 DEF SmokeTyped
<1>7. QED
  BY <1>1, <1>2, <1>3
     DEF S!Next, S!Control, S!Begin, S!SpawnWorker, S!Supervise, S!Watch, S!WatchOuter, S!WatchInner, S!Poll,
         S!OwnedKill, S!OwnedEnds, S!Refresh, S!RefreshAgain, S!RefreshFails, S!RefreshSignals, S!RefreshEmpty,
         S!Report, S!NfrWaited, S!HelperTerm, S!LookAgain, S!GroupTermed, S!KillGroups, S!Killing,
         S!GroupsReaped, S!Settled, S!Finish, S!Finishing, S!Ending, S!WorkerStep, S!Reserve, S!SpawnKid,
         S!StopKid, S!RetireKid, S!AbandonKid, S!GiveUp, S!WorkerExits, S!WorkerCrashes, S!WorkerOnly,
         S!GroupStep, S!Tick, S!GraceEnds, S!memory

\* How a scan goes on: it is opened, reads an entry or is closed, and stands still else.
Opened == \E d \in {"inner", "outer"}, r \in BOOLEAN, to \in SupervisorPcs \cup RunnerPcs :
            /\ S!ScanOpen(d, r, to) /\ smokePc' = "scan" /\ smokePc # "scan"
            /\ to = "refreshed" => S!Refresh /\ d = "inner"
LEMMA Opens ==
  ASSUME NEW d \in {"inner", "outer"}, NEW r \in BOOLEAN, NEW to \in SupervisorPcs \cup RunnerPcs,
         S!OpenScan(d, r, to), smokePc # "scan", to = "refreshed" => S!Refresh /\ d = "inner"
  PROVE  Opened
BY DEF Opened, S!OpenScan, S!Goto

LEMMA ScanGoes ==
  ASSUME S!Next
  PROVE  \/ Opened
         \/ S!Scan /\ S!ScanEntry /\ smokePc' = "scan"
         \/ S!Scan /\ S!ScanClose /\ smokePc' = scan.to /\ (late = 3 \/ scan.todo = {}) /\ UNCHANGED caught
         \/ scan' = scan /\ (smokePc = "scan" <=> smokePc' = "scan")
<1>0. {"watched", "poll", "refreshed"} \subseteq SupervisorPcs /\ "scan" \notin RunnerPcs /\ "refreshed" \notin RunnerPcs
  BY DEF SupervisorPcs, RunnerPcs
<1>1. CASE S!WatchOuter \/ S!WatchInner \/ S!Refresh
  <2>1. CASE S!WatchOuter
    BY <1>0, <2>1, Opens DEF S!WatchOuter
  <2>2. CASE S!Refresh
    <3>1. S!OpenScan("inner", TRUE, "refreshed") /\ smokePc # "scan"
      BY <2>2 DEF S!Refresh
    <3>2. QED BY <1>0, <2>2, <3>1, Opens
  <2>3. CASE S!WatchInner
    BY <1>0, <2>3, Opens DEF S!WatchInner, S!Goto
  <2>4. QED BY <1>1, <2>1, <2>2, <2>3
<1>2. CASE S!NfrWait \/ S!HelperTerm \/ S!KillGroups \/ S!Finish \/ S!Settle
  <2>1. \/ \E to \in RunnerPcs : S!OpenScan("inner", FALSE, to)
        \/ scan' = scan /\ smokePc' # "scan"
    BY <1>2 DEF S!NfrWait, S!HelperTerm, S!KillGroups, S!Finish, S!Settle, S!LiveGroups, RunnerPcs, S!Goto, S!GotoFresh,
         S!memory
  <2>2. smokePc # "scan"
    BY <1>2 DEF S!NfrWait, S!HelperTerm, S!KillGroups, S!Finish, S!Settle
  <2>3. QED BY <1>0, <2>1, <2>2, Opens
<1>3. CASE S!LookAgain
  <2>1. /\ smokePc \in {"group_term", "reap_groups", "finish_reap"}
        /\ S!Looks[smokePc] \in RunnerPcs /\ S!Looks[smokePc] # "refreshed"
    BY <1>3 DEF S!LookAgain, S!Looks, RunnerPcs
  <2>2. S!OpenScan("inner", FALSE, S!Looks[smokePc])
    BY <1>3 DEF S!LookAgain, S!LiveGroups
  <2>3. QED BY <2>1, <2>2, Opens
<1>4. CASE S!Scan
  BY <1>4 DEF S!Scan, S!Goto
<1>5. QED
  BY <1>1, <1>2, <1>3, <1>4
     DEF S!Next, S!Control, S!Begin, S!SpawnWorker, S!Supervise, S!Watch, S!Poll, S!OwnRecord,
         S!OwnedKill, S!OwnedEnds, S!RefreshAgain, S!RefreshFails, S!RefreshSignals, S!RefreshEmpty,
         S!Report, S!NfrWaited, S!GroupTermed, S!Killing, S!memory,
         S!GroupsReaped, S!Settled, S!Finishing, S!Ending, S!WorkerStep, S!Reserve, S!SpawnKid,
         S!StopKid, S!RetireKid, S!AbandonKid, S!GiveUp, S!WorkerExits, S!WorkerCrashes, S!WorkerOnly,
         S!GroupStep, S!Tick, S!GraceEnds, S!Goto, S!GotoFresh

LEMMA ScanTyped ==
  ASSUME SmokeTyped, S!Next
  PROVE  scan' \in Scans
<1> USE Memberships
<1>1. CASE Opened
  <2>1. PICK d \in {"inner", "outer"}, r \in BOOLEAN, to \in SupervisorPcs \cup RunnerPcs : S!ScanOpen(d, r, to)
    BY <1>1 DEF Opened
  <2>2. S!Listing(d) \subseteq {"resv", "temp", "final"} \X S!Groups
    BY DEF S!Listing, S!Names, SmokeTyped
  <2>3. QED BY <2>1, <2>2 DEF S!ScanOpen, Scans
<1>2. CASE S!ScanEntry
  <2>1. PICK e \in scan.todo : S!See(e[1], e[2])
    BY <1>2 DEF S!ScanEntry
  <2>2. e[2] \in S!Groups
    BY <2>1 DEF SmokeTyped, Scans
  <2>3. S!Conflicts(e[2], e[1]) \in BOOLEAN
    BY DEF S!Conflicts
  <2>4. CASE S!SeeLive(e[2], e[1])
    <3>1. (IF S!Conflicts(e[2], e[1]) THEN scan.found ELSE scan.found \cup {e[2]}) \subseteq S!Groups
      BY <2>2 DEF SmokeTyped, Scans
    <3>2. (scan.failed \/ S!Conflicts(e[2], e[1])) \in BOOLEAN /\ (scan.publishing \/ e[1] = "temp") \in BOOLEAN
      OBVIOUS
    <3>3. QED BY ZenonT(60), <2>4, <3>1, <3>2 DEF S!SeeLive, SmokeTyped, Scans
  <2>5. CASE S!SeeReservation(e[2]) \/ S!SeeNothing(e[2], e[1]) \/ S!SeeDead(e[2])
    <3>1. PICK x : \/ scan' = [scan EXCEPT !.todo = @ \ {x}, !.publishing = TRUE]
                   \/ scan' = [scan EXCEPT !.todo = @ \ {x}]
      BY <2>5 DEF S!SeeReservation, S!SeeNothing, S!SeeDead
    <3>2. scan.todo \ {x} \in SUBSET ({"resv", "temp", "final"} \X S!Groups)
      BY DEF SmokeTyped, Scans
    <3>3. QED BY ZenonT(60), <3>1, <3>2 DEF SmokeTyped, Scans
  <2>6. QED BY <2>1, <2>4, <2>5 DEF S!See
<1>3. CASE S!ScanClose
  <2>1. S!NoScan \in Scans
    BY DEF S!NoScan, Scans
  <2>2. S!Remembered(scan.dir) \subseteq S!Groups
    BY DEF S!Remembered
  <2>3. CASE late = 3
    <3>1. scan' = [S!NoScan EXCEPT !.failed = TRUE]
      BY <1>3, <2>3 DEF S!ScanClose
    <3>2. QED BY <2>1, <3>1 DEF Scans
  <2>4. CASE late # 3
    <3>1. PICK F \in SUBSET S!Groups : scan' = [S!NoScan EXCEPT !.publishing = scan.publishing,
                                                               !.failed = scan.failed, !.found = F]
      <4>1. (scan.found \cup {g \in S!Remembered(scan.dir) \ scan.found : S!Live(g)}) \in SUBSET S!Groups
            /\ scan.found \in SUBSET S!Groups
        BY <2>2 DEF SmokeTyped, Scans
      <4>2. QED BY <1>3, <2>4, <4>1 DEF S!ScanClose
    <3>2. scan.publishing \in BOOLEAN /\ scan.failed \in BOOLEAN
      BY DEF SmokeTyped, Scans
    <3>3. QED BY <2>1, <3>1, <3>2 DEF Scans
  <2>5. QED BY <2>3, <2>4
<1>4. QED BY <1>1, <1>2, <1>3, ScanGoes DEF SmokeTyped

\* What an entry of the listing does to the scan.
LEMMA EntrySeen ==
  ASSUME SmokeTyped, NEW n \in {"resv", "temp", "final"}, NEW g \in S!Groups, S!See(n, g)
  PROVE  /\ scan'.to = scan.to /\ scan'.dir = scan.dir /\ scan'.todo = scan.todo \ {<<n, g>>}
         /\ scan.found \subseteq scan'.found
         /\ scan.publishing => scan'.publishing
         /\ n \in {"resv", "temp"} => scan'.publishing
         /\ scan.failed => scan'.failed
         /\ scan'.failed => scan.failed \/ (S!Conflicts(g, n) /\ rec[g] = n /\ (n = "temp" => caught'))
         /\ scan'.publishing \/ ~S!Live(g) \/ scan'.failed \/ n = "resv" \/ (g \in scan'.found /\ known'[g] = n)
         /\ \A h \in S!Groups : known'[h] = known[h] \/ (~S!Live(h) /\ known'[h] = "no") \/ h = g
<1>0. DOMAIN scan = {"dir", "todo", "found", "publishing", "failed", "retire", "to"}
  BY DEF SmokeTyped, Scans
<1>1. CASE n = "resv" /\ S!SeeReservation(g)
  BY <1>0, <1>1 DEF S!SeeReservation, S!memory
<1>2. CASE n # "resv" /\ S!SeeNothing(g, n)
  BY <1>0, <1>2 DEF S!SeeNothing, S!memory
<1>3. CASE n = "final" /\ S!SeeDead(g) /\ ~S!Live(g)
  BY <1>0, <1>3 DEF S!SeeDead, S!memory
<1>4. CASE n # "resv" /\ S!SeeLive(g, n) /\ rec[g] = n
  <2>1. /\ scan'.to = scan.to /\ scan'.dir = scan.dir /\ scan'.todo = scan.todo \ {<<n, g>>}
        /\ scan'.publishing <=> (scan.publishing \/ n = "temp")
        /\ scan'.failed <=> (scan.failed \/ S!Conflicts(g, n))
        /\ scan'.found = IF S!Conflicts(g, n) THEN scan.found ELSE scan.found \cup {g}
        /\ known' = S!Remember(g, n) /\ (n = "temp" => caught')
    BY <1>0, <1>4 DEF S!SeeLive
  <2>2. S!Conflicts(g, n) => known' = known
    BY <2>1 DEF S!Remember
  <2>3. ~S!Conflicts(g, n) => known'[g] = n
                              /\ \A h \in S!Groups : known'[h] = known[h] \/ (~S!Live(h) /\ known'[h] = "no") \/ h = g
    BY <2>1 DEF S!Remember
  <2>4. QED BY <1>4, <2>1, <2>2, <2>3
<1>5. QED BY <1>1, <1>2, <1>3, <1>4 DEF S!See

LEMMA EntryKeeps ==
  ASSUME SmokeTyped, S!ScanEntry
  PROVE  scan'.to = scan.to
<1>1. PICK e \in scan.todo : S!See(e[1], e[2])
  BY DEF S!ScanEntry
<1>2. e[1] \in {"resv", "temp", "final"} /\ e[2] \in S!Groups
  BY <1>1 DEF SmokeTyped, Scans
<1>3. QED BY <1>1, <1>2, EntrySeen

LEMMA Lingers ==
  ASSUME SmokeTyped, PlaceSound, S!Next, smokePc' \in {"scan", "refreshed"}, scan' = scan, smokePc = "scan" <=> smokePc' = "scan",
         mode = "recovery"
  PROVE  (S!WorkerStep \/ S!GroupStep \/ S!Tick \/ S!GraceEnds) /\ smokePc' = smokePc /\ UNCHANGED <<known, caught>>
<1>1. ~S!Supervise
  BY DEF S!Supervise, S!WatchOuter, S!WatchInner, S!Poll, S!OwnRecord, S!OwnedKill, S!OwnedEnds, S!Refresh, S!RefreshAgain,
         S!RefreshFails, S!RefreshSignals, S!RefreshEmpty, S!Report, S!Goto, S!GotoFresh, S!OpenScan
<1>2. ~S!Watch
  BY DEF S!Watch, S!NfrWait, S!NfrWaited, S!HelperTerm, S!LookAgain, S!Looks, S!GroupTermed, S!KillGroups, S!Killing,
         S!GroupsReaped, S!Settle, S!Settled, S!Finish, S!Finishing, S!Ending, PlaceSound, SupervisorPcs
<1>3. ~S!Scan
  <2>1. ASSUME S!Scan PROVE FALSE
    <3>1. smokePc' = "scan" /\ S!ScanEntry
      BY <2>1 DEF S!Scan, S!Goto, PlaceSound
    <3>2. PICK e \in scan.todo : S!See(e[1], e[2])
      BY <3>1 DEF S!ScanEntry
    <3>3. PICK n \in {"resv", "temp", "final"}, g \in S!Groups : e = <<n, g>> /\ S!See(n, g)
      BY <3>2 DEF SmokeTyped, Scans
    <3>4. QED BY <3>2, <3>3, EntrySeen
  <2>2. QED BY <2>1
<1>4. ~S!Begin /\ ~S!SpawnWorker
  BY DEF S!Begin, S!SpawnWorker, S!Goto, S!GotoFresh
<1>5. QED BY <1>1, <1>2, <1>3, <1>4
     DEF S!Next, S!Control, S!WorkerStep, S!Reserve, S!SpawnKid, S!StopKid, S!RetireKid, S!AbandonKid, S!GiveUp,
         S!WorkerExits, S!WorkerCrashes, S!WorkerOnly, S!GroupStep, S!Tick, S!GraceEnds, S!memory

LEMMA TimeGoesOn ==
  ASSUME SmokeTyped, S!Next
  PROVE  late' \in 0..3 /\ (late = 3 => late' = 3)
<1>1. CASE S!Tick
  BY <1>1 DEF S!Tick, SmokeTyped
<1>2. CASE late' = late
  BY <1>2 DEF SmokeTyped
<1>3. QED BY <1>1, <1>2
     DEF S!Next, S!Control, S!Begin, S!SpawnWorker, S!Scan, S!ScanEntry, S!Supervise, S!Watch, S!WatchOuter,
         S!WatchInner, S!Poll, S!OwnRecord, S!OwnedKill, S!OwnedEnds, S!Refresh, S!RefreshAgain, S!RefreshFails,
         S!RefreshSignals, S!RefreshEmpty, S!Report, S!NfrWait, S!NfrWaited, S!HelperTerm, S!LookAgain, S!GroupTermed,
         S!KillGroups, S!Killing, S!GroupsReaped, S!Settle, S!Settled, S!Finish, S!Finishing, S!Ending, S!WorkerStep,
         S!Reserve, S!SpawnKid, S!StopKid, S!RetireKid, S!AbandonKid, S!GiveUp, S!WorkerExits, S!WorkerCrashes,
         S!WorkerOnly, S!GroupStep, S!GraceEnds, S!clock

LEMMA PlacesStep ==
  ASSUME SmokeTyped, PlaceSound, S!Next
  PROVE  PlaceSound'
<1>1. mode' = mode
  BY OthersStand
<1>2. CASE S!Tick \/ S!GraceEnds \/ S!GroupStep \/ S!WorkerStep
  BY <1>2 DEF S!Tick, S!GraceEnds, S!GroupStep, S!WorkerStep, S!Reserve, S!SpawnKid,
         S!StopKid, S!RetireKid, S!AbandonKid, S!GiveUp, S!WorkerExits, S!WorkerCrashes, S!WorkerOnly, PlaceSound
<1>3. CASE S!Begin \/ S!SpawnWorker
  BY <1>1, <1>3 DEF S!Begin, S!SpawnWorker, S!Goto, S!GotoFresh, S!Cancelled, PlaceSound, SupervisorPcs, RunnerPcs
<1>4. CASE S!Scan
  <2>1. CASE S!ScanEntry /\ smokePc' = "scan"
    <3>1. scan'.to = scan.to
      <4>1. PICK e \in scan.todo : S!See(e[1], e[2])
        BY <2>1 DEF S!ScanEntry
      <4>2. DOMAIN scan = {"dir", "todo", "found", "publishing", "failed", "retire", "to"}
        BY DEF SmokeTyped, Scans
      <4>3. CASE S!SeeLive(e[2], e[1])
        BY <4>2, <4>3 DEF S!SeeLive
      <4>4. CASE S!SeeReservation(e[2])
        BY <4>2, <4>4 DEF S!SeeReservation
      <4>5. CASE S!SeeNothing(e[2], e[1])
        BY <4>2, <4>5 DEF S!SeeNothing
      <4>6. CASE S!SeeDead(e[2])
        BY <4>2, <4>6 DEF S!SeeDead
      <4>7. QED BY <4>1, <4>3, <4>4, <4>5, <4>6 DEF S!See
    <3>2. QED BY <1>1, <1>4, <2>1, <3>1 DEF S!Scan, PlaceSound
  <2>2. CASE smokePc' = scan.to
    BY <1>1, <1>4, <2>2 DEF S!Scan, PlaceSound, SupervisorPcs, RunnerPcs
  <2>3. QED BY <1>4, <2>1, <2>2 DEF S!Scan, S!Goto
<1>5. CASE S!Supervise
  <2>1. mode = "recovery"
    BY <1>5 DEF S!Supervise, S!WatchOuter, S!WatchInner, S!Poll, S!OwnRecord, S!OwnedKill, S!OwnedEnds, S!Refresh,
         S!RefreshAgain, S!RefreshFails, S!RefreshSignals, S!RefreshEmpty, S!Report, PlaceSound, RunnerPcs
  <2>2. smokePc' \in SupervisorPcs
    BY <1>5, <2>1 DEF S!Supervise, S!WatchOuter, S!WatchInner, S!Poll, S!OwnRecord, S!OwnedKill, S!OwnedEnds, S!Refresh,
         S!RefreshAgain, S!RefreshFails, S!RefreshSignals, S!RefreshEmpty, S!Report, PlaceSound, SupervisorPcs,
         S!Goto, S!GotoFresh, S!OpenScan
  <2>3. smokePc' = "scan" => scan'.to \in {"watched", "poll", "refreshed"}
    BY <1>5 DEF S!Supervise, S!WatchOuter, S!WatchInner, S!Poll, S!OwnRecord, S!OwnedKill, S!OwnedEnds, S!Refresh,
         S!RefreshAgain, S!RefreshFails, S!RefreshSignals, S!RefreshEmpty, S!Report,
         S!Goto, S!GotoFresh, S!OpenScan, S!ScanOpen
  <2>4. QED BY <1>1, <2>1, <2>2, <2>3 DEF PlaceSound
<1>6. CASE S!Watch
  <2>1. mode # "recovery"
    BY <1>6 DEF S!Watch, S!NfrWait, S!NfrWaited, S!HelperTerm, S!LookAgain, S!Looks, S!GroupTermed, S!KillGroups, S!Killing,
         S!GroupsReaped, S!Settle, S!Settled, S!Finish, S!Finishing, S!Ending, PlaceSound, SupervisorPcs
  <2>2. smokePc' \in RunnerPcs \cup {"scan", "over"} /\ (smokePc' = "scan" => scan'.to \in RunnerPcs)
    BY <1>6 DEF S!Watch, S!NfrWait, S!NfrWaited, S!HelperTerm, S!LookAgain, S!Looks, S!GroupTermed, S!KillGroups, S!Killing,
         S!GroupsReaped, S!Settle, S!Settled, S!Finish, S!Finishing, S!Ending, RunnerPcs,
         S!Goto, S!GotoFresh, S!OpenScan, S!ScanOpen, S!LiveGroups
  <2>3. QED BY <1>1, <2>1, <2>2 DEF PlaceSound
<1>7. QED BY <1>2, <1>3, <1>4, <1>5, <1>6 DEF S!Next, S!Control

-----------------------------------------------------------------------------
(* The supervisor. *)

LEMMA GroupsKeep ==
  ASSUME SmokeInv, S!Next
  PROVE  (\A k \in Kids : KidSound(k)') /\ (\A g \in S!Groups : GroupSound(g)') /\ LeaderSound'
<1>1. SmokeTyped /\ (\A g \in S!Groups : GroupSound(g)) /\ LeaderSound /\ (\A k \in Kids : KidSound(k)) /\ FlowSound
  BY DEF SmokeInv
<1>2. (\A g \in S!Groups : Recalled(g)) /\ (caught => caught')
  BY <1>1, Recalls
<1>3. CASE S!WorkerStep
  BY <1>1, <1>3, WorkerGoes
<1>4. CASE Starts
  BY <1>1, <1>4, WorkerStarts
<1>5. CASE ~S!WorkerStep /\ (WhatGroupsDo \/ S!GroupStep)
  BY <1>1, <1>2, <1>5, PassiveGroups, GroupGoes, KidsWait, OthersStand
<1>6. QED BY <1>1, <1>3, <1>4, <1>5, GroupsDo, Memberships

\* What is finished stays so, once the worker cannot do anything any more.
LEMMA FinishedStays ==
  ASSUME SmokeTyped, GroupSound(Worker), S!Next, smokePc \notin {"start", "spawn"}, S!Finished(Worker),
         NEW g \in S!Groups
  PROVE  /\ ~S!WorkerStep
         /\ S!Finished(g) => S!Finished(g)'
         /\ S!Finished(g) /\ ~S!Live(g) => ~S!Live(g)'
<1> USE Memberships
<1>1. ~S!WorkerStep
  BY DEF S!WorkerStep, S!Reserve, S!SpawnKid, S!StopKid, S!RetireKid, S!AbandonKid, S!GiveUp, S!WorkerExits,
         S!WorkerCrashes, S!Working, S!Finished
<1>2. CASE WhatGroupsDo
  BY <1>1, <1>2 DEF WhatGroupsDo, S!Kill, Taken, S!Finished, S!Live, SmokeTyped
<1>3. CASE S!GroupStep
  <2>1. PICK x \in S!Groups : S!Group(x)
    BY <1>3 DEF S!GroupStep
  <2>2. \A h \in S!Groups : h # x => proc'[h] = proc[h]
    BY <2>1 DEF SmokeTyped, S!Group, S!WriteRecord, S!RenameRecord, S!FinishReservation, S!Dies, S!Reaped, S!Ends
  <2>3. proc[x] \notin {"none", "gone"} /\ (proc[x] = "dying" => proc'[x] = "gone")
    BY <2>1 DEF SmokeTyped, S!Group, S!WriteRecord, S!RenameRecord, S!FinishReservation, S!Dies, S!Reaped, S!Ends
  <2>4. QED BY <1>1, <2>2, <2>3 DEF S!Finished, S!Live
<1>4. ~Starts
  BY DEF Starts, S!Begin, S!SpawnWorker
<1>5. QED BY <1>1, <1>2, <1>3, <1>4, GroupsDo

LEMMA EarlyStep ==
  ASSUME SmokeInv, S!Next
  PROVE  /\ smokePc' \in {"start", "spawn"} => proc'[Worker] = "none"
         /\ smokePc' = "spawn" => Worker \in resv'
<1> USE Memberships
<1>1. SmokeTyped /\ PlaceSound /\ FlowSound /\ (\A g \in S!Groups : GroupSound(g))
  BY DEF SmokeInv
<1>2. CASE S!Begin
  BY <1>1, <1>2 DEF S!Begin, FlowSound, S!processes, S!Goto, S!GotoFresh
<1>3. CASE S!SpawnWorker
  BY <1>3 DEF S!SpawnWorker, S!GotoFresh
<1>4. CASE S!WorkerStep
  BY <1>1, <1>4 DEF S!WorkerStep, S!Reserve, S!SpawnKid, S!StopKid, S!RetireKid, S!AbandonKid, S!GiveUp,
       S!WorkerExits, S!WorkerCrashes, S!Working, S!WorkerOnly, FlowSound
<1>5. CASE S!GroupStep
  <2>1. PICK x \in S!Groups : S!Group(x) /\ smokePc' = smokePc
    BY <1>5 DEF S!GroupStep
  <2>2. proc[x] # "none"
    BY <2>1 DEF S!Group, S!WriteRecord, S!RenameRecord, S!FinishReservation, S!Dies, S!Reaped
  <2>3. CASE proc[Worker] = "none"
    <3>1. proc'[Worker] = proc[Worker] /\ (Worker \in resv => Worker \in resv')
      BY <1>1, <2>1, <2>2, <2>3 DEF SmokeTyped, S!Group, S!WriteRecord, S!RenameRecord, S!FinishReservation,
           S!Dies, S!Reaped, S!Ends, S!files
    <3>2. QED BY <1>1, <2>1, <2>3, <3>1 DEF FlowSound
  <2>4. QED BY <1>1, <2>1, <2>3 DEF FlowSound
<1>6. CASE S!Scan
  <2>1. smokePc' \notin {"start", "spawn"}
    BY <1>1, <1>6 DEF S!Scan, S!Goto, PlaceSound, RunnerPcs
  <2>2. QED BY <2>1
<1>7. CASE S!Supervise \/ S!Watch
  <2>1. smokePc' \notin {"start", "spawn"}
    BY <1>7, ScanGoes DEF S!Supervise, S!WatchOuter, S!WatchInner, S!Poll, S!OwnRecord, S!OwnedKill, S!OwnedEnds, S!Refresh,
         S!RefreshAgain, S!RefreshFails, S!RefreshSignals, S!RefreshEmpty, S!Report,
         S!Watch, S!NfrWait, S!NfrWaited, S!HelperTerm, S!LookAgain, S!GroupTermed, S!KillGroups, S!Killing,
         S!GroupsReaped, S!Settle, S!Settled, S!Finish, S!Finishing, S!Ending,
         S!Goto, S!GotoFresh, S!OpenScan, S!LiveGroups
  <2>2. QED BY <2>1
<1>8. CASE S!Tick \/ S!GraceEnds
  BY <1>1, <1>8 DEF S!Tick, S!GraceEnds, S!processes, S!files, FlowSound
<1>9. QED BY <1>2, <1>3, <1>4, <1>5, <1>6, <1>7, <1>8 DEF S!Next, S!Control

LEMMA SuccessStep ==
  ASSUME SmokeInv, S!Next
  PROVE  success' => exit' = "ok" /\ ~S!Live(Worker)'
<1> USE Memberships
<1>1. SmokeTyped /\ PlaceSound /\ FlowSound /\ LeaderSound /\ (\A g \in S!Groups : GroupSound(g))
  BY DEF SmokeInv
<1>2. CASE success' = success
  <2> SUFFICES ASSUME success PROVE exit' = "ok" /\ ~S!Live(Worker)'
    BY <1>2
  <2>1. exit = "ok" /\ ~S!Live(Worker) /\ proc[Worker] = "gone"
    BY <1>1 DEF FlowSound, LeaderSound, S!Live
  <2>2. smokePc \notin {"start", "spawn"} /\ S!Finished(Worker)
    BY <1>1, <2>1 DEF FlowSound, S!Finished
  <2>3. ~S!Live(Worker)' /\ ~S!WorkerStep
    BY <1>1, <2>1, <2>2, FinishedStays
  <2>4. exit' = exit
    <3>1. ~Starts
      BY <2>2 DEF Starts, S!Begin, S!SpawnWorker
    <3>2. QED BY <1>1, <2>1, <2>3, <3>1, GroupsDo, GroupGoes DEF WhatGroupsDo, Taken,
               S!GroupStep, S!Group, S!WriteRecord, S!RenameRecord, S!FinishReservation, S!Dies, S!Reaped, S!Ends
  <2>5. QED BY <2>1, <2>3, <2>4
<1>3. CASE S!Report
  BY <1>1, <1>3 DEF S!Report, FlowSound, Cleaning, S!Quiet, S!processes, S!Live
<1>4. CASE S!Settled
  BY <1>1, <1>4 DEF S!Settled, LeaderSound, S!HelperLive, S!HelperKnown, S!Quiet, S!processes, S!Live
<1>5. success' = success \/ S!Report \/ S!Settled
  BY DEF S!Next, S!Control, S!Begin, S!SpawnWorker, S!Scan, S!Supervise, S!Watch, S!WatchOuter, S!WatchInner, S!Poll,
       S!OwnRecord, S!OwnedKill, S!OwnedEnds, S!Refresh, S!RefreshAgain, S!RefreshFails, S!RefreshSignals,
       S!RefreshEmpty, S!NfrWait, S!NfrWaited, S!HelperTerm, S!LookAgain, S!GroupTermed, S!KillGroups,
       S!Killing, S!GroupsReaped, S!Settle, S!Finish, S!Finishing, S!Ending, S!WorkerStep, S!Reserve,
       S!SpawnKid, S!StopKid, S!RetireKid, S!AbandonKid, S!GiveUp, S!WorkerExits, S!WorkerCrashes, S!WorkerOnly,
       S!GroupStep, S!Tick, S!GraceEnds, S!RunnerOnly
<1>6. QED BY <1>2, <1>3, <1>4, <1>5

LEMMA CleaningStep ==
  ASSUME SmokeInv, S!Next, Cleaning'
  PROVE  /\ ~failed' => ~S!Live(Worker)'
         /\ ~caught' => S!Finished(Worker)'
<1> USE Memberships
<1>1. SmokeTyped /\ PlaceSound /\ FlowSound /\ LeaderSound /\ (\A g \in S!Groups : GroupSound(g)) /\ mode' = mode
      /\ mode = "recovery"
  BY OthersStand DEF SmokeInv, Cleaning
<1>2. caught => caught'
  BY <1>1, Recalls
<1>3. CASE Cleaning
  <2>1. smokePc \notin {"start", "spawn"}
    BY <1>3 DEF Cleaning
  <2>2. failed => failed'
    BY <1>1, <1>3 DEF S!Next, S!Control, S!Begin, S!SpawnWorker, S!Scan, S!Supervise, S!Watch, S!WatchOuter, S!WatchInner, S!Poll,
       S!OwnRecord, S!OwnedKill, S!OwnedEnds, S!Refresh, S!RefreshAgain, S!RefreshFails, S!RefreshSignals, S!Report,
       S!RefreshEmpty, S!NfrWait, S!NfrWaited, S!HelperTerm, S!LookAgain, S!Looks, S!GroupTermed, S!KillGroups,
       S!Killing, S!GroupsReaped, S!Settle, S!Settled, S!Finish, S!Finishing, S!Ending, S!WorkerStep, S!Reserve,
       S!SpawnKid, S!StopKid, S!RetireKid, S!AbandonKid, S!GiveUp, S!WorkerExits, S!WorkerCrashes, S!WorkerOnly,
       S!GroupStep, S!Tick, S!GraceEnds, S!flow, Cleaning
  <2>3. CASE ~failed'
    BY <1>1, <1>2, <1>3, <2>1, <2>2, <2>3, FinishedStays DEF FlowSound, S!Finished, S!Live, SmokeTyped
  <2>4. CASE ~caught'
    BY <1>1, <1>2, <1>3, <2>1, <2>2, <2>4, FinishedStays DEF FlowSound, S!Finished, S!Live, SmokeTyped
  <2>5. QED BY <2>3, <2>4, <1>1, <1>2, <1>3, <2>1, <2>2, FinishedStays DEF FlowSound, S!Finished, S!Live
<1>4. CASE ~Cleaning
  <2>1. S!Begin \/ S!SpawnWorker \/ S!OwnRecord \/ S!OwnedEnds
    <3>1. ~S!Watch
      BY <1>1 DEF S!Watch, S!NfrWait, S!NfrWaited, S!HelperTerm, S!LookAgain, S!Looks, S!GroupTermed, S!KillGroups, S!Killing,
         S!GroupsReaped, S!Settle, S!Settled, S!Finish, S!Finishing, S!Ending, PlaceSound, SupervisorPcs
    <3>2. ~S!Scan
      <4>1. ASSUME S!Scan PROVE FALSE
        <5>1. scan.to # "refreshed" /\ smokePc = "scan"
          BY <1>1, <1>4, <4>1 DEF Cleaning, S!Scan
        <5>2. smokePc' = "scan" => scan'.to = scan.to
          BY <1>1, <4>1, EntryKeeps DEF S!Scan, S!Goto, PlaceSound
        <5>3. QED BY <1>1, <4>1, <5>1, <5>2 DEF S!Scan, S!Goto, Cleaning, PlaceSound
      <4>2. QED BY <4>1
    <3>3. ~(S!WorkerStep \/ S!GroupStep \/ S!Tick \/ S!GraceEnds)
      BY <1>1, <1>4 DEF S!WorkerStep, S!Reserve, S!SpawnKid, S!StopKid, S!RetireKid, S!AbandonKid, S!GiveUp,
         S!WorkerExits, S!WorkerCrashes, S!WorkerOnly, S!GroupStep, S!Tick, S!GraceEnds, Cleaning
    <3>4. ~(S!WatchOuter \/ S!WatchInner \/ S!Poll \/ S!OwnedKill)
      BY <1>1, <1>4 DEF S!WatchOuter, S!WatchInner, S!Poll, S!OwnedKill, Cleaning, S!OpenScan, S!ScanOpen, S!Goto
    <3>5. ~(S!Refresh \/ S!RefreshAgain \/ S!RefreshFails \/ S!RefreshSignals \/ S!RefreshEmpty \/ S!Report)
      BY <1>1, <1>4 DEF S!Refresh, S!RefreshAgain, S!RefreshFails, S!RefreshSignals, S!RefreshEmpty, S!Report, Cleaning
    <3>6. QED BY <3>1, <3>2, <3>3, <3>4, <3>5 DEF S!Next, S!Control, S!Supervise
  <2>2. CASE S!Begin
    BY <1>1, <2>2 DEF S!Begin, FlowSound, S!processes, S!Goto, Cleaning, S!Live, S!Finished
  <2>3. CASE S!SpawnWorker
    BY <1>1, <2>3 DEF S!SpawnWorker, FlowSound, S!GotoFresh, Cleaning, S!Live, S!Finished
  <2>4. CASE S!OwnRecord
    BY <1>1, <2>4 DEF S!OwnRecord, GroupSound, S!GotoFresh, Cleaning, S!memory
  <2>5. CASE S!OwnedEnds
    BY <1>1, <2>5 DEF S!OwnedEnds, S!processes, S!Live, S!Finished
  <2>6. QED BY <2>1, <2>2, <2>3, <2>4, <2>5
<1>5. QED BY <1>3, <1>4

LEMMA FlowStep == SmokeInv /\ S!Next => FlowSound'
<1> SUFFICES ASSUME SmokeInv, S!Next PROVE FlowSound'
  OBVIOUS
<1>1. smokePc' = "spawn" => smokePc' \in {"start", "spawn"}
  OBVIOUS
<1>2. QED BY <1>1, EarlyStep, SuccessStep, CleaningStep DEF FlowSound

-----------------------------------------------------------------------------
(* The scans of the cleanup. *)

LEMMA ScanStep == SmokeInv /\ S!Next => ScanSound'
<1> SUFFICES ASSUME SmokeInv, S!Next PROVE ScanSound'
  OBVIOUS
<1> USE Memberships
<1>1. /\ SmokeTyped /\ PlaceSound /\ FlowSound /\ ScanSound /\ (\A g \in S!Groups : GroupSound(g)) /\ mode' = mode
      /\ (caught => caught') /\ late' \in 0..3 /\ (late = 3 => late' = 3)
  BY OthersStand, Recalls, TimeGoesOn DEF SmokeInv
<1>2. CASE Opened
  <2>1. PICK d \in {"inner", "outer"}, r \in BOOLEAN, to \in SupervisorPcs \cup RunnerPcs :
          /\ S!ScanOpen(d, r, to) /\ smokePc' = "scan" /\ smokePc # "scan"
          /\ to = "refreshed" => S!Refresh /\ d = "inner"
    BY <1>2 DEF Opened
  <2>2. scan'.dir = d /\ scan'.todo = S!Listing(d) /\ scan'.failed = FALSE /\ scan'.to = to
    BY <2>1 DEF S!ScanOpen
  <2>3. ASSUME Cleaning', ~caught', NEW k \in Kids PROVE Seen(k)'
    <3>1. to = "refreshed"
      BY <2>1, <2>2, <2>3 DEF Cleaning
    <3>2. UNCHANGED <<proc, exit, resv, rec, known, caught>>
      BY <2>1, <3>1 DEF S!Refresh, S!Quiet, S!processes, S!files, S!memory
    <3>3. S!Finished(k) \/ k \in resv \/ rec[k] = "final"
      BY <1>1 DEF GroupSound, S!Finished, SmokeTyped, Procs
    <3>4. S!Dir(k) = "inner"
      BY DEF S!Dir
    <3>5. S!Names(k) \subseteq S!Listing("inner")
      BY <3>4 DEF S!Listing
    <3>6. (k \in resv => <<"resv", k>> \in S!Names(k)) /\ (rec[k] = "final" => <<"final", k>> \in S!Names(k))
      BY DEF S!Names
    <3>7. QED BY <2>1, <2>2, <3>1, <3>2, <3>3, <3>5, <3>6 DEF Seen, S!Finished
  <2>4. QED BY <2>1, <2>2, <2>3 DEF ScanSound, Cleaning
<1>3. CASE S!Scan /\ S!ScanEntry /\ smokePc' = "scan"
  <2>1. PICK e \in scan.todo : S!See(e[1], e[2])
    BY <1>3 DEF S!ScanEntry
  <2>2. PICK n \in {"resv", "temp", "final"}, g \in S!Groups : e = <<n, g>> /\ S!See(n, g)
    BY <1>1, <2>1 DEF SmokeTyped, Scans
  <2>3. UNCHANGED <<proc, exit, resv, late>> /\ smokePc = "scan" /\ late < 3
    BY <1>3 DEF S!Scan, S!ScanEntry, S!processes, S!clock
  <2>4. /\ scan'.to = scan.to /\ scan'.dir = scan.dir /\ scan'.todo = scan.todo \ {<<n, g>>}
        /\ scan.found \subseteq scan'.found
        /\ scan.publishing => scan'.publishing
        /\ n = "resv" => scan'.publishing
        /\ scan.failed => scan'.failed
        /\ scan'.failed => scan.failed \/ (S!Conflicts(g, n) /\ rec[g] = n /\ (n = "temp" => caught'))
        /\ scan'.publishing \/ ~S!Live(g) \/ scan'.failed \/ n = "resv" \/ (g \in scan'.found /\ known'[g] = n)
        /\ \A h \in S!Groups : known'[h] = known[h] \/ (~S!Live(h) /\ known'[h] = "no") \/ h = g
    BY <1>1, <2>2, EntrySeen
  <2>5. ~caught' => ~scan'.failed
    <3>1. ASSUME ~caught', S!Conflicts(g, n), rec[g] = n, n = "temp" => caught' PROVE FALSE
      BY <1>1, <2>2, <3>1 DEF S!Conflicts, GroupSound, SmokeTyped
    <3>2. QED BY <1>1, <2>3, <2>4, <3>1 DEF ScanSound
  <2>6. ASSUME Cleaning', ~caught', ~scan'.publishing, ~scan'.failed, NEW k \in Kids PROVE Seen(k)'
    <3>1. Cleaning /\ ~caught /\ ~scan.publishing /\ ~scan.failed
      BY <1>1, <2>3, <2>4, <2>6, <1>3 DEF Cleaning
    <3>2. Seen(k)
      BY <1>1, <2>3, <3>1 DEF ScanSound
    <3>3. CASE S!Finished(k)
      BY <2>3, <3>3 DEF Seen, S!Finished
    <3>4. CASE ~S!Finished(k) /\ k = g
      <4>1. S!Live(k)
        BY <1>1, <3>4 DEF S!Live, S!Finished, SmokeTyped
      <4>2. n # "temp"
        BY <2>2, <2>4, <2>6, <3>4, <4>1, <1>1, EntrySeen
      <4>3. QED BY <2>2, <2>4, <2>6, <3>4, <4>1, <4>2 DEF Seen
    <3>5. CASE ~S!Finished(k) /\ k # g
      <4>1. S!Live(k)
        BY <1>1, <3>5 DEF S!Live, S!Finished, SmokeTyped
      <4>2. known'[k] = known[k]
        BY <2>4, <3>5, <4>1
      <4>3. \A m : <<m, k>> \in scan.todo => <<m, k>> \in scan'.todo
        BY <2>4, <3>5
      <4>4. QED BY <2>4, <3>2, <3>5, <4>2, <4>3 DEF Seen
    <3>6. QED BY <3>3, <3>4, <3>5
  <2>7. QED BY <1>1, <1>3, <2>3, <2>4, <2>5, <2>6 DEF ScanSound, Cleaning
<1>4. CASE S!Scan /\ S!ScanClose /\ smokePc' = scan.to /\ (late = 3 \/ scan.todo = {}) /\ UNCHANGED caught
  <2>1. /\ scan'.todo = {} /\ UNCHANGED <<proc, exit, resv, rec>> /\ smokePc = "scan" /\ smokePc' # "scan"
        /\ late' = late
    <3>1. smokePc = "scan"
      BY <1>4 DEF S!Scan
    <3>2. smokePc' # "scan"
      BY <1>1, <1>4, <3>1 DEF PlaceSound, RunnerPcs
    <3>3. UNCHANGED <<proc, exit, resv, rec, late>>
      BY <1>4, <3>2 DEF S!Scan, S!Goto, S!processes, S!files, S!clock
    <3>4. scan'.todo = {}
      BY <1>4 DEF S!ScanClose, S!NoScan
    <3>5. QED BY <3>1, <3>2, <3>3, <3>4
  <2>2. ~caught' /\ scan'.failed => late' = 3
    BY <1>1, <1>4, <2>1 DEF S!ScanClose, S!NoScan, ScanSound
  <2>3. ASSUME Cleaning', smokePc' = "refreshed", ~caught', ~scan'.publishing, ~scan'.failed, NEW k \in Kids
        PROVE  Seen(k)'
    <3>1. Cleaning /\ ~caught
      BY <1>1, <1>4, <2>1, <2>3 DEF Cleaning
    <3>2. late # 3
      BY <1>4, <2>3 DEF S!ScanClose, S!NoScan
    <3>3. ~scan.publishing /\ ~scan.failed /\ scan.found \subseteq scan'.found
      <4>1. scan'.publishing = scan.publishing /\ scan'.failed = scan.failed
        BY <1>4, <3>2 DEF S!ScanClose, S!NoScan
      <4>2. ~scan.publishing => scan'.found = scan.found \cup {g \in S!Remembered(scan.dir) \ scan.found : S!Live(g)}
        BY <1>4, <3>2 DEF S!ScanClose, S!NoScan
      <4>3. QED BY <2>3, <4>1, <4>2
    <3>4. Seen(k) /\ scan.todo = {}
      BY <1>1, <1>4, <2>1, <3>1, <3>2, <3>3 DEF ScanSound
    <3>5. k \in scan.found => known'[k] = known[k]
      BY <1>4, <3>2 DEF S!ScanClose
    <3>6. QED BY <2>1, <3>3, <3>4, <3>5 DEF Seen, S!Finished
  <2>4. QED BY <2>1, <2>2, <2>3 DEF ScanSound
<1>5. CASE scan' = scan /\ (smokePc = "scan" <=> smokePc' = "scan")
  <2>1. ASSUME Cleaning', smokePc' \in {"scan", "refreshed"}, ~caught', ~scan.publishing, ~scan.failed, NEW k \in Kids
        PROVE  Seen(k)'
    <3>0. mode = "recovery"
      BY <1>1, <2>1 DEF Cleaning
    <3>1. (S!WorkerStep \/ S!GroupStep \/ S!Tick \/ S!GraceEnds) /\ smokePc' = smokePc /\ UNCHANGED <<known, caught>>
      BY <1>1, <1>5, <2>1, <3>0, Lingers
    <3>2. Cleaning /\ ~caught
      BY <1>1, <1>5, <2>1, <3>1 DEF Cleaning
    <3>3. smokePc \notin {"start", "spawn"} /\ S!Finished(Worker)
      BY <1>1, <3>2 DEF FlowSound, Cleaning
    <3>4. S!Finished(k) => S!Finished(k)'
      BY <1>1, <3>3, FinishedStays
    <3>5. Seen(k)
      BY <1>1, <2>1, <3>1, <3>2 DEF ScanSound
    <3>6. QED BY <1>5, <3>1, <3>4, <3>5 DEF Seen
  <2>2. QED BY <1>1, <1>5, <2>1 DEF ScanSound, Cleaning
<1>6. QED BY <1>2, <1>3, <1>4, <1>5, ScanGoes

-----------------------------------------------------------------------------
(* The end of the cleanup. *)

LEMMA ForgottenStep == SmokeInv /\ S!Next => NothingForgotten'
<1> SUFFICES ASSUME SmokeInv, S!Next, mode' = "recovery", smokePc' \in {"done", "over"}, ~caught', NEW g \in S!Groups
             PROVE  S!Finished(g)' \/ (late' = 3 /\ known'[g] = "no")
  BY DEF NothingForgotten
<1> USE Memberships
<1>1. /\ SmokeTyped /\ PlaceSound /\ FlowSound /\ ScanSound /\ GroupSound(g) /\ GroupSound(Worker) /\ mode = "recovery"
      /\ ~caught /\ (late = 3 => late' = 3)
  BY OthersStand, Recalls, TimeGoesOn DEF SmokeInv
<1>2. CASE smokePc \in {"done", "over"}
  <2>1. S!Finished(g) \/ (late = 3 /\ known[g] = "no")
    BY <1>1, <1>2 DEF SmokeInv, NothingForgotten
  <2>2. S!Finished(Worker) /\ smokePc \notin {"start", "spawn"}
    BY <1>1, <1>2 DEF FlowSound, Cleaning
  <2>3. ~S!WorkerStep /\ (S!Finished(g) => S!Finished(g)')
    BY <1>1, <2>2, FinishedStays
  <2>4. known' = known
    BY <1>1, <1>2, <2>3 DEF S!Next, S!Control, S!Begin, S!SpawnWorker, S!Scan, S!Supervise, S!Watch, S!WatchOuter,
       S!WatchInner, S!Poll, S!OwnRecord, S!OwnedKill, S!OwnedEnds, S!Refresh, S!RefreshAgain, S!RefreshFails,
       S!RefreshSignals, S!Report, S!RefreshEmpty, S!NfrWait, S!NfrWaited, S!HelperTerm, S!LookAgain, S!Looks,
       S!GroupTermed, S!KillGroups, S!Killing, S!GroupsReaped, S!Settle, S!Settled, S!Finish, S!Finishing, S!Ending,
       S!GroupStep, S!Tick, S!GraceEnds, S!memory
  <2>5. QED BY <1>1, <2>1, <2>3, <2>4
<1>3. CASE smokePc \notin {"done", "over"}
  <2>1. S!RefreshFails \/ S!RefreshSignals \/ S!RefreshEmpty
    <3>1. ~S!Watch
      BY <1>1 DEF S!Watch, S!NfrWait, S!NfrWaited, S!HelperTerm, S!LookAgain, S!Looks, S!GroupTermed, S!KillGroups, S!Killing,
         S!GroupsReaped, S!Settle, S!Settled, S!Finish, S!Finishing, S!Ending, PlaceSound, SupervisorPcs
    <3>2. ~(S!WorkerStep \/ S!GroupStep \/ S!Tick \/ S!GraceEnds)
      BY <1>3 DEF S!WorkerStep, S!Reserve, S!SpawnKid, S!StopKid, S!RetireKid, S!AbandonKid, S!GiveUp,
         S!WorkerExits, S!WorkerCrashes, S!WorkerOnly, S!GroupStep, S!Tick, S!GraceEnds
    <3>3. ~(S!Begin \/ S!SpawnWorker \/ S!Scan)
      BY <1>1 DEF S!Begin, S!SpawnWorker, S!Scan, S!Goto, S!GotoFresh, PlaceSound
    <3>4. QED BY <1>3, <3>1, <3>2, <3>3 DEF S!Next, S!Control, S!Supervise, S!WatchOuter, S!WatchInner, S!Poll,
       S!OwnRecord, S!OwnedKill, S!OwnedEnds, S!Refresh, S!RefreshAgain, S!Report, S!Goto, S!GotoFresh, S!OpenScan
  <2>2. smokePc = "refreshed" /\ Cleaning /\ scan.todo = {} /\ UNCHANGED <<rec, known>>
    BY <1>1, <2>1 DEF S!RefreshFails, S!RefreshSignals, S!RefreshEmpty, Cleaning, ScanSound, S!files, S!memory, S!Quiet
  <2>3. S!Finished(Worker)
    BY <1>1, <2>2 DEF FlowSound
  <2>4. S!Finished(g) => S!Finished(g)'
    BY <1>1, <2>2, <2>3, FinishedStays
  <2>5. g = Worker \/ (g \in Kids /\ S!Dir(g) = "inner")
    BY DEF S!Groups, S!Dir
  <2>6. ~S!Finished(g) => S!Live(g) /\ (known[g] = "no" \/ (known[g] = "final" /\ rec[g] = "final"))
    BY <1>1 DEF S!Finished, S!Live, GroupSound, SmokeTyped
  <2>7. CASE S!RefreshFails
    <3>1. late = 3
      BY <1>1, <2>7 DEF S!RefreshFails, ScanSound
    <3>2. proc' = S!Kill(S!Readable(S!Remembered("inner")))
      BY <2>7 DEF S!RefreshFails, S!KillKnown
    <3>3. ASSUME ~S!Finished(g), known[g] # "no" PROVE S!Finished(g)'
      <4>1. g \in S!Readable(S!Remembered("inner"))
        BY <2>3, <2>5, <2>6, <3>3 DEF S!Readable, S!Remembered
      <4>2. QED BY <2>6, <3>2, <3>3, <4>1 DEF S!Kill, S!Finished
    <3>4. QED BY <1>1, <2>2, <2>4, <3>1, <3>3
  <2>8. CASE S!RefreshSignals
    <3>1. ~scan.failed /\ ~scan.publishing /\ S!KillFails(scan.found) /\ proc' = S!Kill(S!Readable(scan.found))
      BY <2>8 DEF S!RefreshSignals, S!GotoFresh, S!KillKnown
    <3>2. ASSUME ~S!Finished(g) PROVE S!Finished(g)'
      <4>1. g \in scan.found
        BY <1>1, <2>2, <2>3, <2>5, <3>1, <3>2 DEF ScanSound, Seen
      <4>2. known[g] = "final"
        BY <1>1, <2>2, <2>3, <2>5, <3>1, <3>2 DEF ScanSound, Seen
      <4>3. g \in S!Readable(scan.found)
        BY <2>6, <3>2, <4>1, <4>2 DEF S!Readable
      <4>4. QED BY <2>6, <3>1, <3>2, <4>3 DEF S!Kill, S!Finished
    <3>3. QED BY <2>4, <3>2
  <2>9. CASE S!RefreshEmpty
    <3>1. ~scan.failed /\ ~scan.publishing /\ scan.found = {}
      BY <2>9 DEF S!RefreshEmpty
    <3>2. S!Finished(g)
      BY <1>1, <2>2, <2>3, <2>5, <3>1 DEF ScanSound, Seen
    <3>3. QED BY <2>4, <3>2
  <2>10. QED BY <2>1, <2>7, <2>8, <2>9
<1>4. QED BY <1>2, <1>3

LEMMA SmokeStep == SmokeInv /\ S!Next => SmokeInv'
<1> SUFFICES ASSUME SmokeInv, S!Next PROVE SmokeInv'
  OBVIOUS
<1>1. SmokeTyped /\ PlaceSound /\ GroupSound(Worker)
  BY Memberships DEF SmokeInv
<1>2. SmokeTyped'
  BY <1>1, FilesTyped, MemoryTyped, ScanTyped, TimeGoesOn DEF SmokeTyped
<1>3. PlaceSound'
  BY <1>1, PlacesStep
<1>4. QED BY <1>2, <1>3, GroupsKeep, FlowStep, ScanStep, ForgottenStep DEF SmokeInv

LEMMA SmokeInit == S!Init => SmokeInv
<1> SUFFICES ASSUME S!Init PROVE SmokeInv
  OBVIOUS
<1> USE Memberships DEF S!Init
<1>1. SmokeTyped
  <2>1. scan \in Scans
    BY DEF Scans, S!NoScan
  <2>2. proc \in [S!Groups -> Procs]
    BY DEF Procs
  <2>3. rec \in [S!Groups -> {"none", "temp", "final"}] /\ known \in [S!Groups -> {"no", "temp", "final"}]
    OBVIOUS
  <2>4. smokeStage \in [Kids -> {"idle", "reserved", "spawned", "retired"}] /\ resv \subseteq S!Groups
    OBVIOUS
  <2>5. exit \in {"none", "ok", "failed"} /\ late \in 0..3
    OBVIOUS
  <2>6. caught \in BOOLEAN /\ unwinding \in BOOLEAN
    OBVIOUS
  <2>7. QED BY <2>1, <2>2, <2>3, <2>4, <2>5, <2>6 DEF SmokeTyped
<1>2. PlaceSound
  BY DEF PlaceSound, SupervisorPcs
<1>3. /\ \A g \in S!Groups : GroupSound(g)
      /\ \A k \in Kids : KidSound(k)
      /\ LeaderSound
  BY DEF GroupSound, KidSound, LeaderSound, S!Live
<1>4. FlowSound /\ ScanSound /\ NothingForgotten
  BY DEF FlowSound, ScanSound, NothingForgotten, Cleaning, S!NoScan
<1>5. QED BY <1>1, <1>2, <1>3, <1>4 DEF SmokeInv

LEMMA SmokeStutters == SmokeInv /\ UNCHANGED smokeVars => SmokeInv'
BY DEF SmokeInv, smokeVars, SmokeTyped, PlaceSound, GroupSound, LeaderSound, KidSound, FlowSound, ScanSound, NothingForgotten,
       Cleaning, Seen, S!Finished, S!Live

LEMMA SmokeHolds == MCSpec => []SmokeInv
<1>1. MCInit => SmokeInv
  BY SmokeInit DEF MCInit
<1>2. SmokeInv /\ [MCNext]_MCVars => SmokeInv'
  BY SmokeStep, SmokeStutters DEF MCNext, MCVars, Registration, Smoke, Acceptance
<1>3. QED BY <1>1, <1>2, PTL DEF MCSpec

\* A smoke test that reports success has left no process and no record behind, and the recovery
\* test forgets no group whatever failed, for any number of groups (_supervise_recovery,
\* cleanup_registry, the timer of the NFR runner).
THEOREM NoGroupIsLeft == MCSpec => []NoGroupSurvives
<1>1. SmokeInv => NoGroupSurvives
  <2> SUFFICES ASSUME SmokeInv PROVE S!SuccessMeansGone /\ S!NoneForgotten
    BY DEF NoGroupSurvives, S!NoGroupSurvives
  <2>1. S!NoneForgotten
    BY DEF SmokeInv, NothingForgotten, S!NoneForgotten, S!Ended
  <2>2. ASSUME success PROVE (\A g \in S!Groups : ~S!Live(g)) /\ S!Listing("inner") = {}
    <3>1. exit = "ok" /\ ~S!Live(Worker)
      BY <2>2 DEF SmokeInv, FlowSound
    <3>2. \A k \in Kids : k \notin resv /\ rec[k] = "none" /\ ~S!Live(k)
      BY <3>1 DEF SmokeInv, KidSound
    <3>3. ASSUME NEW g \in S!Groups, S!Dir(g) = "inner" PROVE S!Names(g) = {}
      <4>1. g \in Kids
        BY <3>3 DEF S!Dir, S!Groups
      <4>2. QED BY <3>2, <4>1 DEF S!Names
    <3>4. QED BY <3>1, <3>2, <3>3 DEF S!Listing, S!Groups
  <2>3. QED BY <2>1, <2>2 DEF S!SuccessMeansGone
<1>2. QED BY <1>1, SmokeHolds, PTL
===============================================================================
