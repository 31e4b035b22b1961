-------------------------- MODULE InstallerProofs --------------------------
(***************************************************************************)
(* Proofs about InstallerTransaction for any originals and any number of   *)
(* crashes, faults and edits, with or without torn writes.  A receipt is a *)
(* claim about the disk, and up to three of them exist while one is being  *)
(* written: the published one, its copy and the one in hand.  The proofs   *)
(* show that each of the three agrees with the machine (Base), for a crash *)
(* leaves any of them to the next command, and what the command in hand    *)
(* knows at its place (Phase).  Why a command refuses is found from these. *)
(***************************************************************************)
EXTENDS InstallerTransaction, FiniteSetTheorems, TLAPS

\* Every variable has its type; a JSON file and a write are typed by the file.
ReceiptValues == Receipts \cup {[status |-> "none"], [status |-> "torn"]}
Phases == {"idle", "reconcile", "unpend", "recover", "recovered", "unchanged", "install", "rolling"}
PlaceTypes == [target : {"none", "pre", "post", "part", "edit", "clash", "merged"},
               stage : {"none", "pre", "post", "part"},
               recovery : {"none", "pre", "post", "part", "rest"}]

MachineTyped ==
    /\ had \in SUBSET Roles
    /\ place \in [Kinds -> PlaceTypes]
    /\ rstage \in {"none", "part", "merged", "edit"}
    /\ bundle \in {"none", "part", "whole"} /\ backup \in {"none", "old", "new"}

JsonTyped ==
    /\ json = [f \in Files |-> [live |-> json[f].live, temp |-> json[f].temp]]
    /\ json["pending"].live \in {"none", "this"} /\ json["pending"].temp \in {"none", "torn", "this"}
    /\ json["active"].live \in {"none", "old", "new"}
    /\ json["active"].temp \in {"none", "torn", "old", "new"}
    /\ json["receipt"].live \in ReceiptValues /\ json["receipt"].live.status # "torn"
    /\ json["receipt"].temp \in ReceiptValues

ProcTyped ==
    /\ proc = [cmd |-> proc.cmd, pc |-> proc.pc, at |-> proc.at, write |-> proc.write]
    /\ proc.cmd \in {"none", "install", "rollback", "failing", "refusing"}
    /\ proc.pc \in Phases /\ proc.at \in 0..34
    /\ proc.write = [step |-> proc.write.step, file |-> proc.write.file, value |-> proc.write.value]
    /\ proc.write.step \in {"none", "create", "fill", "swap", "finish"}
    /\ proc.write.file \in Files
    /\ proc.write.step = "none" => proc.write = Quiet
    /\ proc.write.step # "none" =>
          /\ proc.write.file = "pending" => proc.write.value = "this"
          /\ proc.write.file = "active" => proc.write.value = "new"
          /\ proc.write.file = "receipt" => proc.write.value \in Receipts

RestTyped ==
    /\ outcome \in {"", "installed", "rolled_back", "failed", "refused", "killed"}
    /\ spent \in [crashes : 0..MaxCrashes, faults : 0..MaxFaults, edits : 0..MaxEdits]

Typed == MachineTyped /\ JsonTyped /\ ProcTyped /\ RestTyped

-----------------------------------------------------------------------------
(* The documents of a receipt: the published one, its copy and the one that *)
(* is being written.  Before the first is published nothing is planned.     *)
Busy(f) == proc.write.step # "none" /\ proc.write.file = f
Known(doc) == IF Parsed(doc) THEN doc ELSE FreshReceipt
Docs == {Known(Doc)} \cup (IF Parsed(Pair.temp) THEN {Pair.temp} ELSE {})
            \cup (IF Busy("receipt") THEN {proc.write.value} ELSE {})
Coming == IF Busy("receipt") THEN proc.write.value ELSE Known(Doc)

\* How a write stands with its temporary copy.
WriteSound ==
    LET w == proc.write
        j == json[w.file]
    IN  /\ w.step = "create" => j.temp = Absent[w.file] \/ j.temp = w.value
        /\ w.step = "fill" => j.temp = Torn[w.file]
        /\ w.step = "swap" => j.temp = w.value
        /\ w.step = "finish" => j.live = w.value
        /\ Busy("pending") => w.step # "finish" /\ j.live = "none"

\* A command that has the receipt in hand leaves no copy of it behind.
ReceiptBare ==
    \/ Bare("receipt")
    \/ Busy("receipt") /\ proc.write.step \in {"fill", "swap", "finish"}
HandSound ==
    proc.pc \in {"install", "rolling", "recovered"} \/ (proc.pc = "unchanged" /\ Mine) => ReceiptBare

-----------------------------------------------------------------------------
(* A receipt and the objects: an act tells where they are, or were before   *)
(* the rename that the next receipt records.                                *)
TargetIs(k, image) == place[k].target = image \/ (k = "codex" /\ place[k].target \in {"edit", "clash"})
RowIs(k, target, stage, recovery) ==
    TargetIs(k, target) /\ place[k].stage = stage /\ place[k].recovery = recovery

MergeRow(act) ==
    LET c == place["codex"]
        q == Pre("codex")
    IN  /\ c.stage = "none" /\ c.target \in {"edit", "clash", "merged"}
        /\ act.state \in {"SEMANTIC_STAGED", "SEMANTIC_SWAPPED", "RESTORING", "RESTORED"}
        /\ act.state = "SEMANTIC_STAGED" =>
              c.recovery = q /\ (rstage = "edit" \/ (rstage = "merged" /\ c.target # "merged"))
        /\ act.state = "SEMANTIC_SWAPPED" => c.recovery = q /\ rstage \in {"edit", "none"}
        /\ act.state = "RESTORING" => c.recovery \in {q, "none"} /\ rstage = "none"
        /\ act.state = "RESTORED" => c.recovery = "none" /\ rstage = "none"

Begun == {"STAGED", "SWAPPED", "PARKED", "PUBLISHED", "COMPLETED", "RESTORING"}
PlainRow(k, act) ==
    LET p == act.post
        q == Pre(k)
    IN  /\ act.state \in {"unplanned", "PLANNED", "RESTORED"} \cup Begun
        /\ act.state \in {"unplanned", "RESTORED"} => RowIs(k, q, "none", "none")
        /\ act.state = "PLANNED" =>
              RowIs(k, q, place[k].stage, "none") /\ place[k].stage \in {"none", "part", "post"}
        /\ act.state \in Begun =>
              /\ p \in {"post", "part"} /\ (k = "codex" => p = "post")
              /\ \/ RowIs(k, q, "none", "none") \/ RowIs(k, q, p, "none")
                 \/ RowIs(k, p, q, "none") \/ RowIs(k, p, "none", q) \/ RowIs(k, q, "none", p)
                 \/ k \in Trees /\ RowIs(k, q, "none", "rest")
        /\ k = "codex" =>
              /\ act.state = "COMPLETED" => RowIs(k, p, "none", q) \/ RowIs(k, q, "none", p)
              /\ \/ rstage = "none"
                 \/ /\ act.state = "COMPLETED" /\ rstage \in {"part", "merged"}
                    /\ place[k].target \in {"edit", "clash"}
                    /\ place[k].stage = "none" /\ place[k].recovery = q

Agrees(k, act) == IF act.semantic THEN k = "codex" /\ MergeRow(act) ELSE PlainRow(k, act)

BundleAgrees(act) ==
    /\ act.state \in {"unplanned", "PLANNED", "STAGED", "CLEANED"}
    /\ act.state \in {"unplanned", "CLEANED"} => bundle = "none"

Shown == <<json["active"].live, backup>>
\* What the selectors show before and after the receipt says that it is published.
SelectorSound(doc) ==
    IF "active" \in doc.posts
    THEN /\ Bare("active")
         /\ doc.status \in {"PREPARED", "INSTALLED"} => Shown = <<"new", PrevActive>>
         /\ doc.status = "ROLLBACK_PENDING" => Shown \in {<<"new", PrevActive>>, <<PrevActive, "new">>}
         /\ doc.status = "ROLLED_BACK" => Shown \in {<<PrevActive, "new">>, <<PrevActive, "none">>}
    ELSE /\ doc.status = "PREPARED"
         /\ \A k \in Kinds \cup {"bundle"} : doc.acts[k].state = "unplanned"
         /\ IF Mine
            THEN \/ backup = PrevActive /\ json["active"].temp = "none"
                 \/ PrevActive = "old" /\ backup = "none" /\ json["active"].temp = "old"
            ELSE Shown = <<PrevActive, "none">> /\ json["active"].temp \in {"none", "torn", "new"}

StatusSound(doc) ==
    /\ doc.status = "INSTALLED" =>
          /\ ~Waiting /\ doc.posts = Roles /\ doc.acts["bundle"].state \in {"STAGED", "CLEANED"}
          /\ \A k \in Kinds : /\ doc.acts[k].state = "COMPLETED" /\ ~doc.acts[k].semantic
                              /\ RowIs(k, "post", "none", Pre(k))
    /\ doc.status = "ROLLED_BACK" =>
          /\ StagesAbsent
          /\ \A k \in Kinds : TargetIs(k, Pre(k)) \/ (k = "codex" /\ place[k].target = "merged")
    /\ Waiting /\ doc.status = "PREPARED" =>
          doc.posts \subseteq {"active"} /\ \A k \in Kinds \cup {"bundle"} : doc.acts[k].state = "unplanned"

DocSound(doc) ==
    /\ doc \in Receipts
    /\ \A k \in Kinds : Agrees(k, doc.acts[k])
    /\ BundleAgrees(doc.acts["bundle"])
    /\ SelectorSound(doc) /\ StatusSound(doc)

\* The merge of the user's configuration is recorded by all documents or by none, but
\* for the moment it is staged.
Merging(doc) == doc.acts["codex"].semantic
MergeSound ==
    (\E doc \in Docs : Merging(doc)) /\ (\E doc \in Docs : ~Merging(doc)) => rstage = "merged"

\* Selectors and receipts are begun one after the other.
PendingFirst ==
    ~Bare("receipt") \/ Parsed(Doc) \/ Busy("receipt") => json["pending"].temp = "none" /\ ~Busy("pending")
PendingOnce == json["pending"].temp = "this" /\ ~Busy("pending") => json["pending"].live = "none"
SelectorAfter ==
    ~Parsed(Doc) => /\ json["active"] = [live |-> PrevActive, temp |-> "none"]
                    /\ backup = "none" /\ ~Busy("active")
SelectorWrite ==
    Busy("active") => /\ \A doc \in Docs : doc.status = "PREPARED" /\ "active" \notin doc.posts
                      /\ proc.write.step = "finish" <=> Mine
                      /\ Mine => PrevActive = "old" /\ backup = "none" /\ json["active"].temp = "old"
RolledBackLast ==
    (\E doc \in Docs : doc.status = "ROLLED_BACK") /\ backup = "none" => Bare("receipt") /\ ~Busy("receipt")
OrderSound == PendingFirst /\ PendingOnce /\ SelectorAfter /\ SelectorWrite /\ RolledBackLast

-----------------------------------------------------------------------------
(* What a command knows at its place.                                       *)

\* The numbers of Program's steps.
PlanAt == [k \in Kinds |-> CASE k = "runtime" -> 10 [] k = "extension" -> 16 [] k = "userpref" -> 17 [] k = "codex" -> 26]
FillAt == [k \in Kinds |-> CASE k = "runtime" -> 12 [] k = "extension" -> 18 [] k = "userpref" -> 19 [] k = "codex" -> 28]
RecordAt == [k \in Kinds |-> CASE k = "runtime" -> 13 [] k = "extension" -> 20 [] k = "userpref" -> 21 [] k = "codex" -> 29]
ForwardAt == [k \in Kinds |-> CASE k = "runtime" -> 14 [] k = "extension" -> 22 [] k = "userpref" -> 23 [] k = "codex" -> 30]
PostAt == [k \in Roles |-> CASE k = "active" -> 4 [] k = "runtime" -> 15 [] k = "extension" -> 24 [] k = "userpref" -> 25 [] k = "codex" -> 31]

InstallRow(k, act, n) ==
    LET q == Pre(k)
    IN  /\ ~act.semantic
        /\ n <= PlanAt[k] => act.state = "unplanned" /\ At(k, q, "none", "none")
        /\ PlanAt[k] < n /\ n <= RecordAt[k] =>
              /\ act.state = "PLANNED" /\ At(k, q, place[k].stage, "none")
              /\ place[k].stage \in IF n <= FillAt[k] THEN {"none", "part"} ELSE {"post"}
        /\ RecordAt[k] < n => act.post = "post"
        /\ RecordAt[k] < n /\ n < ForwardAt[k] => act.state = "STAGED" /\ At(k, q, "post", "none")
        /\ n = ForwardAt[k] =>
              \/ act.state = "STAGED" /\ At(k, q, "post", "none")
              \/ k \in had /\ act.state = "SWAPPED" /\ At(k, "post", q, "none")
              \/ k \in had /\ act.state = "PARKED" /\ At(k, "post", "none", q)
              \/ k \notin had /\ act.state = "PUBLISHED" /\ At(k, "post", "none", q)
        /\ ForwardAt[k] < n => act.state = "COMPLETED" /\ At(k, "post", "none", q)

\* The receipt of an install at its n-th step, and how far its selectors are.
InstallReceipt(doc, n) ==
    /\ \A k \in Kinds : InstallRow(k, doc.acts[k], n)
    /\ n <= 6 => doc.acts["bundle"].state = "unplanned"
    /\ 6 < n /\ n <= 9 => doc.acts["bundle"].state = "PLANNED"
    /\ 9 < n /\ n <= 33 => doc.acts["bundle"].state = "STAGED"
    /\ n = 34 => doc.acts["bundle"].state = "CLEANED"
    /\ doc.status = IF n <= 32 THEN "PREPARED" ELSE "INSTALLED"
    /\ doc.posts = {r \in Roles : PostAt[r] < n}

InstallSelectors(n) ==
    /\ n = 1 => json["pending"].live = "none" /\ json["pending"].temp = "none" /\ proc.write.step = "none"
    /\ n = 2 => proc.write.step = "none" \/ Busy("pending")
    /\ n = 2 /\ ~Busy("pending") => json["pending"].temp = "none"
    /\ n <= 2 => Pair.live = Absent["receipt"] /\ Pair.temp = Absent["receipt"]
    /\ n >= 3 => ~Busy("pending") /\ (Busy("receipt") \/ Parsed(Doc))
    /\ n = 3 => json["active"].live = PrevActive /\ json["active"].temp = "none"
    /\ n = 4 => (Mine \/ Busy("active")) /\ ~Busy("receipt")
    /\ n = 4 /\ ~Busy("active") => json["active"].temp = "none" /\ backup = PrevActive
    /\ n # 4 => ~Busy("active")
    /\ n >= 6 => ~Waiting

InstallSound ==
    proc.pc = "install" =>
        /\ proc.cmd = "install" /\ proc.at \in 1..34 /\ rstage = "none"
        /\ InstallReceipt(Coming, proc.at) /\ InstallSelectors(proc.at)

\* A rollback works on a receipt whose rows it has checked.
RollingRows(doc) ==
    IF doc.status = "ROLLED_BACK" THEN backup = "new"
    ELSE /\ "active" \in doc.posts
         /\ \A k \in Kinds : doc.acts[k].state = "PLANNED" => At(k, Pre(k), "none", "none")
         /\ doc.acts["bundle"].state = "PLANNED" => bundle = "none"
         /\ doc.acts["codex"].state = "COMPLETED" =>
               place["codex"].stage = "none" /\ place["codex"].recovery = Pre("codex")
         /\ doc.acts["codex"].state \in {"COMPLETED", "SEMANTIC_STAGED"} => place["codex"].target # "clash"
RollingSound == proc.pc = "rolling" => RollingRows(Coming)

IdleSound ==
    /\ proc.pc = "idle" <=> proc.cmd = "none"
    /\ proc.pc = "idle" => proc = Idle
    /\ proc.pc # "idle" => outcome = ""
CursorSound ==
    /\ proc.pc # "install" => proc.at = 0 \/ (proc.at = 1 /\ Coming.acts["bundle"].state # "STAGED")
    /\ proc.pc \in {"reconcile", "unpend"} => proc.cmd \in {"install", "rollback"}
    /\ proc.pc = "unchanged" => proc.write.step = "none"
    /\ Busy("active") \/ Busy("pending") => proc.pc \in {"install", "reconcile"}
Settled(doc) == doc.status = "INSTALLED" /\ doc.acts["bundle"].state = "CLEANED"
RecoverySound ==
    /\ proc.pc = "unchanged" /\ (Reversed \/ Mine) => Settled(Doc)
    /\ proc.pc = "recovered" => Coming.status = "ROLLED_BACK" \/ Settled(Coming)
    /\ proc.pc = "recover" /\ Busy("receipt") => Mine \/ (backup = "new" /\ json["active"].live = PrevActive)
PlaceSound == IdleSound /\ CursorSound /\ RecoverySound

AllDocs == \A doc \in Docs : DocSound(doc)

\* What holds wherever the command is, and what it knows at its place.
Base == Typed /\ WriteSound /\ AllDocs /\ MergeSound /\ OrderSound
Phase == HandSound /\ InstallSound /\ RollingSound /\ PlaceSound /\ OutcomeWhole

-----------------------------------------------------------------------------
(* The constants and the program.                                          *)

\* What the absent and the torn values are, field by field.
LEMMA Empties ==
    /\ Absent["receipt"] = [status |-> "none"] /\ Torn["receipt"] = [status |-> "torn"]
    /\ \A f \in {"pending", "active"} : Absent[f] = "none" /\ Torn[f] = "torn"
    /\ Quiet = [step |-> "none", file |-> "receipt", value |-> [status |-> "none"]]
    /\ Quiet.step = "none" /\ Quiet.file = "receipt" /\ Quiet.value = [status |-> "none"]
    /\ Idle = [cmd |-> "none", pc |-> "idle", at |-> 0, write |-> Quiet]
    /\ Idle.cmd = "none" /\ Idle.pc = "idle" /\ Idle.at = 0 /\ Idle.write = Quiet
BY DEF Absent, Torn, Files, Quiet, Idle

\* The receipt of a run that has planned nothing.
LEMMA FreshTyped ==
    /\ FreshReceipt \in Receipts /\ Parsed(FreshReceipt) /\ FreshReceipt.status = "PREPARED"
    /\ FreshReceipt.posts = {} /\ \A k \in Kinds \cup {"bundle"} : FreshReceipt.acts[k] = Unplanned
BY DEF FreshReceipt, Unplanned, Receipts, Parsed

\* Which steps of the program do what, and with what.
LEMMA StepNumbers ==
    ASSUME NEW n \in 1..34
    PROVE  /\ Program[n].on \in Kinds \cup {"bundle", "active"}
           /\ Program[n].op = "pending" => n = 1
           /\ Program[n].op = "receipt" => n = 2
           /\ Program[n].op = "active" => n = 3
           /\ Program[n].op = "unpend" => n = 5
           /\ Program[n].op = "verified" => n = 32
           /\ Program[n].op = "clean" => n = 33
           /\ Program[n].op = "done" => n = 34
           /\ Program[n].op = "plan" => \/ Program[n].on = "bundle" /\ n = 6
                                        \/ Program[n].on \in Kinds /\ n = PlanAt[Program[n].on]
           /\ Program[n].op = "open" => \/ Program[n].on = "bundle" /\ n = 7
                                        \/ Program[n].on = "runtime" /\ n = 11
                                        \/ Program[n].on = "codex" /\ n = 27
           /\ Program[n].op = "fill" => \/ Program[n].on = "bundle" /\ n = 8
                                        \/ Program[n].on = "runtime" /\ n = FillAt["runtime"]
                                        \/ Program[n].on = "codex" /\ n = FillAt["codex"]
           /\ Program[n].op = "move" => Program[n].on \in {"extension", "userpref"} /\ n = FillAt[Program[n].on]
           /\ Program[n].op = "record" => \/ Program[n].on = "bundle" /\ n = 9
                                          \/ Program[n].on \in Kinds /\ n = RecordAt[Program[n].on]
           /\ Program[n].op = "forward" => Program[n].on \in Kinds /\ n = ForwardAt[Program[n].on]
           /\ Program[n].op = "post" => \/ Program[n].on = "active" /\ n = 4
                                        \/ Program[n].on \in Kinds /\ n = PostAt[Program[n].on]
BY SMTT(30) DEF Program, Op, PlanAt, FillAt, RecordAt, ForwardAt, PostAt, Kinds, Roles

\* The steps that are about one object come in the order of its actions.
LEMMA Distances ==
    ASSUME NEW k \in Kinds
    PROVE  /\ PlanAt[k] \in 10..26 /\ FillAt[k] \in 12..28 /\ RecordAt[k] \in 13..29
           /\ ForwardAt[k] \in 14..30 /\ PostAt[k] \in 15..31
           /\ PlanAt[k] < FillAt[k] /\ FillAt[k] < RecordAt[k] /\ RecordAt[k] < ForwardAt[k]
           /\ ForwardAt[k] < PostAt[k]
BY DEF Kinds, Roles, PlanAt, FillAt, RecordAt, ForwardAt, PostAt

\* A receipt that agrees with the machine goes on agreeing while the machine stands still.
LEMMA SoundSame ==
    ASSUME NEW doc, UNCHANGED <<had, place, rstage, bundle, backup>>,
           json'["active"] = json["active"], Waiting' => Waiting, DocSound(doc)
    PROVE  DocSound(doc)'
BY DEF DocSound, Agrees, BundleAgrees, SelectorSound, StatusSound, MergeRow, PlainRow, RowIs, TargetIs,
       Pre, PrevActive, Shown, Mine, Bare, StagesAbsent

\* The same when only the selectors move, and the receipt agrees with them again.
LEMMA SoundSelector ==
    ASSUME NEW doc, UNCHANGED <<had, place, rstage, bundle>>, Waiting' => Waiting, DocSound(doc),
           SelectorSound(doc)'
    PROVE  DocSound(doc)'
BY DEF DocSound, Agrees, BundleAgrees, StatusSound, MergeRow, PlainRow, RowIs, TargetIs, Pre, StagesAbsent

-----------------------------------------------------------------------------
(* The steps of a JSON write.                                               *)

\* A JSON file is replaced, with its copy: the other files stay.
LEMMA JsonFrame ==
    ASSUME JsonTyped, NEW f \in Files, NEW x, NEW y, json' = [json EXCEPT ![f] = [live |-> x, temp |-> y]]
    PROVE  /\ json'[f].live = x /\ json'[f].temp = y
           /\ \A g \in Files \ {f} : json'[g] = json[g]
           /\ json' = [g \in Files |-> [live |-> json'[g].live, temp |-> json'[g].temp]]
<1>1. \A g \in Files : json'[g] = IF g = f THEN [live |-> x, temp |-> y] ELSE json[g]
  BY DEF JsonTyped
<1>2. \A g \in Files : json[g] = [live |-> json[g].live, temp |-> json[g].temp]
  BY DEF JsonTyped
<1>3. \A g \in Files : json'[g] = [live |-> json'[g].live, temp |-> json'[g].temp]
  BY <1>1, <1>2
<1>4. json' = [g \in Files |-> json'[g]]
  BY DEF JsonTyped
<1>5. json' = [g \in Files |-> [live |-> json'[g].live, temp |-> json'[g].temp]]
  BY <1>3, <1>4
<1>6. QED BY <1>1, <1>5

\* The copy of a JSON file is replaced: what is published stays.
LEMMA JsonTemp ==
    ASSUME JsonTyped, NEW f \in Files, NEW y, json' = [json EXCEPT ![f].temp = y]
    PROVE  /\ json'[f].live = json[f].live /\ json'[f].temp = y
           /\ \A g \in Files \ {f} : json'[g] = json[g]
           /\ json' = [g \in Files |-> [live |-> json'[g].live, temp |-> json'[g].temp]]
<1>1. \A g \in Files : json[g] = [live |-> json[g].live, temp |-> json[g].temp]
  BY DEF JsonTyped
<1>2. [json[f] EXCEPT !.temp = y] = [live |-> json[f].live, temp |-> y]
  <2>1. PICK a, b : json[f] = [live |-> a, temp |-> b]
    BY <1>1
  <2>2. QED BY ONLY <2>1
<1>3. \A g \in Files : json'[g] = IF g = f THEN [live |-> json[f].live, temp |-> y] ELSE json[g]
  BY <1>2 DEF JsonTyped
<1>4. \A g \in Files : json'[g] = [live |-> json'[g].live, temp |-> json'[g].temp]
  BY <1>1, <1>3
<1>5. json' = [g \in Files |-> json'[g]]
  BY DEF JsonTyped
<1>6. json' = [g \in Files |-> [live |-> json'[g].live, temp |-> json'[g].temp]]
  BY <1>4, <1>5
<1>7. QED BY <1>3, <1>6

\* A merge is still recorded by all receipts or by none when there is no new receipt.
LEMMA MergeKept ==
    ASSUME MergeSound, Docs' \subseteq Docs, Coming' \in {Coming, Known(Doc)},
           Known(Doc)' \in {Coming, Known(Doc)}, UNCHANGED <<place, rstage>>
    PROVE  MergeSound'
BY DEF MergeSound, Merging

\* With no new receipt and nothing moved all receipts agree with the machine.
LEMMA DocsKept ==
    ASSUME AllDocs, Docs' \subseteq Docs, UNCHANGED <<had, place, rstage, bundle, backup>>,
           json'["active"] = json["active"], Waiting' => Waiting
    PROVE  AllDocs'
BY SoundSame DEF AllDocs

\* A write knows what it writes.
LEMMA WriteKnown ==
    ASSUME Base, proc.write.step # "none"
    PROVE  /\ proc.write.file \in {"pending", "receipt", "active"}
           /\ proc.write.file = "pending" => proc.write.value = "this"
           /\ proc.write.file = "active" => proc.write.value = "new"
           /\ proc.write.file = "receipt" =>
                 proc.write.value \in Receipts /\ Parsed(proc.write.value) /\ proc.write.value \in Docs
BY DEF Base, Typed, ProcTyped, Files, Receipts, Parsed, Docs, Busy

\* The steps of a write leave the machine alone and know what is coming.
Writing == /\ UNCHANGED <<had, place, rstage, bundle, outcome, spent>>
           /\ proc' = [proc EXCEPT !.write = proc'.write]
           /\ Coming' = Coming /\ Docs' \subseteq Docs /\ Known(Doc)' \in {Coming, Known(Doc)}

\* Creating or filling the copy of a JSON file keeps what holds everywhere.
LEMMA TempStep ==
    ASSUME Base, proc.write.step \in {"create", "fill"}, proc'.write.step \in {"create", "fill", "swap"},
           proc' = [proc EXCEPT !.write.step = proc'.write.step],
           UNCHANGED <<had, place, rstage, bundle, backup, outcome, spent>>,
           NEW y, json' = [json EXCEPT ![proc.write.file].temp = y],
           y \in {Absent[proc.write.file], Torn[proc.write.file], proc.write.value},
           proc'.write.step = "create" => y = Absent[proc.write.file],
           proc'.write.step = "fill" => y = Torn[proc.write.file],
           proc'.write.step = "swap" => y = proc.write.value
    PROVE  Base' /\ Writing /\ UNCHANGED backup
<1> DEFINE f == proc.write.file
<1>1. /\ f \in {"pending", "receipt", "active"} /\ f \in Files
      /\ f = "pending" => proc.write.value = "this"
      /\ f = "active" => proc.write.value = "new"
      /\ f = "receipt" => proc.write.value \in Receipts /\ Parsed(proc.write.value) /\ proc.write.value \in Docs
  BY WriteKnown DEF Base, Typed, ProcTyped
<1>2. /\ json'[f].live = json[f].live /\ json'[f].temp = y
      /\ \A g \in Files \ {f} : json'[g] = json[g]
      /\ json' = [g \in Files |-> [live |-> json'[g].live, temp |-> json'[g].temp]]
  BY <1>1, JsonTemp DEF Base, Typed
<1>3. proc'.write = [proc.write EXCEPT !.step = proc'.write.step]
  BY DEF Base, Typed, ProcTyped
<1>4. /\ proc'.write.file = f /\ proc'.write.value = proc.write.value
      /\ proc'.cmd = proc.cmd /\ proc'.pc = proc.pc /\ proc'.at = proc.at
      /\ proc' = [cmd |-> proc.cmd, pc |-> proc.pc, at |-> proc.at, write |-> proc'.write]
      /\ proc'.write = [step |-> proc'.write.step, file |-> f, value |-> proc.write.value]
  BY <1>3 DEF Base, Typed, ProcTyped
<1>5. Typed'
  <2>1. JsonTyped'
    <3>1. f = "pending" => y \in {"none", "torn", "this"}
      BY <1>1, Empties
    <3>2. f = "active" => y \in {"none", "torn", "new"}
      BY <1>1, Empties
    <3>3. f = "receipt" => y \in ReceiptValues
      BY <1>1, Empties DEF ReceiptValues
    <3>4. /\ "pending" \in Files /\ "receipt" \in Files /\ "active" \in Files
          /\ \A g \in Files : /\ json'[g].live = json[g].live
                              /\ (json'[g].temp = json[g].temp \/ (g = f /\ json'[g].temp = y))
      BY <1>1, <1>2 DEF Files
    <3>5. JsonTyped
      BY DEF Base, Typed
    <3>6. /\ json'["pending"].live \in {"none", "this"} /\ json'["pending"].temp \in {"none", "torn", "this"}
          /\ json'["active"].live \in {"none", "old", "new"}
          /\ json'["active"].temp \in {"none", "torn", "old", "new"}
      BY <3>1, <3>2, <3>4, <3>5 DEF JsonTyped
    <3>7. /\ json'["receipt"].live \in ReceiptValues /\ json'["receipt"].live.status # "torn"
          /\ json'["receipt"].temp \in ReceiptValues
      <4>1. json'["receipt"].live = json["receipt"].live
        BY <3>4
      <4>2. json'["receipt"].temp \in {json["receipt"].temp, y} /\ (f # "receipt" => json'["receipt"].temp = json["receipt"].temp)
        BY <3>4
      <4>3. /\ json["receipt"].live \in ReceiptValues /\ json["receipt"].live.status # "torn"
            /\ json["receipt"].temp \in ReceiptValues
        BY <3>5 DEF JsonTyped
      <4>4. QED BY <3>3, <4>1, <4>2, <4>3
    <3>8. QED BY <1>2, <3>6, <3>7 DEF JsonTyped
  <2>2. ProcTyped'
    BY <1>1, <1>4 DEF Base, Typed, ProcTyped
  <2>3. QED BY <2>1, <2>2 DEF Base, Typed, MachineTyped, RestTyped
<1>6. Busy("receipt")' = Busy("receipt") /\ Busy("pending")' = Busy("pending") /\ Busy("active")' = Busy("active")
  BY <1>4 DEF Busy
<1>7. Doc' = Doc /\ Coming' = Coming /\ Known(Doc)' = Known(Doc)
  BY <1>1, <1>2, <1>4, <1>6 DEF Doc, Coming, Known, Files
<1>8. Docs' \subseteq Docs
  BY <1>1, <1>2, <1>4, <1>6, <1>7, Empties DEF Docs, Pair, Busy, Files, Parsed
<1>9. WriteSound'
  BY <1>1, <1>2, <1>4, <1>6 DEF Base, WriteSound, Busy
<1>10. MergeSound'
  BY <1>7, <1>8, MergeKept DEF Base
<1>11. AllDocs'
  <2>1. CASE f = "active"
    <3>1. Waiting' = Waiting
      BY <1>2, <2>1 DEF Waiting, Files
    <3>2. ~Mine /\ ~Mine'
      BY <1>2, <2>1 DEF Mine, Base, OrderSound, SelectorWrite, Busy, Files
    <3>3. SUFFICES ASSUME NEW doc \in Docs PROVE DocSound(doc)'
      BY <1>8 DEF AllDocs
    <3>4. DocSound(doc) /\ "active" \notin doc.posts
      BY <2>1 DEF Base, AllDocs, OrderSound, SelectorWrite, Busy
    <3>5. SelectorSound(doc)'
      BY <1>1, <1>2, <2>1, <3>2, <3>4, Empties DEF DocSound, SelectorSound, Shown, PrevActive, Mine, Files
    <3>6. QED BY <3>1, <3>4, <3>5, SoundSelector
  <2>2. CASE f # "active"
    <3>1. json'["active"] = json["active"] /\ Waiting' = Waiting
      BY <1>1, <1>2, <2>2 DEF Waiting, Files
    <3>2. QED BY <1>8, <3>1, DocsKept DEF Base
  <2>3. QED BY <2>1, <2>2
<1>12. OrderSound'
  <2>0. /\ Bare("receipt")' <=> json'["receipt"].temp = [status |-> "none"]
        /\ Bare("receipt") <=> json["receipt"].temp = [status |-> "none"]
    BY Empties DEF Bare
  <2>1. PendingFirst' /\ PendingOnce'
    BY <1>1, <1>2, <1>6, <1>7, <2>0, Empties DEF Base, OrderSound, PendingFirst, PendingOnce, Files, Busy
  <2>2. SelectorAfter'
    BY <1>1, <1>2, <1>6, <1>7 DEF Base, OrderSound, SelectorAfter, Files, Busy, PrevActive
  <2>3. SelectorWrite'
    BY <1>1, <1>2, <1>4, <1>6, <1>8 DEF Base, OrderSound, SelectorWrite, Files, Busy, PrevActive, Mine
  <2>4. RolledBackLast'
    BY <1>1, <1>2, <1>6, <1>8, <2>0 DEF Base, OrderSound, RolledBackLast, Files, Busy
  <2>5. QED BY <2>1, <2>2, <2>3, <2>4 DEF OrderSound
<1>13. QED BY <1>5, <1>7, <1>8, <1>9, <1>10, <1>11, <1>12, <1>4 DEF Base, Writing

\* _write_atomic creates the copy.
LEMMA CreateKeeps ==
    ASSUME Base, Create
    PROVE  Base' /\ Writing /\ UNCHANGED backup /\ proc'.write.step \in {"create", "fill"}
<1> DEFINE f == proc.write.file
<1>1. f \in Files /\ proc.write.step = "create" /\ UNCHANGED <<machine, outcome, spent>>
  <2>1. json[f].temp = Absent[f] \/ json[f].temp = proc.write.value
    BY DEF Base, WriteSound, Create
  <2>2. QED BY <2>1 DEF Create, Base, Typed, ProcTyped
<1>2. CASE json[f].temp = Absent[f]
  <2>1. json' = [json EXCEPT ![f].temp = Torn[f]] /\ proc' = [proc EXCEPT !.write.step = "fill"]
    BY <1>2 DEF Create
  <2>2. proc'.write.step = "fill"
    BY <2>1 DEF Base, Typed, ProcTyped
  <2>3. QED BY <1>1, <2>1, <2>2, TempStep DEF machine
<1>3. CASE json[f].temp # Absent[f]
  <2>1. json' = [json EXCEPT ![f].temp = Absent[f]] /\ proc' = proc
    BY <1>1, <1>3 DEF Create, Base, WriteSound
  <2>2. proc = [proc EXCEPT !.write.step = proc.write.step]
    BY DEF Base, Typed, ProcTyped
  <2>3. QED BY <1>1, <2>1, <2>2, TempStep DEF machine
<1>4. QED BY <1>2, <1>3

\* _write_atomic fills and syncs the copy.
LEMMA FillKeeps ==
    ASSUME Base, Fill
    PROVE  Base' /\ Writing /\ UNCHANGED backup /\ proc'.write.step = "swap"
<1>1. /\ json' = [json EXCEPT ![proc.write.file].temp = proc.write.value]
      /\ proc' = [proc EXCEPT !.write.step = "swap"] /\ proc.write.step = "fill"
      /\ UNCHANGED <<had, place, rstage, bundle, backup, outcome, spent>>
  BY DEF Fill, machine
<1>2. proc'.write.step = "swap"
  BY <1>1 DEF Base, Typed, ProcTyped
<1>3. QED BY <1>1, <1>2, TempStep

\* What the rename that publishes a JSON file leaves there.
LEMMA SwapFrame ==
    ASSUME Base, Swap
    PROVE  LET f == proc.write.file IN
           /\ f \in {"pending", "receipt", "active"} /\ Busy(f) /\ proc.write.step = "swap"
           /\ json[f].temp = proc.write.value
           /\ json'[f].live = proc.write.value /\ json'[f].temp = json[f].live
           /\ \A g \in Files \ {f} : json'[g] = json[g]
           /\ json' = [g \in Files |-> [live |-> json'[g].live, temp |-> json'[g].temp]]
           /\ proc' = [cmd |-> proc.cmd, pc |-> proc.pc, at |-> proc.at, write |-> proc'.write]
           /\ json[f].live = Absent[f] => proc'.write = Quiet
           /\ json[f].live # Absent[f] =>
                 proc'.write = [step |-> "finish", file |-> f, value |-> proc.write.value]
<1> DEFINE f == proc.write.file
<1>1. f \in {"pending", "receipt", "active"} /\ f \in Files /\ Busy(f) /\ proc.write.step = "swap"
      /\ json[f].temp = proc.write.value
  BY DEF Swap, Base, Typed, ProcTyped, Files, Busy, WriteSound
<1>2. json' = [json EXCEPT ![f] = [live |-> json[f].temp, temp |-> json[f].live]]
  BY DEF Swap
<1>3. /\ \A g \in Files : json'[g] = IF g = f THEN [live |-> json[f].temp, temp |-> json[f].live] ELSE json[g]
      /\ json' = [g \in Files |-> json'[g]]
  BY <1>1, <1>2 DEF Base, Typed, JsonTyped
<1>4. json'[f].live = json[f].temp /\ json'[f].temp = json[f].live
  BY <1>1, <1>3
<1>5. \A g \in Files : json[g] = [live |-> json[g].live, temp |-> json[g].temp]
  BY DEF Base, Typed, JsonTyped
<1>6. \A g \in Files : json'[g] = [live |-> json'[g].live, temp |-> json'[g].temp]
  BY <1>3, <1>5
<1>7. json' = [g \in Files |-> [live |-> json'[g].live, temp |-> json'[g].temp]]
  BY <1>3, <1>6
<1>8. CASE json[f].live = Absent[f]
  <2>1. proc' = [proc EXCEPT !.write = Quiet]
    BY <1>8 DEF Swap
  <2>2. proc'.write = Quiet /\ proc' = [cmd |-> proc.cmd, pc |-> proc.pc, at |-> proc.at, write |-> proc'.write]
    BY <2>1 DEF Base, Typed, ProcTyped
  <2>3. QED BY <1>1, <1>3, <1>4, <1>7, <1>8, <2>2
<1>9. CASE json[f].live # Absent[f]
  <2>1. proc' = [proc EXCEPT !.write.step = "finish"]
    BY <1>9 DEF Swap
  <2>2. /\ proc'.write = [step |-> "finish", file |-> f, value |-> proc.write.value]
        /\ proc' = [cmd |-> proc.cmd, pc |-> proc.pc, at |-> proc.at, write |-> proc'.write]
    BY <2>1 DEF Base, Typed, ProcTyped
  <2>3. QED BY <1>1, <1>3, <1>4, <1>7, <1>9, <2>2
<1>10. QED BY <1>8, <1>9

\* _write_atomic publishes the copy, by a rename or by an exchange that keeps the old one.
LEMMA SwapKeeps ==
    ASSUME Base, Swap
    PROVE  /\ Base' /\ Writing /\ UNCHANGED backup /\ proc'.write.step \in {"none", "finish"}
           /\ Mine' <=> (Mine \/ proc.write.file = "active")
<1> DEFINE f == proc.write.file
<1>1. /\ f \in {"pending", "receipt", "active"} /\ Busy(f) /\ proc.write.step = "swap"
      /\ json[f].temp = proc.write.value
      /\ json'[f].live = proc.write.value /\ json'[f].temp = json[f].live
      /\ \A g \in Files \ {f} : json'[g] = json[g]
      /\ json' = [g \in Files |-> [live |-> json'[g].live, temp |-> json'[g].temp]]
      /\ proc' = [cmd |-> proc.cmd, pc |-> proc.pc, at |-> proc.at, write |-> proc'.write]
      /\ json[f].live = Absent[f] => proc'.write = Quiet
      /\ json[f].live # Absent[f] =>
            proc'.write = [step |-> "finish", file |-> f, value |-> proc.write.value]
  BY SwapFrame
<1>2. /\ f = "pending" => proc.write.value = "this"
      /\ f = "active" => proc.write.value = "new"
      /\ f = "receipt" => proc.write.value \in Receipts /\ Parsed(proc.write.value) /\ proc.write.value \in Docs
  BY <1>1, WriteKnown
<1>3. UNCHANGED <<had, place, rstage, bundle, backup, outcome, spent>>
  BY DEF Swap, machine
<1>4. proc'.write.step \in {"none", "finish"} /\ proc'.write.file \in Files
      /\ proc'.write = [step |-> proc'.write.step, file |-> proc'.write.file, value |-> proc'.write.value]
      /\ (proc'.write.step = "finish" => proc'.write.file = f /\ proc'.write.value = proc.write.value)
      /\ (proc'.write.step = "none" => proc'.write = Quiet)
  BY <1>1, Empties DEF Files
<1>a. proc' = [proc EXCEPT !.write = proc'.write]
  <2>1. PICK c, p, a, w : proc = [cmd |-> c, pc |-> p, at |-> a, write |-> w]
    BY DEF Base, Typed, ProcTyped
  <2>2. proc' = [cmd |-> c, pc |-> p, at |-> a, write |-> proc'.write]
    BY <1>1, <2>1
  <2>3. QED BY ONLY <2>1, <2>2
<1>5. Typed'
  <2>1. JsonTyped'
    <3>1. CASE f = "pending"
      BY <1>1, <1>2, <3>1, Empties DEF Base, Typed, JsonTyped, Files
    <3>2. CASE f = "active"
      BY <1>1, <1>2, <3>2, Empties DEF Base, Typed, JsonTyped, Files
    <3>3. CASE f = "receipt"
      BY <1>1, <1>2, <3>3, Empties DEF Base, Typed, JsonTyped, Files, ReceiptValues, Parsed
    <3>4. QED BY <1>1, <3>1, <3>2, <3>3
  <2>2. ProcTyped'
    BY <1>1, <1>2, <1>4 DEF Base, Typed, ProcTyped
  <2>3. QED BY <1>3, <2>1, <2>2 DEF Base, Typed, MachineTyped, RestTyped
<1>6. WriteSound'
  BY <1>1, <1>2, <1>4, Empties DEF Base, WriteSound, Busy, Files
<1>7. CASE f = "receipt"
  <2>1. Doc' = proc.write.value /\ Pair'.temp = Doc /\ Coming = proc.write.value /\ Known(Doc)' = Coming
    BY <1>1, <1>2, <1>7 DEF Doc, Pair, Coming, Known, Busy
  <2>2. Coming' = Coming /\ Docs' \subseteq Docs
    BY <1>1, <1>2, <1>4, <1>7, <2>1 DEF Coming, Docs, Busy, Known, Doc, Pair
  <2>3. json'["active"] = json["active"] /\ json'["pending"] = json["pending"]
    BY <1>1, <1>7 DEF Files
  <2>4. AllDocs' /\ MergeSound'
    BY <1>3, <2>1, <2>2, <2>3, DocsKept, MergeKept DEF Base, Waiting
  <2>5. OrderSound'
    <3>1. PendingFirst' /\ PendingOnce'
      BY <1>1, <1>4, <1>7, <2>3 DEF Base, OrderSound, PendingFirst, PendingOnce, Busy
    <3>2. SelectorAfter' /\ SelectorWrite'
      BY <1>1, <1>2, <1>4, <1>7, <2>1, <2>2, <2>3, Empties DEF OrderSound, SelectorAfter, SelectorWrite, Busy
    <3>3. RolledBackLast'
      BY <1>3, <1>7, <1>1, <2>2 DEF Base, OrderSound, RolledBackLast, Busy
    <3>4. QED BY <3>1, <3>2, <3>3 DEF OrderSound
  <2>6. Mine' = Mine
    BY <2>3 DEF Mine
  <2>7. QED BY <1>a, <1>3, <1>4, <1>5, <1>6, <1>7, <2>1, <2>2, <2>4, <2>5, <2>6 DEF Base, Writing
<1>8. CASE f = "pending"
  <2>1. json'["active"] = json["active"] /\ json'["receipt"] = json["receipt"] /\ ~Busy("receipt")
        /\ json["pending"].live = "none" /\ proc'.write = Quiet
    BY <1>1, <1>8, Empties DEF Files, Base, WriteSound, Busy
  <2>2. ~Parsed(Doc) /\ Bare("receipt")
    BY <1>1, <1>8 DEF Base, OrderSound, PendingFirst
  <2>3. Docs = {FreshReceipt} /\ Docs' = {FreshReceipt} /\ Coming' = Coming /\ Known(Doc)' = Known(Doc)
    BY <2>1, <2>2, Empties DEF Docs, Known, Pair, Doc, Busy, Coming, Parsed, Bare
  <2>4. DocSound(FreshReceipt)'
    BY <1>3, <2>1, <2>3, FreshTyped DEF Base, AllDocs, DocSound, Agrees, BundleAgrees, SelectorSound, StatusSound,
       PlainRow, RowIs, TargetIs, Pre, PrevActive, Shown, Mine, Bare, Unplanned
  <2>5. AllDocs' /\ MergeSound'
    BY <1>3, <2>3, <2>4, MergeKept DEF Base, AllDocs
  <2>6. OrderSound'
    <3>1. PendingFirst' /\ PendingOnce'
      BY <1>1, <1>8, <2>1, <2>2, Empties DEF PendingFirst, PendingOnce, Busy, Bare, Doc, Parsed
    <3>2. SelectorAfter' /\ SelectorWrite'
      BY <1>3, <2>1, <2>2, Empties DEF Base, OrderSound, SelectorAfter, SelectorWrite, Busy, PrevActive, Doc, Parsed
    <3>3. RolledBackLast'
      BY <2>3, FreshTyped DEF RolledBackLast
    <3>4. QED BY <3>1, <3>2, <3>3 DEF OrderSound
  <2>7. Mine' = Mine
    BY <2>1 DEF Mine
  <2>8. QED BY <1>a, <1>3, <1>4, <1>5, <1>6, <1>8, <2>3, <2>5, <2>6, <2>7 DEF Base, Writing
<1>9. CASE f = "active"
  <2>1. json'["pending"] = json["pending"] /\ json'["receipt"] = json["receipt"] /\ ~Busy("receipt") /\ Busy("active")
        /\ ~Busy("pending") /\ ~Busy("receipt")' /\ ~Busy("pending")'
    BY <1>1, <1>4, <1>9, Empties DEF Files, Busy
  <2>2. ~Mine /\ Mine'
    BY <1>1, <1>2, <1>9, <2>1 DEF Base, OrderSound, SelectorWrite, Mine
  <2>3. Docs' = Docs /\ Coming' = Coming /\ Known(Doc)' = Known(Doc) /\ Waiting' = Waiting
    BY <2>1 DEF Docs, Coming, Doc, Pair, Waiting, Known
  <2>4. json["active"].live = PrevActive /\ backup = "none"
    BY <2>1, <2>2 DEF Base, AllDocs, OrderSound, SelectorWrite, DocSound, SelectorSound, Docs, Shown
  <2>5. ASSUME NEW doc \in Docs PROVE DocSound(doc)'
    <3>1. DocSound(doc) /\ "active" \notin doc.posts
      BY <2>1 DEF Base, AllDocs, OrderSound, SelectorWrite
    <3>2. SelectorSound(doc)'
      BY <1>1, <1>3, <1>9, <2>2, <2>4, <3>1 DEF DocSound, SelectorSound, PrevActive
    <3>3. QED BY <1>3, <2>3, <3>1, <3>2, SoundSelector
  <2>6. AllDocs' /\ MergeSound'
    BY <1>3, <2>3, <2>5, MergeKept DEF Base, AllDocs
  <2>7. OrderSound'
    <3>1. PendingFirst' /\ PendingOnce'
      BY <1>3, <2>1 DEF Base, OrderSound, PendingFirst, PendingOnce, Bare, Doc, Parsed
    <3>a. RolledBackLast'
      BY <1>3, <2>1, <2>3 DEF Base, OrderSound, RolledBackLast, Bare
    <3>2. SelectorAfter'
      BY <2>1 DEF Base, OrderSound, SelectorAfter, Doc
    <3>3. SelectorWrite'
      BY <1>1, <1>3, <1>4, <1>9, <2>1, <2>2, <2>3, <2>4, Empties
      DEF Base, OrderSound, SelectorWrite, Busy, PrevActive
    <3>4. QED BY <3>1, <3>a, <3>2, <3>3 DEF OrderSound
  <2>8. QED BY <1>a, <1>3, <1>4, <1>5, <1>6, <1>9, <2>2, <2>3, <2>6, <2>7 DEF Base, Writing
<1>10. QED BY <1>1, <1>7, <1>8, <1>9

\* _write_atomic removes what it exchanged and syncs the directory.
LEMMA FinishKeeps ==
    ASSUME Base, Finish
    PROVE  /\ Base' /\ Writing /\ proc'.write.step = "none" /\ (Mine' <=> Mine)
           /\ proc.write.file = "receipt" => Bare("receipt")' /\ UNCHANGED backup
           /\ proc.write.file = "active" => Bare("active")' /\ backup' = PrevActive
           /\ proc.write.file \in {"receipt", "active"}
<1> DEFINE f == proc.write.file
<1>1. /\ f \in {"receipt", "active"} /\ f \in Files /\ Busy(f) /\ proc.write.step = "finish" /\ ~Busy("pending")
      /\ json[f].live = proc.write.value
  BY DEF Finish, Base, Typed, ProcTyped, Files, Busy, WriteSound
<1>2. /\ f = "active" => proc.write.value = "new"
      /\ f = "receipt" => proc.write.value \in Receipts /\ Parsed(proc.write.value) /\ proc.write.value \in Docs
  BY <1>1, WriteKnown
<1>3. /\ json'[f].live = json[f].live /\ json'[f].temp = Absent[f]
      /\ \A g \in Files \ {f} : json'[g] = json[g]
      /\ json' = [g \in Files |-> [live |-> json'[g].live, temp |-> json'[g].temp]]
  BY <1>1, JsonTemp DEF Finish, Base, Typed
<1>4. UNCHANGED <<had, place, rstage, bundle, outcome, spent>>
  BY DEF Finish
<1>5. proc' = [proc EXCEPT !.write = Quiet]
  BY DEF Finish
<1>6. /\ proc'.write = Quiet /\ proc'.write.step = "none"
      /\ proc' = [cmd |-> proc.cmd, pc |-> proc.pc, at |-> proc.at, write |-> Quiet]
      /\ proc' = [proc EXCEPT !.write = proc'.write]
  BY <1>5, Empties DEF Base, Typed, ProcTyped
<1>7. ProcTyped'
  <2>1. proc'.cmd = proc.cmd /\ proc'.pc = proc.pc /\ proc'.at = proc.at
    BY <1>6
  <2>2. QED BY <1>6, <2>1, Empties DEF Base, Typed, ProcTyped, Files
<1>8. WriteSound' /\ \A g \in Files : ~Busy(g)'
  BY <1>6 DEF Busy, WriteSound
<1>9. CASE f = "receipt"
  <2>1. json'["active"] = json["active"] /\ json'["pending"] = json["pending"] /\ UNCHANGED backup
    BY <1>3, <1>9 DEF Files, Finish
  <2>2. JsonTyped'
    BY <1>3, <1>9, <2>1, Empties DEF Base, Typed, JsonTyped, ReceiptValues
  <2>3. Typed'
    BY <1>4, <1>7, <2>1, <2>2 DEF Base, Typed, MachineTyped, RestTyped
  <2>4. Doc' = Doc /\ Known(Doc)' = Known(Doc) /\ Coming' = Coming /\ Docs' \subseteq Docs /\ Bare("receipt")'
    BY <1>1, <1>2, <1>3, <1>6, <1>8, <1>9, Empties DEF Doc, Pair, Coming, Known, Docs, Busy, Files, Parsed, Bare
  <2>5. AllDocs' /\ MergeSound'
    BY <1>4, <2>1, <2>4, DocsKept, MergeKept DEF Base, Waiting
  <2>6. OrderSound'
    <3>1. PendingFirst' /\ PendingOnce'
      BY <1>1, <1>8, <1>9, <2>1 DEF Base, OrderSound, PendingFirst, PendingOnce, Files
    <3>2. SelectorAfter' /\ SelectorWrite' /\ RolledBackLast'
      BY <1>1, <1>2, <1>3, <1>8, <1>9, <2>4 DEF SelectorAfter, SelectorWrite, RolledBackLast, Files, Doc
    <3>3. QED BY <3>1, <3>2 DEF OrderSound
  <2>7. Mine' = Mine
    BY <2>1 DEF Mine
  <2>8. QED BY <1>4, <1>6, <1>8, <1>9, <2>1, <2>3, <2>4, <2>5, <2>6, <2>7 DEF Base, Writing
<1>10. CASE f = "active"
  <2>1. json'["receipt"] = json["receipt"] /\ json'["pending"] = json["pending"] /\ backup' = json["active"].temp
        /\ json'["active"].live = json["active"].live /\ json'["active"].temp = "none" /\ Busy("active")
    BY <1>1, <1>3, <1>10, Empties DEF Files, Finish
  <2>2. Mine /\ PrevActive = "old" /\ backup' = "old" /\ Mine'
    BY <1>1, <2>1 DEF Base, OrderSound, SelectorWrite, Mine
  <2>3. JsonTyped'
    BY <1>3, <2>1 DEF Base, Typed, JsonTyped, ReceiptValues
  <2>4. Typed'
    BY <1>4, <1>7, <2>2, <2>3 DEF Base, Typed, MachineTyped, RestTyped
  <2>5. Doc' = Doc /\ Known(Doc)' = Known(Doc) /\ Coming' = Coming /\ Docs' = Docs
    BY <1>1, <1>8, <1>10, <2>1 DEF Doc, Pair, Coming, Known, Docs, Busy, Files
  <2>6. ASSUME NEW doc \in Docs PROVE DocSound(doc)'
    <3>1. DocSound(doc) /\ "active" \notin doc.posts
      BY <2>1 DEF Base, AllDocs, OrderSound, SelectorWrite
    <3>2. SelectorSound(doc)'
      BY <1>4, <2>1, <2>2, <3>1 DEF DocSound, SelectorSound, PrevActive
    <3>3. Waiting' = Waiting
      BY <2>1 DEF Waiting
    <3>4. QED BY <1>4, <3>1, <3>2, <3>3, SoundSelector
  <2>7. AllDocs' /\ MergeSound'
    BY <1>4, <2>5, <2>6, MergeKept DEF Base, AllDocs
  <2>8. OrderSound'
    <3>1. PendingFirst' /\ PendingOnce'
      BY <1>1, <1>8, <2>1, <2>5 DEF Base, OrderSound, PendingFirst, PendingOnce, Files, Bare, Busy
    <3>2. SelectorAfter'
      BY <2>1, <2>5 DEF Base, OrderSound, SelectorAfter
    <3>3. SelectorWrite' /\ RolledBackLast'
      BY <1>8, <2>2 DEF SelectorWrite, RolledBackLast, Files
    <3>4. QED BY <3>1, <3>2, <3>3 DEF OrderSound
  <2>9. Bare("active")' /\ backup' = PrevActive
    BY <2>1, <2>2, Empties DEF Bare
  <2>10. Writing
    BY <1>4, <1>6, <2>5 DEF Writing
  <2>11. Base'
    BY <1>8, <2>4, <2>7, <2>8 DEF Base
  <2>12. QED BY <1>6, <1>10, <2>2, <2>9, <2>10, <2>11
<1>11. QED BY <1>1, <1>9, <1>10

-----------------------------------------------------------------------------
(* A step that writes nothing, and the beginning of a write of the receipt. *)

\* A step that moves nothing and drops the write in hand keeps what holds everywhere.
LEMMA ControlKeeps ==
    ASSUME Base, UNCHANGED <<machine, json>>, proc'.write = Quiet, ProcTyped', RestTyped'
    PROVE  Base' /\ Coming' = Known(Doc) /\ Docs' \subseteq Docs /\ Known(Doc)' = Known(Doc)
<1>1. UNCHANGED <<had, place, rstage, bundle, backup>>
  BY DEF machine
<1>2. Typed'
  BY <1>1 DEF Base, Typed, MachineTyped, JsonTyped
<1>3. WriteSound' /\ \A f \in Files : ~Busy(f)'
  BY Empties DEF WriteSound, Busy
<1>4. Coming' = Known(Doc) /\ Docs' \subseteq Docs /\ Known(Doc)' = Known(Doc) /\ Doc' = Doc
  BY <1>3 DEF Coming, Docs, Files, Known, Doc, Pair
<1>5. AllDocs' /\ MergeSound'
  BY <1>1, <1>4, DocsKept, MergeKept DEF Base, Waiting
<1>6. OrderSound'
  <2>1. PendingFirst'
    BY <1>3, <1>4 DEF Base, OrderSound, PendingFirst, Files, Bare
  <2>2. PendingOnce'
    BY <1>3 DEF Base, OrderSound, PendingOnce, Files, WriteSound, Busy
  <2>3. SelectorAfter' /\ SelectorWrite'
    BY <1>1, <1>3, <1>4 DEF Base, OrderSound, SelectorAfter, SelectorWrite, PrevActive, Files
  <2>4. RolledBackLast'
    BY <1>1, <1>3, <1>4 DEF Base, OrderSound, RolledBackLast, Files, Bare
  <2>5. QED BY <2>1, <2>2, <2>3, <2>4 DEF OrderSound
<1>7. QED BY <1>2, <1>3, <1>4, <1>5, <1>6 DEF Base

\* doc is journalled while the machine may change; the two documents agree with it.
LEMMA JournalKeeps ==
    ASSUME Base, UNCHANGED <<json, backup, had>>, MachineTyped', ProcTyped', RestTyped',
           proc.write.step = "none", Bare("receipt"), json["pending"].temp = "none",
           NEW doc \in Receipts, proc'.write = [step |-> "create", file |-> "receipt", value |-> doc],
           DocSound(Known(Doc))', DocSound(doc)',
           Merging(Known(Doc)) # Merging(doc) => rstage' = "merged",
           Doc.status # "ROLLED_BACK", doc.status = "ROLLED_BACK" => backup # "none"
    PROVE  Base' /\ Coming' = doc /\ Known(Doc)' = Known(Doc) /\ Docs' = {Known(Doc), doc}
           /\ (Bare("receipt") /\ Busy("receipt"))'
<1>1. Typed'
  BY DEF Base, Typed, JsonTyped
<1>2. WriteSound' /\ Busy("receipt")' /\ ~Busy("pending")' /\ ~Busy("active")' /\ Bare("receipt")'
  BY Empties DEF WriteSound, Busy, Bare
<1>3. Doc' = Doc /\ Known(Doc)' = Known(Doc) /\ Coming' = doc /\ Docs' = {Known(Doc), doc}
  <2>1. ~Parsed(Pair.temp)'
    BY Empties DEF Bare, Parsed, Pair
  <2>2. QED BY <1>2, <2>1 DEF Coming, Docs, Known, Doc, Pair
<1>4. AllDocs'
  <2>1. DocSound(Known(Doc))' /\ DocSound(doc)'
    OBVIOUS
  <2>2. QED BY <1>3, <2>1 DEF AllDocs
<1>5. MergeSound'
  BY <1>3 DEF MergeSound, Merging
<1>6. OrderSound'
  <2>1. PendingFirst' /\ PendingOnce'
    BY <1>2 DEF PendingFirst, PendingOnce
  <2>2. SelectorAfter' /\ SelectorWrite'
    BY <1>2, <1>3 DEF Base, OrderSound, SelectorAfter, SelectorWrite, PrevActive
  <2>3. RolledBackLast'
    BY <1>3, FreshTyped DEF RolledBackLast, Known
  <2>4. QED BY <2>1, <2>2, <2>3 DEF OrderSound
<1>7. QED BY <1>1, <1>2, <1>3, <1>4, <1>5, <1>6 DEF Base

JsonStep == Create \/ Fill \/ Swap \/ Finish

\* The four steps of a JSON write keep what holds everywhere.
LEMMA JsonStepKeepsBase ==
    ASSUME Base, JsonStep
    PROVE  LET f == proc.write.file IN
           /\ Base' /\ Writing /\ proc.write.step # "none" /\ f \in {"pending", "receipt", "active"}
           /\ \A g \in Files \ {f} : json'[g] = json[g]
           /\ proc'.write.step # "none" => proc'.write.file = f
           /\ proc'.write.step = "none" => json'[f].live = proc.write.value /\ json'[f].temp = Absent[f]
           /\ ReceiptBare => ReceiptBare'
           /\ Mine => Mine'
           /\ Mine' => Mine \/ f = "active"
           /\ f = "active" /\ ~Mine /\ Mine' => json'["active"].live = "new"
           /\ f = "active" /\ proc'.write.step = "none" => backup' = PrevActive /\ Mine'
           /\ f # "active" => backup' = backup
<1> DEFINE f == proc.write.file
<1>a. proc.write.step # "none" /\ f \in {"pending", "receipt", "active"} /\ f \in Files
  <2>1. proc.write.step # "none"
    BY DEF JsonStep, Create, Fill, Swap, Finish
  <2>2. QED BY <2>1, WriteKnown DEF Files
<1>b. Bare("receipt") <=> json["receipt"].temp = Absent["receipt"]
  BY DEF Bare
<1>1. CASE Create \/ Fill
  <2>1. /\ Base' /\ Writing /\ UNCHANGED backup
        /\ proc'.write.step # "none" /\ (Fill => proc'.write.step = "swap")
    BY <1>1, CreateKeeps, FillKeeps
  <2>2. proc'.write.file = f
    BY <1>1, <1>a DEF Create, Fill, Base, Typed, ProcTyped, WriteSound
  <2>3. PICK y : json' = [json EXCEPT ![f].temp = y]
    BY <1>1 DEF Create, Fill, Base, WriteSound
  <2>4. /\ json'[f].live = json[f].live
        /\ \A g \in Files \ {f} : json'[g] = json[g]
    BY <1>a, <2>3, JsonTemp DEF Base, Typed
  <2>5. Mine' <=> Mine
    BY <1>a, <2>4 DEF Mine, Files
  <2>6. ReceiptBare => ReceiptBare'
    <3>1. CASE f = "receipt" /\ Fill
      BY <2>1, <2>2, <3>1 DEF ReceiptBare, Busy
    <3>2. CASE f = "receipt" /\ Create
      <4>1. ReceiptBare => proc' = [proc EXCEPT !.write.step = "fill"]
        BY <3>2, <1>b DEF Create, ReceiptBare
      <4>2. ReceiptBare => proc'.write.step = "fill"
        BY <4>1 DEF Base, Typed, ProcTyped
      <4>3. QED BY <2>1, <2>2, <3>2, <4>2 DEF ReceiptBare, Busy
    <3>3. CASE f # "receipt"
      BY <1>a, <2>4, <3>3 DEF ReceiptBare, Busy, Bare, Files
    <3>4. QED BY <1>1, <3>1, <3>2, <3>3
  <2>7. QED BY <1>a, <2>1, <2>2, <2>4, <2>5, <2>6
<1>2. CASE Swap
  <2>1. /\ Base' /\ Writing /\ UNCHANGED backup
        /\ Mine' <=> (Mine \/ f = "active")
    BY <1>2, SwapKeeps
  <2>2. /\ json[f].temp = proc.write.value /\ Busy(f)
        /\ json'[f].live = proc.write.value /\ json'[f].temp = json[f].live
        /\ \A g \in Files \ {f} : json'[g] = json[g]
        /\ json[f].live = Absent[f] => proc'.write = Quiet
        /\ json[f].live # Absent[f] =>
              proc'.write = [step |-> "finish", file |-> f, value |-> proc.write.value]
    BY <1>2, SwapFrame
  <2>3. proc'.write.step = "none" => json[f].live = Absent[f]
    BY <2>2
  <2>4. proc'.write.step # "none" => proc'.write.step = "finish" /\ proc'.write.file = f
    BY <2>2, Empties
  <2>5. ReceiptBare => ReceiptBare'
    <3>1. CASE f = "receipt"
      BY <2>2, <2>3, <2>4, <3>1 DEF ReceiptBare, Busy, Bare
    <3>2. CASE f # "receipt"
      BY <1>a, <2>2, <3>2 DEF ReceiptBare, Busy, Bare, Files
    <3>3. QED BY <3>1, <3>2
  <2>6. f = "active" /\ proc'.write.step = "none" => backup' = PrevActive
    <3>1. SUFFICES ASSUME f = "active", proc'.write.step = "none" PROVE backup' = PrevActive
      OBVIOUS
    <3>2. Busy("active") /\ json["active"].live = "none"
      BY <1>a, <2>2, <2>3, <3>1, Empties
    <3>3. SelectorSound(Known(Doc)) /\ "active" \notin Known(Doc).posts /\ ~Mine
      BY <3>2 DEF Base, AllDocs, DocSound, OrderSound, SelectorWrite, Docs, Mine
    <3>4. QED BY <2>1, <3>2, <3>3 DEF SelectorSound, Shown
  <2>7. Mine' => json'["active"].live = "new"
    BY DEF Mine
  <2>8. QED BY <1>a, <2>1, <2>2, <2>3, <2>4, <2>5, <2>6, <2>7
<1>3. CASE Finish
  <2>1. /\ Base' /\ Writing /\ proc'.write.step = "none" /\ (Mine' <=> Mine)
        /\ f = "receipt" => Bare("receipt")' /\ UNCHANGED backup
        /\ f = "active" => Bare("active")' /\ backup' = PrevActive
        /\ f \in {"receipt", "active"}
    BY <1>3, FinishKeeps
  <2>2. proc.write.step = "finish" /\ json[f].live = proc.write.value
    BY <1>3 DEF Finish, Base, WriteSound
  <2>3. /\ json'[f].live = json[f].live /\ json'[f].temp = Absent[f]
        /\ \A g \in Files \ {f} : json'[g] = json[g]
    BY <1>3, <1>a, JsonTemp DEF Base, Typed, Finish
  <2>4. ReceiptBare => ReceiptBare'
    BY <1>a, <2>1, <2>3 DEF ReceiptBare, Busy, Bare, Files
  <2>5. f = "active" => Mine
    BY <1>a, <2>2 DEF Base, OrderSound, SelectorWrite, Busy
  <2>6. QED BY <1>a, <2>1, <2>2, <2>3, <2>4, <2>5
<1>4. QED BY <1>1, <1>2, <1>3 DEF JsonStep

\* The four steps of a JSON write keep what the command knows at its place.
LEMMA JsonStepKeepsPhase ==
    ASSUME Base, Phase, JsonStep
    PROVE  Base' /\ Phase'
<1> DEFINE f == proc.write.file
<1>1. /\ Base' /\ Writing /\ proc.write.step # "none" /\ f \in {"pending", "receipt", "active"}
      /\ \A g \in Files \ {f} : json'[g] = json[g]
      /\ proc'.write.step # "none" => proc'.write.file = f
      /\ proc'.write.step = "none" => json'[f].live = proc.write.value /\ json'[f].temp = Absent[f]
      /\ ReceiptBare => ReceiptBare'
      /\ Mine => Mine'
      /\ Mine' => Mine \/ f = "active"
      /\ f = "active" /\ proc'.write.step = "none" => backup' = PrevActive /\ Mine'
      /\ f # "active" => backup' = backup
  BY JsonStepKeepsBase
<1>2. UNCHANGED <<had, place, rstage, bundle, outcome, spent>> /\ Coming' = Coming
  BY <1>1 DEF Writing
<1>3. proc'.cmd = proc.cmd /\ proc'.pc = proc.pc /\ proc'.at = proc.at
  BY <1>1 DEF Writing, Base, Typed, ProcTyped
<1>4. \A g \in Files : Busy(g) => g = f
  BY DEF Busy
<1>5. \A g \in Files : Busy(g)' => Busy(g)
  BY <1>1 DEF Busy
<1>6. outcome = "" /\ outcome' = "" /\ proc.pc # "idle"
  BY <1>1, <1>2, Empties DEF Phase, PlaceSound, IdleSound
<1>7. OutcomeWhole'
  BY <1>6 DEF OutcomeWhole
<1>8. HandSound'
  BY <1>1, <1>3 DEF Phase, HandSound, PlaceSound, CursorSound, Busy
<1>9. PlaceSound'
  <2>1. IdleSound'
    BY <1>3, <1>6 DEF Phase, PlaceSound, IdleSound
  <2>2. CursorSound'
    BY <1>1, <1>2, <1>3, <1>5 DEF Phase, PlaceSound, CursorSound, Files
  <2>3. RecoverySound'
    <3>1. proc.pc # "unchanged"
      BY <1>1 DEF Phase, PlaceSound, CursorSound
    <3>2. proc.pc = "recovered" => Coming.status = "ROLLED_BACK" \/ Settled(Coming)
      BY DEF Phase, PlaceSound, RecoverySound
    <3>3. proc.pc = "recover" => f = "receipt"
      BY <1>1 DEF Phase, PlaceSound, CursorSound, Busy
    <3>4. ASSUME proc.pc = "recover", Busy("receipt")'
          PROVE  (Mine \/ (backup = "new" /\ json["active"].live = PrevActive))'
      BY <1>1, <1>2, <1>5, <3>3, <3>4 DEF Phase, PlaceSound, RecoverySound, Files, PrevActive
    <3>5. QED BY <1>2, <1>3, <3>1, <3>2, <3>4 DEF RecoverySound, Settled
  <2>4. QED BY <2>1, <2>2, <2>3 DEF PlaceSound
<1>10. RollingSound'
  <2>1. SUFFICES ASSUME proc.pc = "rolling" PROVE RollingRows(Coming)'
    BY <1>3 DEF RollingSound
  <2>2. f = "receipt" /\ RollingRows(Coming)
    BY <1>1, <2>1 DEF Phase, RollingSound, PlaceSound, CursorSound, Busy
  <2>3. QED BY <1>1, <1>2, <2>2 DEF RollingRows, At, Pre
<1>11. InstallSound'
  <2>1. SUFFICES ASSUME proc.pc = "install" PROVE InstallReceipt(Coming, proc.at)' /\ InstallSelectors(proc.at)'
    BY <1>2, <1>3 DEF Phase, InstallSound
  <2>2. InstallReceipt(Coming, proc.at)'
    BY <1>2, <1>3, <2>1 DEF Phase, InstallSound, InstallReceipt, InstallRow, At, Pre
  <2>3. InstallSelectors(proc.at) /\ proc.at \in 1..34
    BY <2>1 DEF Phase, InstallSound
  <2>a. \A g \in Files : (Busy(g) <=> g = f) /\ (Busy(g)' <=> g = f /\ proc'.write.step # "none")
    BY <1>1 DEF Busy
  <2>b. PrevActive' = PrevActive
    BY <1>2 DEF PrevActive
  <2>4. CASE f = "pending"
    <3>1. proc.at = 2
      BY <1>1, <2>3, <2>4, <2>a DEF InstallSelectors, Files
    <3>2. json'["receipt"] = json["receipt"] /\ ~Busy("active")'
      BY <1>1, <2>4, <2>a DEF Files
    <3>3. ~Busy("pending")' => json'["pending"].temp = "none"
      BY <1>1, <2>4, <2>a, Empties DEF Files
    <3>4. proc'.write.step = "none" \/ Busy("pending")'
      BY <2>4, <2>a DEF Files
    <3>5. Pair'.live = Absent["receipt"] /\ Pair'.temp = Absent["receipt"]
      BY <2>3, <3>1, <3>2 DEF InstallSelectors, Pair
    <3>6. proc'.at = 2
      BY <1>3, <3>1
    <3>7. QED BY <2>2, <3>2, <3>3, <3>4, <3>5, <3>6 DEF InstallSelectors
  <2>5. CASE f = "active"
    <3>1. proc.at = 4 /\ ~Busy("receipt")' /\ ~Busy("pending")'
      BY <1>1, <2>3, <2>5, <2>a DEF InstallSelectors, Files
    <3>2. json'["receipt"] = json["receipt"]
      BY <1>1, <2>5 DEF Files
    <3>3. ~Busy("active")' => Mine' /\ json'["active"].temp = "none" /\ backup' = PrevActive
      BY <1>1, <2>5, <2>a, Empties DEF Files
    <3>4. Parsed(Doc)'
      BY <2>3, <2>a, <2>5, <3>1, <3>2 DEF InstallSelectors, Doc, Files
    <3>6. proc'.at = 4
      BY <1>3, <3>1
    <3>7. QED BY <2>2, <2>b, <3>1, <3>3, <3>4, <3>6 DEF InstallSelectors
  <2>6. CASE f = "receipt"
    <3>1. proc.at >= 3 /\ proc.at # 4 /\ ~Busy("active")' /\ ~Busy("pending")'
      BY <1>1, <2>3, <2>6, <2>a DEF InstallSelectors, Files
    <3>2. json'["active"] = json["active"] /\ json'["pending"] = json["pending"]
      BY <1>1, <2>6 DEF Files
    <3>3. Busy("receipt")' \/ Parsed(Doc)'
      BY <1>1, <2>6, <2>a, WriteKnown DEF Doc, Files, Base
    <3>4. proc'.at = proc.at /\ (Waiting' <=> Waiting)
      BY <1>3, <3>2 DEF Waiting
    <3>5. QED BY <2>2, <2>3, <2>b, <3>1, <3>2, <3>3, <3>4 DEF InstallSelectors
  <2>7. QED BY <1>1, <2>4, <2>5, <2>6
<1>12. QED BY <1>1, <1>7, <1>8, <1>9, <1>10, <1>11 DEF Phase

-----------------------------------------------------------------------------
(* Steps that only move the command on.                                     *)

\* A document that is parsed is known.
LEMMA KnownDoc ==
    ASSUME Base
    PROVE  /\ Known(Doc) \in Receipts /\ Known(Doc) \in Docs /\ DocSound(Known(Doc))
           /\ Parsed(Doc) => Known(Doc) = Doc
           /\ ~Parsed(Doc) => Known(Doc) = FreshReceipt
           /\ Doc.status \in {"PREPARED", "INSTALLED", "ROLLBACK_PENDING", "ROLLED_BACK"} => Parsed(Doc)
           /\ proc.write.step = "none" => Coming = Known(Doc)
           /\ proc.write.step = "none" /\ Bare("receipt") => Docs = {Known(Doc)}
<1>1. Known(Doc) \in Docs
  BY DEF Docs
<1>2. DocSound(Known(Doc))
  BY <1>1 DEF Base, AllDocs
<1>3. Bare("receipt") => ~Parsed(Pair.temp)
  BY Empties DEF Bare, Parsed, Pair
<1>4. QED BY <1>1, <1>2, <1>3 DEF Known, DocSound, Coming, Docs, Busy, Parsed

\* A receipt that passes the checks of rollback_install is one that a rollback can work on.
LEMMA ReadyToRoll ==
    ASSUME Base, Parsed(Doc), Reversed \/ Mine, Preflight(Doc) \/ Doc.status = "ROLLED_BACK"
    PROVE  RollingRows(Doc)
<1>1. DocSound(Doc) /\ Doc \in Receipts
  BY KnownDoc
<1>2. SelectorSound(Doc) /\ StatusSound(Doc) /\ \A k \in Kinds : Agrees(k, Doc.acts[k])
  BY <1>1 DEF DocSound
<1>3. CASE Doc.status = "ROLLED_BACK"
  BY <1>2, <1>3 DEF RollingRows, SelectorSound, Reversed, Mine, Shown, PrevActive
<1>4. CASE Doc.status # "ROLLED_BACK" /\ Preflight(Doc)
  <2>1. "active" \in Doc.posts
    BY <1>2, <1>4 DEF Preflight, SelectorSound, Reversed, Mine, PrevActive
  <2>2. \A k \in Kinds : Doc.acts[k].state = "PLANNED" => At(k, Pre(k), "none", "none")
    <3>1. SUFFICES ASSUME NEW k \in Kinds, Doc.acts[k].state = "PLANNED" PROVE At(k, Pre(k), "none", "none")
      OBVIOUS
    <3>2. k \in Planned(Doc) \ {"bundle"}
      BY <1>1, <3>1 DEF Planned, Receipts, Kinds
    <3>3. ~Doc.acts[k].semantic
      BY <1>2, <3>1 DEF Agrees, MergeRow
    <3>4. NativeRow(k, Doc.acts[k])
      BY <1>4, <3>1, <3>2, <3>3 DEF Preflight
    <3>5. QED BY <3>1, <3>4 DEF NativeRow
  <2>3. Doc.acts["bundle"].state = "PLANNED" => bundle = "none"
    BY <1>4 DEF Preflight
  <2>4. ASSUME Doc.acts["codex"].state \in {"COMPLETED", "SEMANTIC_STAGED"} PROVE SemanticRow(Doc.acts["codex"])
    <3>1. "codex" \in Planned(Doc) \ {"bundle"}
      BY <1>1, <2>4 DEF Planned, Receipts, Kinds
    <3>2. Doc.acts["codex"].state = "COMPLETED" \/ Doc.acts["codex"].semantic
      BY <1>2, <2>4 DEF Agrees, PlainRow, Begun, Kinds
    <3>3. QED BY <1>4, <3>1, <3>2 DEF Preflight
  <2>5. QED BY <1>4, <2>1, <2>2, <2>3, <2>4 DEF RollingRows, SemanticRow
<1>5. QED BY <1>3, <1>4

\* A step that only moves the command on: what it must know at its new place.
LEMMA ControlPhase ==
    ASSUME Base, Phase, UNCHANGED <<machine, json>>, proc'.write = Quiet, proc'.pc # "install",
           ProcTyped', RestTyped', IdleSound', OutcomeWhole',
           proc'.at = 0 \/ (proc'.at = 1 /\ Known(Doc).acts["bundle"].state # "STAGED"),
           proc'.pc \in {"reconcile", "unpend"} => proc'.cmd \in {"install", "rollback"},
           proc'.pc \in {"rolling", "recovered"} \/ (proc'.pc = "unchanged" /\ Mine) => Bare("receipt"),
           proc'.pc = "rolling" => RollingRows(Known(Doc)),
           proc'.pc = "unchanged" /\ (Reversed \/ Mine) => Settled(Doc),
           proc'.pc = "recovered" => Known(Doc).status = "ROLLED_BACK" \/ Settled(Known(Doc))
    PROVE  Base' /\ Phase'
<1>1. Base' /\ Coming' = Known(Doc)
  BY ControlKeeps
<1>2. (\A f \in Files : ~Busy(f)') /\ (Mine' <=> Mine) /\ (Reversed' <=> Reversed) /\ Doc' = Doc
      /\ (Bare("receipt") => Bare("receipt")')
  BY Empties DEF Busy, Mine, Reversed, Doc, Bare, machine, PrevActive
<1>3. HandSound'
  BY <1>2 DEF HandSound, ReceiptBare
<1>4. InstallSound'
  BY DEF InstallSound
<1>5. RollingSound'
  BY <1>1 DEF RollingSound, RollingRows, machine, At, Pre
<1>6. CursorSound'
  BY <1>1, <1>2, Empties DEF CursorSound, Files
<1>7. RecoverySound'
  BY <1>1, <1>2 DEF RecoverySound, Files, Settled
<1>8. QED BY <1>1, <1>3, <1>4, <1>5, <1>6, <1>7 DEF Phase, PlaceSound

\* The process where it is, with no write in hand.
LEMMA AtRest ==
    ASSUME Base, proc.write.step = "none"
    PROVE  /\ proc.write = Quiet /\ proc = [cmd |-> proc.cmd, pc |-> proc.pc, at |-> proc.at, write |-> Quiet]
           /\ \A f \in Files : ~Busy(f)
           /\ Coming = Known(Doc)
BY KnownDoc DEF Base, Typed, ProcTyped, Busy

\* The process of no command has its type.
LEMMA IdleTyped ==
    ASSUME proc' = Idle
    PROVE  /\ ProcTyped' /\ IdleSound' /\ proc'.write = Quiet /\ proc'.pc = "idle" /\ proc'.at = 0 /\ proc' = Idle
BY Empties DEF ProcTyped, IdleSound, Phases, Files

\* A command that ends leaves everything as it is.
LEMMA EndKeeps ==
    ASSUME Base, Phase, UNCHANGED <<machine, json>>, proc' = Idle, RestTyped', OutcomeWhole'
    PROVE  Base' /\ Phase'
BY IdleTyped, ControlPhase

\* A death of the process, with the files and objects where they were.
LEMMA CrashKeeps ==
    ASSUME Base, Phase, Crash
    PROVE  Base' /\ Phase'
<1>1. UNCHANGED <<machine, json>> /\ proc' = Idle /\ outcome' = "killed"
  BY DEF Crash, End
<1>2. RestTyped'
  <2>1. /\ spent \in [crashes : 0..MaxCrashes, faults : 0..MaxFaults, edits : 0..MaxEdits]
        /\ spent.crashes < MaxCrashes /\ spent' = [spent EXCEPT !.crashes = spent.crashes + 1]
    BY DEF Base, Typed, RestTyped, Crash
  <2>2. spent.crashes \in 0..MaxCrashes /\ MaxCrashes \in Nat
    BY <2>1, InstallerAssumption
  <2>3. spent.crashes + 1 \in 0..MaxCrashes
    BY ONLY <2>1, <2>2
  <2>4. QED BY <1>1, <2>1, <2>3 DEF RestTyped
<1>3. OutcomeWhole'
  BY <1>1 DEF OutcomeWhole
<1>4. QED BY <1>1, <1>2, <1>3, EndKeeps

\* What the four objects are when a command that ran to its end reports.
AllPost == \A k \in Kinds : place[k].target = "post" \/ Customised(k)
AllPre == \A k \in Kinds : place[k].target = Pre(k) \/ Customised(k)
NoneLeft == (\A f \in Files : Bare(f)) /\ bundle = "none"

\* What makes the outcome of a command whole.
LEMMA WholeBy ==
    ASSUME UNCHANGED <<machine, json>>,
           outcome' \in {"installed", "rolled_back", "failed"} => AllPost \/ AllPre,
           outcome' \in {"installed", "rolled_back"} => NoneLeft /\ (Waiting => outcome' = "rolled_back")
    PROVE  OutcomeWhole'
BY DEF OutcomeWhole, AllPost, AllPre, NoneLeft, Customised, UserEdits, Bare, Waiting, machine, Pre

\* The objects of an installed receipt and of one that was rolled back.
LEMMA InstalledObjects ==
    ASSUME Base, Parsed(Doc)
    PROVE  /\ Doc.status = "INSTALLED" => AllPost /\ Mine /\ ~Waiting
           /\ Doc.status = "ROLLED_BACK" => AllPre /\ bundle = "none"
           /\ Settled(Doc) => bundle = "none"
           /\ Doc.status \in {"INSTALLED", "ROLLED_BACK"} => Bare("active") /\ Bare("pending")
<1>1. DocSound(Doc) /\ Doc \in Receipts
  BY KnownDoc
<1>2. Doc.status \in {"INSTALLED", "ROLLED_BACK"} => Bare("active") /\ Bare("pending")
  <2>1. json["pending"].temp = "none"
    BY DEF Base, OrderSound, PendingFirst
  <2>2. QED BY <1>1, <2>1, Empties DEF DocSound, SelectorSound, Bare
<1>3. Doc.status = "INSTALLED" => AllPost /\ Mine /\ ~Waiting
  BY <1>1 DEF DocSound, StatusSound, SelectorSound, AllPost, Customised, UserEdits, RowIs, TargetIs, Shown, Mine, Roles
<1>4. Doc.status = "ROLLED_BACK" => AllPre /\ bundle = "none"
  BY <1>1 DEF DocSound, StatusSound, AllPre, Customised, UserEdits, TargetIs, StagesAbsent
<1>5. Settled(Doc) => bundle = "none"
  BY <1>1 DEF DocSound, BundleAgrees, Settled
<1>6. QED BY <1>2, <1>3, <1>4, <1>5

\* A receipt that no selector shows belongs to an install that planned nothing, or to one undone.
LEMMA UnshownObjects ==
    ASSUME Base, ~Mine, ~Reversed
    PROVE  AllPre
<1>1. DocSound(Known(Doc)) /\ Known(Doc) \in Receipts
  BY KnownDoc
<1>2. CASE \A k \in Kinds : Known(Doc).acts[k].state = "unplanned"
  <2>1. ASSUME NEW k \in Kinds PROVE place[k].target = Pre(k) \/ Customised(k)
    BY <1>1, <1>2 DEF DocSound, Agrees, MergeRow, PlainRow, RowIs, TargetIs, Customised, UserEdits
  <2>2. QED BY <2>1 DEF AllPre
<1>3. CASE ~\A k \in Kinds : Known(Doc).acts[k].state = "unplanned"
  <2>1. Parsed(Doc) /\ Known(Doc) = Doc
    BY <1>3, KnownDoc, FreshTyped DEF Unplanned
  <2>2. Doc.status = "ROLLED_BACK"
    BY <1>1, <1>3, <2>1 DEF DocSound, SelectorSound, Shown, Mine, Reversed, Receipts, PrevActive
  <2>3. QED BY <2>1, <2>2, InstalledObjects
<1>4. QED BY <1>2, <1>3

\* The two places in the program that a command starts from.
LEMMA Cursors == 0 \in 0..34 /\ 1 \in 0..34
OBVIOUS

\* A process record with its fields.
LEMMA ProcBuilt ==
    ASSUME proc' = [cmd |-> proc'.cmd, pc |-> proc'.pc, at |-> proc'.at, write |-> proc'.write],
           proc'.cmd \in {"install", "rollback", "failing", "refusing"}, proc'.pc \in Phases \ {"idle"},
           proc'.at \in 0..34, outcome' = "",
           LET w == proc'.write IN
           w = Quiet \/ /\ w = [step |-> w.step, file |-> w.file, value |-> w.value]
                        /\ w.step \in {"create", "fill", "swap", "finish"} /\ w.file \in Files
                        /\ w.file = "pending" => w.value = "this"
                        /\ w.file = "active" => w.value = "new"
                        /\ w.file = "receipt" => w.value \in Receipts
    PROVE  ProcTyped' /\ IdleSound'
<1> DEFINE w == proc'.write
<1>1. IdleSound'
  BY DEF IdleSound, Phases
<1>2. /\ w = [step |-> w.step, file |-> w.file, value |-> w.value]
      /\ w.step \in {"none", "create", "fill", "swap", "finish"} /\ w.file \in Files
      /\ w.step = "none" => w = Quiet
  BY Empties DEF Files
<1>3. w.step # "none" => /\ w.file = "pending" => w.value = "this"
                         /\ w.file = "active" => w.value = "new"
                         /\ w.file = "receipt" => w.value \in Receipts
  BY Empties
<1>4. ProcTyped'
  BY <1>2, <1>3 DEF ProcTyped, Phases
<1>5. QED BY <1>1, <1>4

\* A command takes the lock.
LEMMA StartKeeps ==
    ASSUME Base, Phase, Start
    PROVE  Base' /\ Phase'
<1>1. /\ UNCHANGED <<machine, json, spent>> /\ outcome' = ""
      /\ proc' = [cmd |-> "install", pc |-> "reconcile", at |-> 0, write |-> Quiet]
  BY Empties DEF Start
<1>2. proc'.cmd = "install" /\ proc'.pc = "reconcile" /\ proc'.at = 0 /\ proc'.write = Quiet
  BY <1>1
<1>3. ProcTyped' /\ IdleSound'
  BY <1>1, <1>2, Cursors, ProcBuilt DEF Phases
<1>4. RestTyped' /\ OutcomeWhole'
  BY <1>1 DEF Base, Typed, RestTyped, OutcomeWhole
<1>5. QED BY <1>1, <1>2, <1>3, <1>4, ControlPhase

\* rollback takes the lock, and refuses or goes on.
LEMMA StartRollbackKeeps ==
    ASSUME Base, Phase, StartRollback
    PROVE  Base' /\ Phase'
<1>1. UNCHANGED <<machine, json, spent>> /\ proc = Idle /\ Parsed(Doc)
  BY DEF StartRollback
<1>2. CASE outcome' = "refused" /\ UNCHANGED proc
  <2>1. RestTyped' /\ OutcomeWhole' /\ proc' = Idle
    BY <1>1, <1>2 DEF Base, Typed, RestTyped, OutcomeWhole
  <2>2. QED BY <1>1, <2>1, EndKeeps
<1>3. CASE Doc.status = "ROLLED_BACK" /\ backup = "none" /\ outcome' = "rolled_back" /\ UNCHANGED proc
  <2>1. RestTyped' /\ proc' = Idle
    BY <1>1, <1>3 DEF Base, Typed, RestTyped
  <2>2. Bare("receipt")
    BY <1>1, <1>3, KnownDoc DEF Base, OrderSound, RolledBackLast
  <2>3. AllPre /\ NoneLeft
    BY <1>1, <1>3, <2>2, InstalledObjects DEF NoneLeft, Files
  <2>4. OutcomeWhole'
    BY <1>1, <1>3, <2>3, WholeBy
  <2>5. QED BY <1>1, <2>1, <2>4, EndKeeps
<1>4. CASE proc' = [Idle EXCEPT !.cmd = "rollback", !.pc = "reconcile"] /\ outcome' = ""
  <2>1. /\ proc' = [cmd |-> "rollback", pc |-> "reconcile", at |-> 0, write |-> Quiet]
    BY <1>4, Empties
  <2>2. proc'.cmd = "rollback" /\ proc'.pc = "reconcile" /\ proc'.at = 0 /\ proc'.write = Quiet
    BY <2>1
  <2>3. ProcTyped' /\ IdleSound'
    BY <1>4, <2>1, <2>2, Cursors, ProcBuilt DEF Phases
  <2>4. RestTyped' /\ OutcomeWhole'
    BY <1>1, <1>4 DEF Base, Typed, RestTyped, OutcomeWhole
  <2>5. QED BY <1>1, <2>2, <2>3, <2>4, ControlPhase
<1>5. QED BY <1>2, <1>3, <1>4 DEF StartRollback

FaultCounted == spent.faults < MaxFaults /\ spent' = [spent EXCEPT !.faults = spent.faults + 1]
\* A fault that is counted keeps within the bounds.
LEMMA FaultTyped ==
    ASSUME Base, FaultCounted
    PROVE  spent' \in [crashes : 0..MaxCrashes, faults : 0..MaxFaults, edits : 0..MaxEdits]
<1>1. spent \in [crashes : 0..MaxCrashes, faults : 0..MaxFaults, edits : 0..MaxEdits]
  BY DEF Base, Typed, RestTyped
<1>2. spent.faults \in 0..MaxFaults /\ MaxFaults \in Nat
  BY <1>1, InstallerAssumption
<1>3. spent.faults + 1 \in 0..MaxFaults
  BY ONLY <1>2, FaultCounted DEF FaultCounted
<1>4. QED BY <1>1, <1>3 DEF FaultCounted

\* A call of the operating system fails in an install.
LEMMA FailKeeps ==
    ASSUME Base, Phase, Fail
    PROVE  Base' /\ Phase'
<1>1. /\ UNCHANGED <<machine, json, outcome>> /\ proc.pc = "install"
      /\ spent.faults < MaxFaults /\ spent' = [spent EXCEPT !.faults = spent.faults + 1]
      /\ proc' = [Idle EXCEPT !.cmd = "failing", !.pc = "recover", !.write = Quiet]
  BY DEF Fail, Raises
<1>2. proc' = [cmd |-> "failing", pc |-> "recover", at |-> 0, write |-> Quiet]
  BY <1>1, Empties
<1>4. outcome = "" /\ outcome' = ""
  BY <1>1 DEF Phase, PlaceSound, IdleSound
<1>3. proc'.cmd = "failing" /\ proc'.pc = "recover" /\ proc'.at = 0 /\ proc'.write = Quiet
  BY <1>2
<1>5. ProcTyped' /\ IdleSound'
  BY <1>2, <1>3, <1>4, Cursors, ProcBuilt DEF Phases
<1>6. RestTyped' /\ OutcomeWhole'
  <2>1. FaultCounted
    BY <1>1 DEF FaultCounted
  <2>2. QED BY <1>1, <1>4, <2>1, FaultTyped DEF Base, Typed, RestTyped, OutcomeWhole
<1>7. QED BY <1>1, <1>3, <1>5, <1>6, ControlPhase

\* A step of a running command that only moves it on.
LEMMA GoKeeps ==
    ASSUME Base, Phase, UNCHANGED <<machine, json, outcome, spent>>, proc.pc # "idle", proc.write.step = "none",
           NEW pc \in Phases \ {"idle", "install"}, Go(pc),
           proc.pc # "install", pc \in {"reconcile", "unpend"} => proc.cmd \in {"install", "rollback"},
           pc \in {"rolling", "recovered"} \/ (pc = "unchanged" /\ Mine) => Bare("receipt"),
           pc = "rolling" => RollingRows(Known(Doc)),
           pc = "unchanged" /\ (Reversed \/ Mine) => Settled(Doc),
           pc = "recovered" => Known(Doc).status = "ROLLED_BACK" \/ Settled(Known(Doc))
    PROVE  Base' /\ Phase'
<1>1. /\ proc.write = Quiet /\ proc = [cmd |-> proc.cmd, pc |-> proc.pc, at |-> proc.at, write |-> Quiet]
      /\ Coming = Known(Doc)
  BY AtRest
<1>2. proc' = [proc EXCEPT !.pc = pc]
  BY DEF Go
<1>3. proc' = [cmd |-> proc.cmd, pc |-> pc, at |-> proc.at, write |-> Quiet]
  BY <1>1, <1>2
<1>4. proc'.cmd = proc.cmd /\ proc'.pc = pc /\ proc'.at = proc.at /\ proc'.write = Quiet
  BY <1>3
<1>5. outcome = "" /\ proc.cmd # "none"
  BY DEF Phase, PlaceSound, IdleSound
<1>6. ProcTyped' /\ IdleSound'
  BY <1>3, <1>4, <1>5, Empties DEF Base, Typed, ProcTyped, IdleSound, Phases, Files
<1>7. RestTyped' /\ OutcomeWhole'
  BY <1>5 DEF Base, Typed, RestTyped, OutcomeWhole
<1>8. proc'.at = 0 \/ (proc'.at = 1 /\ Known(Doc).acts["bundle"].state # "STAGED")
  BY <1>1, <1>4 DEF Phase, PlaceSound, CursorSound
<1>9. QED BY <1>4, <1>6, <1>7, <1>8, ControlPhase

\* A selector that is shown has a receipt.
LEMMA ShownIsParsed ==
    ASSUME Base, Reversed \/ Mine
    PROVE  Parsed(Doc) /\ Known(Doc) = Doc /\ Doc \in Receipts /\ DocSound(Doc)
<1>1. Parsed(Doc)
  BY KnownDoc DEF Base, OrderSound, SelectorAfter, Mine, Reversed, PrevActive
<1>2. QED BY <1>1, KnownDoc

\* recover_active chooses by what the selectors show.
LEMMA RecoverKeeps ==
    ASSUME Base, Phase, Recover
    PROVE  Base' /\ Phase'
<1>1. /\ UNCHANGED <<machine, json, outcome, spent>> /\ proc.pc = "recover" /\ proc.write.step = "none"
      /\ ~RecoverConflict /\ ((Reversed \/ Mine) => Bare("receipt") /\ ~Uncleaned)
  BY DEF Recover, Running
<1>2. CASE ~(Reversed \/ Mine)
  <2>1. Go("unchanged")
    BY <1>2 DEF Recover
  <2>2. QED BY <1>1, <1>2, <2>1, GoKeeps DEF Phases
<1>3. CASE (Reversed \/ Mine) /\ Doc.status = "INSTALLED"
  <2>1. Go("unchanged")
    BY <1>3 DEF Recover
  <2>2. Settled(Doc)
    BY <1>1, <1>3, ShownIsParsed DEF Uncleaned, DocSound, StatusSound, Settled
  <2>3. QED BY <1>1, <1>3, <2>1, <2>2, GoKeeps DEF Phases
<1>4. CASE (Reversed \/ Mine) /\ Doc.status # "INSTALLED"
  <2>1. Go("rolling")
    BY <1>4 DEF Recover
  <2>2. Parsed(Doc) /\ Known(Doc) = Doc /\ Doc \in Receipts
    BY <1>4, ShownIsParsed
  <2>3. Preflight(Doc) \/ Doc.status = "ROLLED_BACK"
    BY <1>1, <1>4, <2>2 DEF RecoverConflict, Unfinished, Receipts
  <2>4. RollingRows(Known(Doc))
    BY <1>4, <2>2, <2>3, ReadyToRoll
  <2>5. QED BY <1>1, <1>4, <2>1, <2>4, GoKeeps DEF Phases
<1>5. QED BY <1>2, <1>3, <1>4

\* A command that refuses ends, or goes on to recover what it had begun.
LEMMA RefuseKeeps ==
    ASSUME Base, Phase, UNCHANGED <<machine, json, spent>>, proc.pc # "idle", Refuse
    PROVE  Base' /\ Phase'
<1>1. outcome = "" /\ proc.cmd # "none"
  BY DEF Phase, PlaceSound, IdleSound
<1>2. CASE proc' = Idle /\ outcome' = "refused"
  <2>1. RestTyped' /\ OutcomeWhole'
    BY <1>2 DEF Base, Typed, RestTyped, OutcomeWhole
  <2>2. QED BY <1>2, <2>1, EndKeeps
<1>3. CASE proc' = [Idle EXCEPT !.cmd = "refusing", !.pc = "recover"] /\ outcome' = outcome
  <2>1. proc' = [cmd |-> "refusing", pc |-> "recover", at |-> 0, write |-> Quiet]
    BY <1>3, Empties
  <2>2. proc'.cmd = "refusing" /\ proc'.pc = "recover" /\ proc'.at = 0 /\ proc'.write = Quiet
    BY <2>1
  <2>3. ProcTyped' /\ IdleSound'
    BY <1>1, <1>3, <2>1, <2>2, Cursors, ProcBuilt DEF Phases
  <2>4. RestTyped' /\ OutcomeWhole'
    BY <1>1, <1>3 DEF Base, Typed, RestTyped, OutcomeWhole
  <2>5. QED BY <2>2, <2>3, <2>4, ControlPhase
<1>4. QED BY <1>2, <1>3 DEF Refuse, End

\* A conflict that a command finds makes it refuse.
LEMMA RefusalKeeps ==
    ASSUME Base, Phase, Refusal
    PROVE  Base' /\ Phase'
<1>1. proc.pc # "idle"
  BY DEF Refusal, Running
<1>2. QED BY <1>1, RefuseKeeps DEF Refusal

\* What a command that has finished recovering finds.
LEMMA Recovered ==
    ASSUME Base, Phase, Running("recovered") \/ Running("unchanged")
    PROVE  /\ AllPost \/ AllPre
           /\ Doc.status = "ROLLED_BACK" => AllPre /\ NoneLeft
           /\ Mine /\ Doc.status = "INSTALLED" => AllPost /\ NoneLeft /\ ~Waiting
           /\ proc.pc = "recovered" \/ Mine => Bare("receipt")
<1>1. /\ proc.write = Quiet /\ Coming = Known(Doc) /\ ~Busy("receipt") /\ proc.write.step = "none"
  BY AtRest DEF Running, Files
<1>2. proc.pc = "recovered" \/ Mine => Bare("receipt")
  BY <1>1 DEF Phase, HandSound, ReceiptBare, Running
<1>3. proc.pc = "recovered" => Doc.status = "ROLLED_BACK" \/ Settled(Doc)
  <2>1. proc.pc = "recovered" => Known(Doc).status = "ROLLED_BACK" \/ Settled(Known(Doc))
    BY <1>1 DEF Phase, PlaceSound, RecoverySound
  <2>2. QED BY <2>1, KnownDoc, FreshTyped DEF Settled
<1>4. proc.pc = "unchanged" /\ (Reversed \/ Mine) => Settled(Doc)
  BY DEF Phase, PlaceSound, RecoverySound
<1>5. Doc.status \in {"INSTALLED", "ROLLED_BACK"} => Parsed(Doc)
  BY KnownDoc
<1>6. AllPost \/ AllPre
  BY <1>3, <1>4, <1>5, InstalledObjects, UnshownObjects DEF Running, Settled
<1>7. ASSUME Doc.status = "ROLLED_BACK" PROVE AllPre /\ NoneLeft
  <2>1. Bare("receipt")
    <3>1. CASE proc.pc = "recovered" \/ Mine
      BY <1>2, <3>1
    <3>2. CASE proc.pc = "unchanged" /\ ~Mine
      <4>1. ~Reversed
        BY <1>4, <1>7, <3>2 DEF Settled
      <4>2. SelectorSound(Doc)
        BY <1>5, <1>7, KnownDoc DEF DocSound
      <4>3. backup = "none"
        BY <1>7, <3>2, <4>1, <4>2 DEF SelectorSound, Shown, Reversed
      <4>4. Doc \in Docs
        BY <1>5, <1>7, KnownDoc
      <4>5. QED BY <1>7, <4>3, <4>4 DEF Base, OrderSound, RolledBackLast
    <3>3. QED BY <3>1, <3>2 DEF Running
  <2>2. QED BY <1>5, <1>7, <2>1, InstalledObjects DEF NoneLeft, Files
<1>8. ASSUME Mine, Doc.status = "INSTALLED" PROVE AllPost /\ NoneLeft /\ ~Waiting
  <2>1. Settled(Doc)
    BY <1>3, <1>4, <1>8 DEF Running
  <2>2. QED BY <1>2, <1>5, <1>8, <2>1, InstalledObjects DEF NoneLeft, Files
<1>9. QED BY <1>2, <1>6, <1>7, <1>8

\* What an install does after the recovery.
LEMMA AfterRecoveryKeeps ==
    ASSUME Base, Phase, AfterRecovery
    PROVE  Base' /\ Phase'
<1>1. /\ UNCHANGED <<machine, json, spent>> /\ (Running("recovered") \/ Running("unchanged"))
      /\ proc.pc \in {"recovered", "unchanged"} /\ proc.write.step = "none"
  BY DEF AfterRecovery, Running
<1>2. proc.cmd # "none"
  BY <1>1 DEF Phase, PlaceSound, IdleSound
<1>3. ASSUME NEW how \in {"failed", "refused", "rolled_back", "installed"}, End(how),
             how = "rolled_back" => Doc.status = "ROLLED_BACK",
             how = "installed" => Mine /\ Doc.status = "INSTALLED"
      PROVE  Base' /\ Phase'
  <2>1. proc' = Idle /\ outcome' = how
    BY <1>3 DEF End
  <2>2. RestTyped'
    BY <1>1, <2>1 DEF Base, Typed, RestTyped
  <2>3. OutcomeWhole'
    BY <1>1, <1>3, <2>1, Recovered, WholeBy
  <2>4. QED BY <1>1, <2>1, <2>2, <2>3, EndKeeps
<1>4. CASE proc.cmd = "failing"
  BY <1>3, <1>4 DEF AfterRecovery
<1>5. CASE proc.cmd = "refusing"
  BY <1>3, <1>5 DEF AfterRecovery
<1>6. CASE proc.cmd = "rollback"
  <2>1. CASE Doc.status = "ROLLED_BACK"
    BY <1>3, <1>6, <2>1 DEF AfterRecovery
  <2>2. CASE Doc.status # "ROLLED_BACK"
    <3>1. Mine /\ Preflight(Doc) /\ Go("rolling") /\ UNCHANGED outcome
      BY <1>6, <2>2 DEF AfterRecovery
    <3>2. Bare("receipt") /\ RollingRows(Known(Doc))
      BY <1>1, <3>1, Recovered, ShownIsParsed, ReadyToRoll
    <3>3. QED BY <1>1, <3>1, <3>2, GoKeeps DEF Phases
  <2>3. QED BY <2>1, <2>2
<1>7. CASE proc.cmd = "install"
  <2>1. \/ TRUE \in Exactness /\ End("installed")
        \/ Go("reconcile") /\ UNCHANGED outcome
    BY <1>7 DEF AfterRecovery, Exactness
  <2>2. TRUE \in Exactness => Mine /\ Doc.status = "INSTALLED"
    BY DEF Exactness
  <2>3. QED BY <1>1, <1>3, <1>7, <2>1, <2>2, GoKeeps DEF Phases
<1>8. QED BY <1>2, <1>4, <1>5, <1>6, <1>7 DEF Base, Typed, ProcTyped

\* An install reports that it is done.
LEMMA InstallDoneKeeps ==
    ASSUME Base, Phase, InstallDone
    PROVE  Base' /\ Phase'
<1>1. /\ UNCHANGED <<machine, json, spent>> /\ proc' = Idle /\ outcome' = "installed"
      /\ proc.pc = "install" /\ proc.write.step = "none" /\ Program[proc.at].op = "done"
  BY DEF InstallDone, End, Doing, Running
<1>2. proc.at \in 1..34 /\ InstallReceipt(Coming, proc.at) /\ InstallSelectors(proc.at)
  BY <1>1 DEF Phase, InstallSound
<1>3. proc.at = 34
  BY <1>1, <1>2, StepNumbers
<1>4. Parsed(Doc) /\ Coming = Doc /\ Bare("receipt")
  BY <1>1, <1>2, <1>3, AtRest, KnownDoc DEF InstallSelectors, Files, Phase, HandSound, ReceiptBare
<1>5. Settled(Doc)
  BY <1>2, <1>3, <1>4 DEF InstallReceipt, Settled
<1>6. AllPost /\ NoneLeft /\ ~Waiting
  BY <1>4, <1>5, InstalledObjects DEF NoneLeft, Settled, Files
<1>7. RestTyped' /\ OutcomeWhole'
  BY <1>1, <1>6, WholeBy DEF Base, Typed, RestTyped
<1>8. QED BY <1>1, <1>7, EndKeeps

-----------------------------------------------------------------------------
(* Reconciliation.                                                          *)

\* A write of a selector, or of a receipt that is there already.
LEMMA PublishKeepsBase ==
    ASSUME Base, UNCHANGED <<machine, json, outcome, spent>>, ProcTyped', WriteSound', OrderSound',
           Docs' \subseteq Docs, Coming' \in Docs,
           (Coming' \in {Coming, Known(Doc)}) \/ (MergeSound => MergeSound')
    PROVE  Base'
<1>1. Known(Doc)' = Known(Doc) /\ UNCHANGED <<had, place, rstage, bundle, backup>>
  BY DEF Known, Doc, machine
<1>2. AllDocs'
  BY <1>1, DocsKept DEF Base, Waiting
<1>3. MergeSound'
  BY <1>1, MergeKept DEF Base
<1>4. Typed'
  <2>1. MachineTyped' /\ JsonTyped'
    BY <1>1 DEF Base, Typed, MachineTyped, JsonTyped
  <2>2. RestTyped'
    BY DEF Base, Typed, RestTyped
  <2>3. QED BY <2>1, <2>2 DEF Typed
<1>5. QED BY <1>2, <1>3, <1>4 DEF Base

\* Before the command has a receipt in hand little is asked of its place.
LEMMA EarlyPhase ==
    ASSUME Base, Phase, UNCHANGED outcome, proc.pc # "idle", proc.pc # "install",
           proc'.pc \in {"reconcile", "unpend", "recover"}, proc'.cmd = proc.cmd,
           proc'.pc \in {"reconcile", "unpend"} => proc.cmd \in {"install", "rollback"},
           proc'.at = 0 \/ (proc'.at = 1 /\ (Coming.acts["bundle"].state # "STAGED")'),
           (Busy("active") \/ Busy("pending"))' => proc'.pc = "reconcile",
           proc'.pc = "recover" /\ Busy("receipt")' => (Mine \/ (backup = "new" /\ json["active"].live = PrevActive))'
    PROVE  Phase' /\ outcome' = "" /\ proc'.cmd # "none"
<1>1. outcome = "" /\ outcome' = "" /\ proc.cmd # "none"
  BY DEF Phase, PlaceSound, IdleSound
<1>2. OutcomeWhole' /\ IdleSound'
  BY <1>1 DEF OutcomeWhole, IdleSound
<1>3. CursorSound'
  BY DEF CursorSound
<1>4. HandSound' /\ InstallSound' /\ RollingSound' /\ RecoverySound'
  BY DEF HandSound, InstallSound, RollingSound, RecoverySound
<1>5. QED BY <1>1, <1>2, <1>3, <1>4 DEF Phase, PlaceSound

\* A write that begins.
LEMMA WriteBegins ==
    ASSUME Base, Phase, proc.pc # "idle", UNCHANGED outcome,
           NEW f \in Files, NEW v, NEW s \in {"create", "finish"}, NEW pc \in Phases \ {"idle"}, NEW n \in 0..34,
           Publish(f, v, s, pc, n),
           f = "pending" => v = "this", f = "active" => v = "new", f = "receipt" => v \in Receipts
    PROVE  /\ ProcTyped' /\ proc'.cmd = proc.cmd /\ proc'.pc = pc /\ proc'.at = n
           /\ proc'.write = [step |-> s, file |-> f, value |-> v]
           /\ proc'.write.step = s /\ proc'.write.file = f /\ proc'.write.value = v
           /\ \A g \in Files : Busy(g)' <=> g = f
<1>1. proc' = [cmd |-> proc.cmd, pc |-> pc, at |-> n, write |-> [step |-> s, file |-> f, value |-> v]]
  BY DEF Publish, Base, Typed, ProcTyped
<1>2. proc'.cmd = proc.cmd /\ proc'.pc = pc /\ proc'.at = n /\ proc'.write = [step |-> s, file |-> f, value |-> v]
  BY <1>1
<1>3. proc'.write.step = s /\ proc'.write.file = f /\ proc'.write.value = v
  BY <1>2
<1>4. proc.cmd \in {"none", "install", "rollback", "failing", "refusing"}
  BY DEF Base, Typed, ProcTyped
<1>5. ProcTyped'
  BY <1>1, <1>2, <1>3, <1>4 DEF ProcTyped, Phases
<1>6. QED BY <1>2, <1>3, <1>5 DEF Busy

\* A copy of the pending selector is published or removed.
LEMMA SettlePendingKeeps ==
    ASSUME Base, Phase, SettlePending
    PROVE  Base' /\ Phase'
<1>1. /\ UNCHANGED <<machine, json, outcome, spent>> /\ proc.pc = "reconcile" /\ proc.write.step = "none"
      /\ PendingTemp # "none" /\ PendingTemp # "torn" /\ ~Waiting
      /\ Publish("pending", PendingTemp, "create", "reconcile", 0)
  BY DEF SettlePending, Reconcilable, ReconcileConflict, Running
<1>2. json["pending"].temp = "this" /\ PendingTemp = "this" /\ json["pending"].live = "none"
  BY <1>1, Empties DEF PendingTemp, Waiting, Base, Typed, JsonTyped
<1>3. /\ ProcTyped' /\ proc'.cmd = proc.cmd /\ proc'.pc = "reconcile" /\ proc'.at = 0
      /\ proc'.write.step = "create" /\ proc'.write.file = "pending" /\ proc'.write.value = "this"
      /\ Busy("pending")' /\ ~Busy("receipt")' /\ ~Busy("active")'
  BY ZenonT(60), <1>1, <1>2, Cursors, WriteBegins DEF Files, Phases
<1>4. Bare("receipt") /\ ~Parsed(Doc)
  BY <1>2 DEF Base, OrderSound, PendingFirst
<1>5. Docs' \subseteq Docs /\ Coming' = Known(Doc) /\ Known(Doc) \in Docs
  BY <1>1, <1>3 DEF Docs, Coming, Known, Doc, Pair
<1>6. WriteSound'
  BY <1>1, <1>2, <1>3 DEF WriteSound, Busy
<1>7. OrderSound'
  <2>1. PendingFirst' /\ PendingOnce'
    BY <1>1, <1>3, <1>4 DEF PendingFirst, PendingOnce, Bare, Doc, Parsed
  <2>2. SelectorAfter' /\ SelectorWrite' /\ RolledBackLast'
    BY <1>1, <1>3, <1>4, <1>5 DEF Base, OrderSound, SelectorAfter, SelectorWrite, RolledBackLast, Doc, machine, PrevActive, Bare
  <2>3. QED BY <2>1, <2>2 DEF OrderSound
<1>8. proc.cmd \in {"install", "rollback"}
  BY <1>1 DEF Phase, PlaceSound, CursorSound
<1>9. QED BY <1>1, <1>3, <1>5, <1>6, <1>7, <1>8, PublishKeepsBase, EarlyPhase

\* A copy of the receipt is published or removed.
LEMMA SettleReceiptKeeps ==
    ASSUME Base, Phase, SettleReceipt
    PROVE  Base' /\ Phase'
<1>1. /\ UNCHANGED <<machine, json, outcome, spent>> /\ proc.pc \in {"reconcile", "recover"}
      /\ proc.write.step = "none" /\ ~Bare("receipt") /\ PairSettles
      /\ proc.pc = "recover" => Reversed \/ Mine
      /\ Publish("receipt", Newest, IF LiveNewer THEN "finish" ELSE "create", proc.pc, 0)
  BY DEF SettleReceipt, Reconcilable, ReconcileConflict, Running
<1>2. /\ Parsed(Pair.temp) /\ Pair.temp \in Docs /\ Newest \in Docs /\ Newest \in Receipts
      /\ LiveNewer => Newest = Known(Doc) /\ Newest = json["receipt"].live
      /\ ~LiveNewer => Newest = Pair.temp
  <2>1. Parsed(Pair.temp) /\ Pair.temp \in Docs
    BY <1>1 DEF PairSettles, Docs
  <2>2. Pair.temp \in Receipts
    BY <2>1 DEF Base, AllDocs, DocSound
  <2>3. LiveNewer => Parsed(Doc) /\ Pair.live = Doc
    BY DEF LiveNewer, Pair, Doc
  <2>4. LiveNewer => Known(Doc) = Pair.live /\ Pair.live = json["receipt"].live
    BY <2>3, KnownDoc DEF Pair
  <2>5. QED BY <2>1, <2>2, <2>4, KnownDoc DEF Newest
<1>3. /\ ProcTyped' /\ proc'.cmd = proc.cmd /\ proc'.pc = proc.pc /\ proc'.at = 0
      /\ proc'.write.step = (IF LiveNewer THEN "finish" ELSE "create")
      /\ proc'.write.file = "receipt" /\ proc'.write.value = Newest
      /\ Busy("receipt")' /\ ~Busy("pending")' /\ ~Busy("active")'
  BY ZenonT(60), <1>1, <1>2, Cursors, WriteBegins DEF Files, Phases
<1>4. Docs' \subseteq Docs /\ Coming' = Newest /\ Known(Doc)' = Known(Doc)
  BY <1>1, <1>2, <1>3 DEF Docs, Coming, Known, Doc, Pair
<1>5. WriteSound'
  BY <1>1, <1>2, <1>3 DEF WriteSound, Busy, Pair
<1>6. OrderSound'
  <2>1. PendingFirst' /\ PendingOnce'
    BY <1>1, <1>3 DEF Base, OrderSound, PendingFirst, PendingOnce
  <2>2. SelectorAfter' /\ SelectorWrite'
    BY <1>1, <1>3 DEF Base, OrderSound, SelectorAfter, SelectorWrite, Doc, machine, PrevActive
  <2>3. RolledBackLast'
    BY <1>1, <1>4 DEF Base, OrderSound, RolledBackLast, machine
  <2>4. QED BY <2>1, <2>2, <2>3 DEF OrderSound
<1>7. MergeSound'
  BY <1>1, <1>4 DEF Base, MergeSound, machine
<1>8. Base'
  BY <1>1, <1>2, <1>3, <1>4, <1>5, <1>6, <1>7, PublishKeepsBase
<1>9. proc.pc = "reconcile" => proc.cmd \in {"install", "rollback"}
  BY DEF Phase, PlaceSound, CursorSound
<1>10. proc.pc = "recover" => (Mine \/ (backup = "new" /\ json["active"].live = PrevActive))'
  BY <1>1 DEF Mine, Reversed, PrevActive, machine
<1>11. Phase'
  BY <1>1, <1>3, <1>9, <1>10, EarlyPhase
<1>12. QED BY <1>8, <1>11


\* A receipt with one more object published.
LEMMA PostAdded ==
    ASSUME Doc \in Receipts, NEW r \in Roles, NEW doc, doc = [Doc EXCEPT !.posts = @ \cup {r}]
    PROVE  /\ doc \in Receipts /\ doc.posts = Doc.posts \cup {r} /\ doc.acts = Doc.acts /\ doc.status = Doc.status
           /\ Parsed(doc)
BY DEF Receipts, Parsed

\* The selectors are reconciled with the receipt.
LEMMA ReconcileKeeps ==
    ASSUME Base, Phase, Reconcile
    PROVE  Base' /\ Phase'
<1>1. /\ UNCHANGED <<machine, json, outcome, spent>> /\ proc.pc = "reconcile" /\ proc.write.step = "none"
      /\ ~ReconcileConflict /\ PendingTemp = "none" /\ proc.cmd \in {"install", "rollback"}
  BY DEF Reconcile, Reconcilable, Running, Phase, PlaceSound, CursorSound
<1>2. CASE Go("recover") \/ Go("unpend")
  BY <1>1, <1>2, GoKeeps DEF Phases
<1>3. CASE /\ Waiting /\ Bare("receipt") /\ Parsed(Doc)
           /\ IF Mine /\ Bare("active")
              THEN Journal([Doc EXCEPT !.posts = @ \cup {"active"}], "unpend", 0)
              ELSE Publish("active", "new", IF Mine THEN "finish" ELSE "create", "reconcile", 0)
  <2>1. /\ Known(Doc) = Doc /\ Doc \in Receipts /\ DocSound(Doc) /\ Docs = {Doc} /\ json["pending"].temp = "none"
    BY <1>1, <1>3, KnownDoc DEF PendingTemp
  <2>2. ValidPending(Doc) /\ SelectorRow
    BY <1>1, <1>3 DEF ReconcileConflict, Absent, Files, Parsed
  <2>3. /\ UNCHANGED <<had, place, rstage, bundle, backup>> /\ Waiting' = Waiting /\ RestTyped' /\ MachineTyped'
    BY <1>1 DEF machine, Waiting, Base, Typed, RestTyped, MachineTyped
  <2>4. CASE Mine /\ Bare("active")
    <3>1. PICK doc \in Receipts : /\ doc = [Doc EXCEPT !.posts = @ \cup {"active"}]
                                  /\ doc.posts = Doc.posts \cup {"active"} /\ doc.acts = Doc.acts /\ doc.status = Doc.status
      BY <2>1, PostAdded DEF Roles
    <3>2. /\ ProcTyped' /\ proc'.cmd = proc.cmd /\ proc'.pc = "unpend" /\ proc'.at = 0
          /\ proc'.write = [step |-> "create", file |-> "receipt", value |-> doc]
          /\ Busy("receipt")' /\ ~Busy("pending")' /\ ~Busy("active")'
      <4>1. Publish("receipt", doc, "create", "unpend", 0)
        BY <1>3, <2>4, <3>1 DEF Journal
      <4>2. doc \in Receipts /\ proc.pc # "idle" /\ UNCHANGED outcome /\ "receipt" \in Files
            /\ "unpend" \in Phases \ {"idle"} /\ "create" \in {"create", "finish"}
        BY <1>1, <3>1 DEF Files, Phases
      <4>3. QED BY <4>1, <4>2, Cursors, WriteBegins DEF Files
    <3>3. DocSound(Known(Doc))'
      <4>1. PICK d : d = Known(Doc)
        OBVIOUS
      <4>2. Known(Doc)' = d
        BY <1>1, <4>1 DEF Known, Doc
      <4>3. DocSound(d)'
        BY <1>1, <2>1, <2>3, <4>1, SoundSame
      <4>4. QED BY <4>2, <4>3
    <3>4. DocSound(doc)
      <4>1. SelectorSound(doc)
        BY <2>2, <2>4, <3>1, Empties DEF SelectorSound, ValidPending, SelectorRow, Mine, Bare, Shown, PrevActive
      <4>2. StatusSound(doc)
        BY <2>1, <2>2, <3>1 DEF StatusSound, ValidPending, DocSound
      <4>3. QED BY <2>1, <3>1, <4>1, <4>2 DEF DocSound
    <3>5. DocSound(doc)'
      BY <1>1, <2>3, <3>4, SoundSame
    <3>6. Base' /\ Coming' = doc
      <4>1. Merging(doc) = Merging(Known(Doc))
        BY <1>3, <2>1, <3>1 DEF Merging
      <4>2. Doc.status = "PREPARED" /\ doc.status = "PREPARED"
        BY <2>2, <3>1 DEF ValidPending
      <4>3. QED BY <1>1, <1>3, <2>1, <2>3, <3>1, <3>2, <3>3, <3>5, <4>1, <4>2, JournalKeeps
    <3>7. Phase'
      BY <1>1, <3>2, EarlyPhase
    <3>8. QED BY <3>6, <3>7
  <2>5. CASE ~(Mine /\ Bare("active"))
    <3>1. /\ ProcTyped' /\ proc'.cmd = proc.cmd /\ proc'.pc = "reconcile" /\ proc'.at = 0
          /\ proc'.write.step = (IF Mine THEN "finish" ELSE "create")
          /\ proc'.write.file = "active" /\ proc'.write.value = "new"
          /\ Busy("active")' /\ ~Busy("pending")' /\ ~Busy("receipt")'
      BY ZenonT(60), <1>1, <1>3, <2>5, Cursors, WriteBegins DEF Files, Phases
    <3>2. Doc.status = "PREPARED" /\ "active" \notin Doc.posts
      BY <2>1, <2>2, <2>5 DEF DocSound, SelectorSound, Shown, Mine, ValidPending
    <3>3. /\ Docs' = {Doc} /\ Coming' = Known(Doc) /\ Known(Doc)' = Known(Doc) /\ Doc' = Doc
      BY <1>1, <2>1, <3>1 DEF Docs, Coming, Known, Doc, Pair, Busy
    <3>4. WriteSound'
      BY <1>1, <2>2, <3>1, Empties DEF WriteSound, Busy, SelectorRow, Mine
    <3>5. OrderSound'
      <4>1. PendingFirst' /\ PendingOnce'
        BY <1>1, <2>1, <3>1 DEF PendingFirst, PendingOnce
      <4>2. SelectorAfter' /\ RolledBackLast'
        BY <1>1, <1>3, <2>1, <2>3, <3>1, <3>2, <3>3 DEF SelectorAfter, RolledBackLast
      <4>3. SelectorWrite'
        BY <1>1, <2>2, <2>3, <2>5, <3>1, <3>2, <3>3, Empties DEF SelectorWrite, Mine, SelectorRow, Bare, PrevActive
      <4>4. QED BY <4>1, <4>2, <4>3 DEF OrderSound
    <3>6. Base'
      BY <1>1, <2>1, <3>1, <3>3, <3>4, <3>5, PublishKeepsBase
    <3>7. Phase'
      BY <1>1, <3>1, EarlyPhase
    <3>8. QED BY <3>6, <3>7
  <2>6. QED BY <2>4, <2>5
<1>4. QED BY <1>2, <1>3 DEF Reconcile


\* The machine moves while no write is in hand: the one document agrees with it.
LEMMA MachineKeeps ==
    ASSUME Base, UNCHANGED <<json, had>>, MachineTyped', ProcTyped', RestTyped',
           proc.write.step = "none", proc'.write = Quiet, Bare("receipt"), DocSound(Known(Doc))',
           Parsed(Doc) \/ backup' = backup
    PROVE  /\ Base' /\ Coming' = Known(Doc) /\ Known(Doc)' = Known(Doc) /\ Docs' = {Known(Doc)}
           /\ Bare("receipt")' /\ \A f \in Files : ~Busy(f)'
<1>1. (\A f \in Files : ~Busy(f)) /\ (\A f \in Files : ~Busy(f)') /\ WriteSound' /\ Bare("receipt")'
  BY Empties DEF Busy, WriteSound, Bare
<1>2. Typed'
  BY DEF Base, Typed, JsonTyped
<1>3. Docs' = {Known(Doc)} /\ Coming' = Known(Doc) /\ Known(Doc)' = Known(Doc) /\ Doc' = Doc
  <2>1. ~Parsed(Pair.temp)'
    BY Empties DEF Bare, Parsed, Pair
  <2>2. QED BY <1>1, <2>1 DEF Docs, Coming, Known, Doc, Pair, Files
<1>4. AllDocs'
  <2>1. PICK d : d = Known(Doc)
    OBVIOUS
  <2>2. DocSound(d)'
    BY <1>3, <2>1
  <2>3. QED BY <1>3, <2>1, <2>2 DEF AllDocs
<1>5. MergeSound'
  BY <1>3 DEF MergeSound, Merging
<1>6. OrderSound'
  <2>1. PendingFirst' /\ PendingOnce'
    BY <1>1, <1>3 DEF Base, OrderSound, PendingFirst, PendingOnce, Files, Bare
  <2>2. SelectorAfter' /\ SelectorWrite' /\ RolledBackLast'
    BY <1>1, <1>3 DEF Base, OrderSound, SelectorAfter, SelectorWrite, RolledBackLast, PrevActive, Files
  <2>3. QED BY <2>1, <2>2 DEF OrderSound
<1>7. QED BY <1>1, <1>2, <1>3, <1>4, <1>5, <1>6 DEF Base

-----------------------------------------------------------------------------
(* The steps of an install.                                                 *)

\* A command that has not ended.
Open == outcome = ""

\* An install at one of its steps, with no write in hand.
LEMMA InstallAt ==
    ASSUME Base, Phase, Running("install")
    PROVE  /\ proc.at \in 1..34 /\ proc.cmd = "install" /\ rstage = "none" /\ Open
           /\ proc = [cmd |-> "install", pc |-> "install", at |-> proc.at, write |-> Quiet]
           /\ \A f \in Files : ~Busy(f)
           /\ Coming = Known(Doc) /\ Bare("receipt") /\ Docs = {Known(Doc)} /\ DocSound(Known(Doc))
           /\ InstallReceipt(Known(Doc), proc.at) /\ InstallSelectors(proc.at)
           /\ proc.at >= 3 => Parsed(Doc) /\ Known(Doc) = Doc /\ Doc \in Receipts /\ json["pending"].temp = "none"
<1>1. proc.pc = "install" /\ proc.write.step = "none"
  BY DEF Running
<1>2. proc.write = Quiet /\ (\A f \in Files : ~Busy(f)) /\ Coming = Known(Doc)
  BY <1>1, AtRest
<1>3. proc.at \in 1..34 /\ proc.cmd = "install" /\ rstage = "none" /\ Open
  BY <1>1 DEF Phase, InstallSound, PlaceSound, IdleSound, Open
<1>4. proc = [cmd |-> "install", pc |-> "install", at |-> proc.at, write |-> Quiet]
  BY <1>1, <1>2, <1>3 DEF Base, Typed, ProcTyped
<1>5. InstallReceipt(Known(Doc), proc.at) /\ InstallSelectors(proc.at)
  BY <1>1, <1>2 DEF Phase, InstallSound
<1>6. Bare("receipt") /\ Docs = {Known(Doc)} /\ DocSound(Known(Doc))
  BY <1>1, <1>2, KnownDoc DEF Phase, HandSound, ReceiptBare, Files
<1>7. proc.at >= 3 => Parsed(Doc) /\ Known(Doc) = Doc /\ Doc \in Receipts /\ json["pending"].temp = "none"
  BY <1>2, <1>5, KnownDoc DEF InstallSelectors, Files, Base, OrderSound, PendingFirst
<1>8. QED BY <1>2, <1>3, <1>4, <1>5, <1>6, <1>7

\* A row, and the published roles, from one step to the next.
LEMMA RowKept ==
    ASSUME NEW k \in Kinds, NEW n \in 1..33, NEW act, InstallRow(k, act, n), UNCHANGED had, place'[k] = place[k],
           n \notin {PlanAt[k], FillAt[k], RecordAt[k], ForwardAt[k]}
    PROVE  InstallRow(k, act, n + 1)'
<1>1. /\ PlanAt[k] \in 10..26 /\ FillAt[k] \in 12..28 /\ RecordAt[k] \in 13..29 /\ ForwardAt[k] \in 14..30
      /\ PlanAt[k] < FillAt[k] /\ FillAt[k] < RecordAt[k] /\ RecordAt[k] < ForwardAt[k]
  BY Distances
<1>2. /\ n + 1 <= PlanAt[k] <=> n <= PlanAt[k]
      /\ n + 1 <= FillAt[k] <=> n <= FillAt[k]
      /\ n + 1 <= RecordAt[k] <=> n <= RecordAt[k]
      /\ PlanAt[k] < n + 1 <=> PlanAt[k] < n
      /\ RecordAt[k] < n + 1 <=> RecordAt[k] < n
      /\ ForwardAt[k] < n + 1 <=> ForwardAt[k] < n
      /\ n + 1 < ForwardAt[k] => n < ForwardAt[k]
      /\ n + 1 = ForwardAt[k] => n < ForwardAt[k] /\ RecordAt[k] < n
  BY <1>1
<1>3. \A t, s, r : At(k, t, s, r)' <=> At(k, t, s, r)
  BY DEF At
<1>4. Pre(k)' = Pre(k)
  BY DEF Pre
<1>5. QED
  <2>1. PICK m : m = n + 1
    OBVIOUS
  <2>2. InstallRow(k, act, m)'
    BY <1>2, <1>3, <1>4, <2>1 DEF InstallRow
  <2>3. QED BY <2>1, <2>2

\* No object is published at a step that is none's last.
LEMMA PostsKept ==
    ASSUME NEW n \in 1..33, \A r \in Roles : n # PostAt[r]
    PROVE  {r \in Roles : PostAt[r] < n + 1} = {r \in Roles : PostAt[r] < n}
<1>1. \A r \in Roles : PostAt[r] \in Nat
  BY DEF PostAt, Roles, Kinds
<1>2. \A r \in Roles : PostAt[r] < n + 1 <=> PostAt[r] < n
  BY <1>1
<1>3. QED BY <1>2


\* What an install must know at its next step.
LEMMA InstallPhase ==
    ASSUME Open', proc'.cmd = "install", proc'.pc = "install", NEW n \in 1..34, proc'.at = n, rstage' = "none",
           ReceiptBare', InstallReceipt(Coming, n)', InstallSelectors(n)'
    PROVE  Phase'
BY DEF Phase, HandSound, InstallSound, RollingSound, PlaceSound, IdleSound, CursorSound, RecoverySound, OutcomeWhole, Open

\* The pending selector is removed.
LEMMA RemovePendingKeeps ==
    ASSUME Base, Phase, RemovePending
    PROVE  Base' /\ Phase'
<1>1. /\ UNCHANGED <<had, place, rstage, bundle, backup, outcome, spent>> /\ proc.write.step = "none"
      /\ proc.pc \in {"unpend", "install"} /\ proc.pc # "idle"
      /\ json' = [json EXCEPT !["pending"].live = Absent["pending"]]
  BY DEF RemovePending, machine, Running, Doing
<1>2. /\ json' = [json EXCEPT !["pending"] = [live |-> "none", temp |-> json["pending"].temp]]
  <2>1. json["pending"] = [live |-> json["pending"].live, temp |-> json["pending"].temp]
    BY DEF Base, Typed, JsonTyped, Files
  <2>2. [json["pending"] EXCEPT !.live = "none"] = [live |-> "none", temp |-> json["pending"].temp]
    <3>1. PICK a, b : json["pending"] = [live |-> a, temp |-> b]
      BY <2>1
    <3>2. QED BY ONLY <3>1
  <2>3. QED BY <1>1, <2>2, Empties
<1>3. /\ json'["pending"].live = "none" /\ json'["pending"].temp = json["pending"].temp
      /\ json'["receipt"] = json["receipt"] /\ json'["active"] = json["active"]
      /\ json' = [g \in Files |-> [live |-> json'[g].live, temp |-> json'[g].temp]]
  BY <1>2, JsonFrame DEF Base, Typed, Files
<1>4. (\A f \in Files : ~Busy(f)) /\ proc.write = Quiet /\ Coming = Known(Doc)
      /\ proc = [cmd |-> proc.cmd, pc |-> proc.pc, at |-> proc.at, write |-> Quiet]
  BY <1>1, AtRest
<1>5. PICK pc, n : /\ proc' = [cmd |-> proc.cmd, pc |-> pc, at |-> n, write |-> Quiet]
                   /\ \/ proc.pc = "unpend" /\ pc = "recover" /\ n = proc.at
                      \/ Doing("unpend") /\ pc = "install" /\ n = proc.at + 1
  <2>1. CASE Running("unpend") /\ Go("recover")
    BY <1>4, <2>1 DEF Go, Running
  <2>2. CASE Doing("unpend") /\ Next1
    BY <1>4, <2>2 DEF Doing, Next1, Running
  <2>3. QED BY <2>1, <2>2 DEF RemovePending
<1>6. /\ proc'.cmd = proc.cmd /\ proc'.pc = pc /\ proc'.at = n /\ proc'.write = Quiet
      /\ \A f \in Files : ~Busy(f)'
  BY <1>5, Empties DEF Busy
<1>7. Doing("unpend") => proc.at = 5
  BY InstallAt, StepNumbers DEF Doing
<1>8. n \in 0..34 /\ pc \in Phases
  BY <1>4, <1>5, <1>7 DEF Base, Typed, ProcTyped, Phases
<1>9. ProcTyped'
  BY <1>5, <1>6, <1>8, Empties DEF Base, Typed, ProcTyped, Files
<1>10. /\ Docs' = Docs /\ Coming' = Known(Doc) /\ Known(Doc)' = Known(Doc) /\ ~Waiting' /\ Doc' = Doc
  BY <1>3, <1>4, <1>6, Empties DEF Docs, Coming, Known, Doc, Pair, Waiting, Files
<1>11. Base'
  <2>1. Typed'
    BY <1>1, <1>3, <1>9 DEF Base, Typed, MachineTyped, JsonTyped, RestTyped
  <2>2. WriteSound'
    BY <1>6, Empties DEF WriteSound, Busy
  <2>3. AllDocs' /\ MergeSound'
    BY <1>1, <1>3, <1>10, DocsKept, MergeKept DEF Base
  <2>4. OrderSound'
    <3>1. PendingFirst' /\ PendingOnce'
      BY <1>3, <1>4, <1>6, <1>10 DEF Base, OrderSound, PendingFirst, PendingOnce, Files, Bare
    <3>2. SelectorAfter' /\ SelectorWrite' /\ RolledBackLast'
      BY <1>1, <1>3, <1>6, <1>10 DEF Base, OrderSound, SelectorAfter, SelectorWrite, RolledBackLast, PrevActive, Files, Bare
    <3>3. QED BY <3>1, <3>2 DEF OrderSound
  <2>5. QED BY <2>1, <2>2, <2>3, <2>4 DEF Base
<1>12. CASE proc.pc = "unpend"
  <2>1. pc = "recover" /\ n = proc.at
    BY <1>5, <1>12 DEF Doing, Running
  <2>2. n = 0 \/ (n = 1 /\ Coming.acts["bundle"].state # "STAGED")
    BY <1>12, <2>1 DEF Phase, PlaceSound, CursorSound
  <2>3. QED BY <1>1, <1>4, <1>6, <1>10, <1>11, <1>12, <2>1, <2>2, EarlyPhase DEF Files
<1>13. CASE proc.pc = "install"
  <2>1. Doing("unpend") /\ pc = "install" /\ n = proc.at + 1 /\ proc.at = 5 /\ n = 6
    BY <1>5, <1>7, <1>13
  <2>2. /\ InstallReceipt(Known(Doc), 5) /\ InstallSelectors(5) /\ proc.cmd = "install" /\ rstage = "none"
        /\ Open /\ Parsed(Doc) /\ Bare("receipt")
    <3>1. /\ InstallReceipt(Known(Doc), proc.at) /\ InstallSelectors(proc.at) /\ proc.cmd = "install" /\ rstage = "none"
          /\ Open /\ (proc.at >= 3 => Parsed(Doc)) /\ Bare("receipt")
      BY <2>1, InstallAt DEF Doing
    <3>2. QED BY <2>1, <3>1
  <2>3. InstallReceipt(Coming, 6)'
    <3>1. PICK doc : doc = Known(Doc)
      OBVIOUS
    <3>2. \A k \in Kinds : InstallRow(k, doc.acts[k], 6)'
      <4>1. ASSUME NEW k \in Kinds PROVE 5 \notin {PlanAt[k], FillAt[k], RecordAt[k], ForwardAt[k]}
        BY Distances
      <4>2. 5 \in 1..33 /\ 5 + 1 = 6
        OBVIOUS
      <4>3. \A k \in Kinds : InstallRow(k, doc.acts[k], 5)
        BY <2>2, <3>1 DEF InstallReceipt
      <4>4. \A k \in Kinds : InstallRow(k, doc.acts[k], 5 + 1)'
        BY <1>1, <4>1, <4>2, <4>3, RowKept
      <4>5. QED BY <4>2, <4>4
    <3>3. {r \in Roles : PostAt[r] < 6} = {r \in Roles : PostAt[r] < 5}
      BY DEF PostAt, Roles, Kinds
    <3>a. /\ doc.acts["bundle"].state = "unplanned" /\ doc.status = "PREPARED" /\ doc.posts = {r \in Roles : PostAt[r] < 5}
      BY <2>2, <3>1 DEF InstallReceipt
    <3>4. InstallReceipt(doc, 6)'
      BY <3>a, <3>2, <3>3 DEF InstallReceipt
    <3>5. QED BY <1>10, <3>1, <3>4
  <2>4. InstallSelectors(6)'
    BY <1>3, <1>6, <1>10, <2>2 DEF InstallSelectors, Files, Parsed
  <2>5. ReceiptBare'
    BY <1>3, <2>2 DEF ReceiptBare, Bare
  <2>6. 6 \in 1..34
    OBVIOUS
  <2>7. Open'
    BY <1>1, <2>2 DEF Open
  <2>8. QED BY <1>1, <1>6, <1>11, <2>1, <2>2, <2>3, <2>4, <2>5, <2>6, <2>7, InstallPhase
<1>14. QED BY <1>1, <1>12, <1>13


\* What an install knows of an object at a step is what its action says.
LEMMA RowAgrees ==
    ASSUME NEW k \in Kinds, NEW act, NEW m \in 1..34, InstallRow(k, act, m)', rstage' = "none"
    PROVE  Agrees(k, act)' /\ ~act.semantic
           /\ (30 < m => act.state = "COMPLETED" /\ RowIs(k, "post", "none", Pre(k))')
           /\ (m <= 6 => act.state = "unplanned")
<1>1. /\ PlanAt[k] \in 10..26 /\ FillAt[k] \in 12..28 /\ RecordAt[k] \in 13..29 /\ ForwardAt[k] \in 14..30
  BY Distances
<1>2. /\ m <= PlanAt[k] \/ (PlanAt[k] < m /\ m <= RecordAt[k]) \/ (RecordAt[k] < m /\ m < ForwardAt[k])
         \/ m = ForwardAt[k] \/ ForwardAt[k] < m
      /\ m = ForwardAt[k] \/ m < ForwardAt[k] \/ ForwardAt[k] < m
      /\ 30 < m => ForwardAt[k] < m
      /\ m <= 6 => m <= PlanAt[k]
  BY <1>1
<1>a. RecordAt[k] < ForwardAt[k] /\ ForwardAt[k] \in Int /\ RecordAt[k] \in Int /\ PlanAt[k] \in Int
  BY <1>1, Distances
<1>b. m = ForwardAt[k] \/ ForwardAt[k] < m => RecordAt[k] < m
  BY <1>a
<1>3. Pre(k)' \in {"pre", "none"}
  BY DEF Pre
<1>4. At(k, "post", "none", Pre(k))' => RowIs(k, "post", "none", Pre(k))'
  BY DEF At, RowIs, TargetIs
<1>5. \A t, s, r : At(k, t, s, r)' => RowIs(k, t, s, r)' /\ place'[k].target = t /\ place'[k].stage = s
  BY DEF At, RowIs, TargetIs
<1>6. ~act.semantic
  BY DEF InstallRow
<1>7. CASE m <= PlanAt[k]
  BY <1>3, <1>5, <1>6, <1>7, <1>2, <1>a, <1>1 DEF InstallRow, Agrees, PlainRow, Begun
<1>8. CASE PlanAt[k] < m /\ m <= RecordAt[k]
  <2>1. act.state = "PLANNED" /\ At(k, Pre(k), place[k].stage, "none")' /\ place'[k].stage \in {"none", "part", "post"}
    BY <1>8 DEF InstallRow
  <2>2. ~(30 < m) /\ ~(m <= 6)
    BY <1>1, <1>8
  <2>3. QED BY <1>3, <1>5, <1>6, <2>1, <2>2 DEF Agrees, PlainRow, Begun
<1>9. CASE RecordAt[k] < m /\ m <= ForwardAt[k]
  <2>1. /\ act.post = "post" /\ act.state \in Begun \ {"COMPLETED"}
        /\ At(k, Pre(k), "post", "none")' \/ At(k, "post", Pre(k), "none")' \/ At(k, "post", "none", Pre(k))'
    <3>1. m < ForwardAt[k] \/ m = ForwardAt[k]
      BY <1>2, <1>9, <1>a
    <3>2. QED BY <1>9, <3>1 DEF InstallRow, Begun
  <2>2. ~(30 < m) /\ ~(m <= 6)
    BY <1>1, <1>9
  <2>3. QED BY <1>3, <1>5, <1>6, <2>1, <2>2 DEF Agrees, PlainRow, Begun
<1>10. CASE ForwardAt[k] < m
  <2>1. act.state = "COMPLETED" /\ At(k, "post", "none", Pre(k))' /\ act.post = "post"
    BY <1>b, <1>10 DEF InstallRow
  <2>2. ~(m <= 6)
    BY <1>1, <1>10
  <2>3. QED BY <1>3, <1>5, <1>6, <2>1, <2>2 DEF Agrees, PlainRow, Begun
<1>11. QED BY <1>2, <1>7, <1>8, <1>9, <1>10, <1>a

\* The receipt of an install from its fifth step on agrees with the objects.
LEMMA InstallDocSound ==
    ASSUME NEW m \in 5..34, NEW doc \in Receipts, InstallReceipt(doc, m)', rstage' = "none",
           doc.acts["bundle"].state \in {"unplanned", "CLEANED"} => bundle' = "none",
           Bare("active")', Shown' = <<"new", PrevActive'>>, m >= 6 => ~Waiting'
    PROVE  DocSound(doc)' /\ ~Merging(doc)
           /\ doc.status \in {"PREPARED", "INSTALLED"}
<1>1. \A k \in Kinds : InstallRow(k, doc.acts[k], m)'
  BY DEF InstallReceipt
<1>2. ASSUME NEW k \in Kinds
      PROVE  Agrees(k, doc.acts[k])' /\ ~doc.acts[k].semantic
             /\ (30 < m => doc.acts[k].state = "COMPLETED" /\ RowIs(k, "post", "none", Pre(k))')
             /\ (m <= 6 => doc.acts[k].state = "unplanned")
  <2>1. m \in 1..34
    OBVIOUS
  <2>2. QED BY <1>1, <2>1, RowAgrees
<1>3. /\ m <= 6 => doc.acts["bundle"].state = "unplanned"
      /\ 6 < m /\ m <= 9 => doc.acts["bundle"].state = "PLANNED"
      /\ 9 < m /\ m <= 33 => doc.acts["bundle"].state = "STAGED"
      /\ m = 34 => doc.acts["bundle"].state = "CLEANED"
      /\ doc.status = IF m <= 32 THEN "PREPARED" ELSE "INSTALLED"
      /\ doc.posts = {r \in Roles : PostAt[r] < m}
  BY DEF InstallReceipt
<1>4. BundleAgrees(doc.acts["bundle"])'
  BY <1>3 DEF BundleAgrees
<1>5. "active" \in doc.posts
  BY <1>3 DEF PostAt, Roles, Kinds
<1>6. SelectorSound(doc)'
  BY <1>3, <1>5 DEF SelectorSound
<1>7. StatusSound(doc)'
  <2>1. 32 < m => doc.posts = Roles
    <3>1. \A r \in Roles : PostAt[r] \in 4..31
      BY DEF PostAt, Roles, Kinds
    <3>2. 32 < m => \A r \in Roles : PostAt[r] < m
      BY <3>1
    <3>3. QED BY <1>3, <3>2
  <2>2. doc.status = "INSTALLED" =>
          /\ ~Waiting' /\ doc.posts = Roles /\ doc.acts["bundle"].state \in {"STAGED", "CLEANED"}
          /\ \A k \in Kinds : /\ doc.acts[k].state = "COMPLETED" /\ ~doc.acts[k].semantic
                              /\ RowIs(k, "post", "none", Pre(k))'
    <3>1. doc.status = "INSTALLED" => 32 < m /\ 30 < m /\ m >= 6 /\ 9 < m
      BY <1>3
    <3>2. QED BY <1>2, <1>3, <2>1, <3>1
  <2>3. Waiting' => /\ m = 5 /\ doc.posts \subseteq {"active"}
                    /\ \A k \in Kinds \cup {"bundle"} : doc.acts[k].state = "unplanned"
    <3>1. Waiting' => m = 5 /\ m <= 6
      OBVIOUS
    <3>2. m = 5 => doc.posts \subseteq {"active"}
      BY <1>3 DEF PostAt, Roles, Kinds
    <3>3. QED BY <1>2, <1>3, <3>1, <3>2
  <2>4. doc.status # "ROLLED_BACK"
    BY <1>3
  <2>5. QED BY <2>2, <2>3, <2>4 DEF StatusSound
<1>8. "codex" \in Kinds
  BY DEF Kinds
<1>9. QED BY <1>2, <1>3, <1>4, <1>6, <1>7, <1>8 DEF DocSound, Merging


\* The selectors of an install once its receipt is published.
LEMMA InstallShown ==
    ASSUME Base, Phase, Running("install"), proc.at >= 4
    PROVE  /\ Bare("active") /\ Shown = <<"new", PrevActive>> /\ (proc.at >= 6 => ~Waiting)
           /\ BundleAgrees(Doc.acts["bundle"])
<1>1. /\ proc.at \in 1..34 /\ (\A f \in Files : ~Busy(f)) /\ DocSound(Doc)
      /\ InstallReceipt(Doc, proc.at) /\ InstallSelectors(proc.at)
  <2>1. proc.at \in 1..34 /\ (proc.at >= 3 => Known(Doc) = Doc)
    BY InstallAt
  <2>2. Known(Doc) = Doc
    BY <2>1
  <2>3. QED BY <2>2, InstallAt
<1>2. (proc.at >= 6 => ~Waiting) /\ BundleAgrees(Doc.acts["bundle"])
  BY <1>1 DEF InstallSelectors, DocSound
<1>a. Bare("active") <=> json["active"].temp = "none"
  BY Empties DEF Bare
<1>3. ASSUME proc.at = 4 PROVE Bare("active") /\ Shown = <<"new", PrevActive>>
  BY <1>1, <1>3, <1>a DEF InstallSelectors, Files, Shown, Mine
<1>4. ASSUME proc.at >= 5 PROVE Bare("active") /\ Shown = <<"new", PrevActive>>
  <2>1. "active" \in Doc.posts /\ Doc.status \in {"PREPARED", "INSTALLED"}
    BY <1>1, <1>4 DEF InstallReceipt, PostAt, Roles, Kinds
  <2>2. SelectorSound(Doc)
    BY <1>1 DEF DocSound
  <2>3. QED BY <2>1, <2>2 DEF SelectorSound
<1>5. QED BY <1>1, <1>2, <1>3, <1>4

\* An install journals the receipt of its next step.
LEMMA InstallJournal ==
    ASSUME Base, Phase, Running("install"), proc.at = 4 \/ proc.at >= 6, UNCHANGED <<had, rstage, json, backup, outcome, spent>>,
           MachineTyped', NEW m \in 5..34, m \in {proc.at, proc.at + 1}, NEW doc \in Receipts,
           Journal(doc, "install", m), InstallReceipt(doc, m)', DocSound(Known(Doc))',
           doc.acts["bundle"].state \in {"unplanned", "CLEANED"} => bundle' = "none"
    PROVE  Base' /\ Phase'
<1>1. /\ proc.at \in 1..34 /\ rstage = "none" /\ Open /\ proc.write.step = "none" /\ proc.pc # "idle" /\ proc.cmd = "install"
      /\ Bare("receipt") /\ Parsed(Doc) /\ Known(Doc) = Doc /\ json["pending"].temp = "none"
      /\ InstallReceipt(Doc, proc.at)
  <2>1. /\ proc.at \in 1..34 /\ (proc.at >= 3 => Known(Doc) = Doc /\ Parsed(Doc) /\ json["pending"].temp = "none")
    BY InstallAt
  <2>2. Known(Doc) = Doc /\ Parsed(Doc) /\ json["pending"].temp = "none"
    BY <2>1
  <2>3. proc.write.step = "none" /\ proc.pc # "idle"
    BY DEF Running
  <2>4. QED BY <2>1, <2>2, <2>3, InstallAt
<1>2. /\ ProcTyped' /\ proc'.cmd = proc.cmd /\ proc'.pc = "install" /\ proc'.at = m
      /\ proc'.write = [step |-> "create", file |-> "receipt", value |-> doc]
      /\ Busy("receipt")' /\ ~Busy("pending")' /\ ~Busy("active")'
  <2>1. Publish("receipt", doc, "create", "install", m)
    BY DEF Journal
  <2>2. "receipt" \in Files /\ "install" \in Phases \ {"idle"} /\ "create" \in {"create", "finish"} /\ m \in 0..34
    BY DEF Files, Phases
  <2>3. QED BY ZenonT(60), <1>1, <2>1, <2>2, WriteBegins DEF Files
<1>3. Bare("active") /\ Shown = <<"new", PrevActive>> /\ (proc.at >= 6 => ~Waiting)
  BY <1>1, InstallShown
<1>4. Bare("active")' /\ Shown' = <<"new", PrevActive'>> /\ (Waiting' <=> Waiting)
  BY <1>3 DEF Bare, Shown, PrevActive, Waiting
<1>5. m >= 6 => ~Waiting'
  BY <1>1, <1>3, <1>4
<1>6. DocSound(doc)' /\ ~Merging(doc) /\ doc.status \in {"PREPARED", "INSTALLED"}
  BY <1>1, <1>4, <1>5, InstallDocSound
<1>7. ~Merging(Doc) /\ Doc.status # "ROLLED_BACK"
  BY <1>1 DEF InstallReceipt, InstallRow, Merging, Kinds
<1>8. Base' /\ Coming' = doc /\ (Bare("receipt") /\ Busy("receipt"))'
  <2>1. RestTyped' /\ UNCHANGED had
    BY DEF Base, Typed, RestTyped
  <2>2. Merging(Known(Doc)) = Merging(doc)
    <3>1. Doc.acts["codex"].semantic \in BOOLEAN /\ doc.acts["codex"].semantic \in BOOLEAN
      BY KnownDoc, <1>1 DEF Receipts, Kinds
    <3>2. QED BY <1>1, <1>6, <1>7, <3>1 DEF Merging
  <2>3. QED BY <1>1, <1>2, <1>6, <1>7, <2>1, <2>2, JournalKeeps
<1>9. InstallReceipt(Coming, m)'
  BY <1>8
<1>10. InstallSelectors(m)'
  BY <1>2, <1>5 DEF InstallSelectors
<1>11. ReceiptBare' /\ Open'
  BY <1>1, <1>8 DEF ReceiptBare, Open
<1>12. m \in 1..34 /\ rstage' = "none"
  BY <1>1
<1>13. QED BY <1>1, <1>2, <1>8, <1>9, <1>10, <1>11, <1>12, InstallPhase


\* A receipt with one action rewritten.
ActTypes == [state : {"unplanned", "PLANNED", "STAGED", "SWAPPED", "PARKED", "PUBLISHED",
                      "COMPLETED", "SEMANTIC_STAGED", "SEMANTIC_SWAPPED", "RESTORING",
                      "RESTORED", "CLEANED"},
             post : {"null", "post", "part"},
             recovery : {"null", "none", "pre", "post", "part"},
             semantic : BOOLEAN]

\* A receipt with one action rewritten.
LEMMA ActSet ==
    ASSUME Doc \in Receipts, NEW k \in Kinds \cup {"bundle"}, NEW act \in ActTypes, NEW doc, doc = WithAct(k, act)
    PROVE  /\ doc \in Receipts /\ doc.acts[k] = act /\ doc.posts = Doc.posts /\ doc.status = Doc.status
           /\ \A j \in (Kinds \cup {"bundle"}) \ {k} : doc.acts[j] = Doc.acts[j]
BY DEF WithAct, Receipts, ActTypes

\* An action in the making.
LEMMA KnownSame ==
    ASSUME Base, UNCHANGED <<had, place, rstage, bundle, backup, json>>
    PROVE  DocSound(Known(Doc))'
<1>1. PICK d : d = Known(Doc)
  OBVIOUS
<1>2. Known(Doc)' = d /\ (Waiting' <=> Waiting)
  BY <1>1 DEF Known, Doc, Waiting
<1>3. DocSound(d)'
  BY <1>1, <1>2, KnownDoc, SoundSame
<1>4. QED BY <1>2, <1>3

\* No step is an event of two objects.
LEMMA OneEvent ==
    ASSUME NEW k \in Kinds, NEW j \in Kinds, j # k,
           NEW n \in {PlanAt[k], FillAt[k], RecordAt[k], ForwardAt[k]}
    PROVE  n \notin {PlanAt[j], FillAt[j], RecordAt[j], ForwardAt[j]}
BY DEF Kinds, PlanAt, FillAt, RecordAt, ForwardAt

\* The steps of an object that come before it is published.
LEMMA NoPost ==
    ASSUME NEW k \in Kinds, NEW n \in {PlanAt[k], FillAt[k], RecordAt[k], ForwardAt[k]}
    PROVE  n \in 10..30 /\ \A r \in Roles : n # PostAt[r]
BY DEF Kinds, Roles, PlanAt, FillAt, RecordAt, ForwardAt, PostAt

\* The receipt of the next step, by its parts.
LEMMA ReceiptNext ==
    ASSUME NEW n \in 1..33, NEW old, NEW new, InstallReceipt(old, n),
           \A k \in Kinds : InstallRow(k, new.acts[k], n + 1)',
           new.acts["bundle"].state = IF n = 6 THEN "PLANNED" ELSE IF n = 9 THEN "STAGED"
                                      ELSE IF n = 33 THEN "CLEANED" ELSE old.acts["bundle"].state,
           new.status = IF n = 32 THEN "INSTALLED" ELSE old.status,
           new.posts = old.posts \cup {r \in Roles : PostAt[r] = n}
    PROVE  InstallReceipt(new, n + 1)'
<1>1. /\ n <= 6 => old.acts["bundle"].state = "unplanned"
      /\ 6 < n /\ n <= 9 => old.acts["bundle"].state = "PLANNED"
      /\ 9 < n /\ n <= 33 => old.acts["bundle"].state = "STAGED"
      /\ old.status = IF n <= 32 THEN "PREPARED" ELSE "INSTALLED"
      /\ old.posts = {r \in Roles : PostAt[r] < n}
  BY DEF InstallReceipt
<1>2. /\ n + 1 <= 6 => new.acts["bundle"].state = "unplanned"
      /\ 6 < n + 1 /\ n + 1 <= 9 => new.acts["bundle"].state = "PLANNED"
      /\ 9 < n + 1 /\ n + 1 <= 33 => new.acts["bundle"].state = "STAGED"
      /\ n + 1 = 34 => new.acts["bundle"].state = "CLEANED"
  BY <1>1
<1>3. new.status = IF n + 1 <= 32 THEN "PREPARED" ELSE "INSTALLED"
  BY <1>1
<1>4. new.posts = {r \in Roles : PostAt[r] < n + 1}
  <2>1. \A r \in Roles : PostAt[r] \in 4..31
    BY DEF PostAt, Roles, Kinds
  <2>2. \A r \in Roles : PostAt[r] < n + 1 <=> PostAt[r] < n \/ PostAt[r] = n
    BY <2>1
  <2>3. QED BY <1>1, <2>2
<1>5. PICK m : m = n + 1
  OBVIOUS
<1>6. InstallReceipt(new, m)'
  BY <1>2, <1>3, <1>4, <1>5 DEF InstallReceipt
<1>7. QED BY <1>5, <1>6

\* The rows of the objects that a step is not about.
LEMMA RowsKept ==
    ASSUME NEW n \in 1..33, NEW old, NEW new, NEW S \in SUBSET Kinds, InstallReceipt(old, n), UNCHANGED had,
           \A j \in S : place'[j] = place[j] /\ new.acts[j] = old.acts[j],
           \A j \in S : n \notin {PlanAt[j], FillAt[j], RecordAt[j], ForwardAt[j]}
    PROVE  \A j \in S : InstallRow(j, new.acts[j], n + 1)'
<1>1. ASSUME NEW j \in S PROVE InstallRow(j, new.acts[j], n + 1)'
  <2>1. j \in Kinds /\ place'[j] = place[j] /\ new.acts[j] = old.acts[j]
        /\ n \notin {PlanAt[j], FillAt[j], RecordAt[j], ForwardAt[j]}
    BY <1>1
  <2>2. InstallRow(j, old.acts[j], n)
    BY <2>1 DEF InstallReceipt
  <2>3. InstallRow(j, old.acts[j], n + 1)'
    BY <2>1, <2>2, RowKept
  <2>4. QED BY <2>1, <2>3
<1>2. QED BY <1>1


\* A receipt write of the install that no rename goes with.
LEMMA InstallRecord ==
    ASSUME Base, Phase, Running("install"), NEW n \in 4..33, n # 5, proc.at = n,
           UNCHANGED <<machine, json, outcome, spent>>,
           NEW doc \in Receipts, Write("receipt", doc),
           \A k \in Kinds : InstallRow(k, doc.acts[k], n + 1)',
           doc.acts["bundle"].state = IF n = 6 THEN "PLANNED" ELSE IF n = 9 THEN "STAGED"
                                      ELSE IF n = 33 THEN "CLEANED" ELSE Doc.acts["bundle"].state,
           doc.status = IF n = 32 THEN "INSTALLED" ELSE Doc.status,
           doc.posts = Doc.posts \cup {r \in Roles : PostAt[r] = n},
           n # 33
    PROVE  Base' /\ Phase'
<1>1. InstallReceipt(Doc, n) /\ BundleAgrees(Doc.acts["bundle"])
  <2>1. Known(Doc) = Doc /\ InstallReceipt(Known(Doc), proc.at) /\ proc.at >= 4
    BY InstallAt
  <2>2. QED BY <2>1, InstallShown
<1>2. InstallReceipt(doc, n + 1)'
  <2>1. n \in 1..33
    OBVIOUS
  <2>2. QED BY <1>1, <2>1, ReceiptNext
<1>3. PICK m : m = n + 1
  OBVIOUS
<1>4. InstallReceipt(doc, m)' /\ m \in 5..34 /\ m \in {proc.at, proc.at + 1} /\ Journal(doc, "install", m)
  BY <1>2, <1>3 DEF Write, Journal
<1>5. UNCHANGED <<had, place, rstage, bundle, backup>> /\ MachineTyped'
  BY DEF machine, Base, Typed, MachineTyped
<1>6. DocSound(Known(Doc))'
  BY <1>5, KnownSame
<1>7. doc.acts["bundle"].state \in {"unplanned", "CLEANED"} => bundle' = "none"
  BY <1>1, <1>5 DEF BundleAgrees
<1>8. proc.at = 4 \/ proc.at >= 6
  OBVIOUS
<1>9. QED BY <1>4, <1>5, <1>6, <1>7, <1>8, InstallJournal

\* An install journals what it planned, staged or published.
LEMMA RecordKeeps ==
    ASSUME Base, Phase, Record
    PROVE  Base' /\ Phase'
<1>1. PICK n : n = proc.at
  OBVIOUS
<1>2. /\ Running("install") /\ UNCHANGED <<machine, json, outcome, spent>>
      /\ UNCHANGED <<had, place, rstage, bundle, backup>>
      /\ Program[n].op \in {"plan", "record", "post", "verified"} /\ Subject = Program[n].on
  BY <1>1 DEF Record, Doing, machine, Subject
<1>3. n \in 1..34
  BY <1>1, <1>2, InstallAt
<1>4. n \in 4..33 /\ n # 5 /\ n # 33
  <2>1. PICK k : k = Program[n].on
    OBVIOUS
  <2>2. k \in Kinds => PlanAt[k] \in 10..26 /\ RecordAt[k] \in 13..29 /\ PostAt[k] \in 15..31
    BY Distances
  <2>3. \/ n = 6 \/ (k \in Kinds /\ n = PlanAt[k]) \/ n = 9 \/ (k \in Kinds /\ n = RecordAt[k])
        \/ n = 4 \/ (k \in Kinds /\ n = PostAt[k]) \/ n = 32
    BY <1>2, <1>3, <2>1, StepNumbers
  <2>4. QED BY <2>2, <2>3
<1>5. /\ Known(Doc) = Doc /\ Doc \in Receipts /\ InstallReceipt(Doc, n)
  BY <1>1, <1>2, <1>4, InstallAt
<1>6. \A k \in Kinds : InstallRow(k, Doc.acts[k], n)
  BY <1>5 DEF InstallReceipt
<1>7. CASE Program[n].op \in {"post", "verified"}
  <2>1. PICK doc : \/ /\ Program[n].op = "post" /\ doc = [Doc EXCEPT !.posts = @ \cup {Subject}]
                   \/ /\ Program[n].op = "verified" /\ doc = [Doc EXCEPT !.status = "INSTALLED"]
    BY <1>7
  <2>2. Write("receipt", doc)
    BY <1>1, <1>7, <2>1 DEF Record, Doing
  <2>3. Program[n].op = "post" => Subject \in Roles /\ n = PostAt[Subject] /\ n # 32
    <3>1. PostAt["active"] = 4 /\ "active" \in Roles /\ Kinds \subseteq Roles
      BY DEF PostAt, Roles
    <3>2. Program[n].op = "post" => \/ Program[n].on = "active" /\ n = 4
                                    \/ Program[n].on \in Kinds /\ n = PostAt[Program[n].on]
      BY <1>3, StepNumbers
    <3>3. \A k \in Kinds : PostAt[k] \in 15..31
      BY Distances
    <3>4. QED BY <1>2, <3>1, <3>2, <3>3
  <2>4. /\ doc \in Receipts /\ doc.acts = Doc.acts
        /\ Program[n].op = "post" => doc.posts = Doc.posts \cup {Subject} /\ doc.status = Doc.status
        /\ Program[n].op = "verified" => doc.posts = Doc.posts /\ doc.status = "INSTALLED"
    BY <1>5, <2>1, <2>3 DEF Receipts
  <2>5. n \notin {6, 9, 33} /\ \A k \in Kinds : n \notin {PlanAt[k], FillAt[k], RecordAt[k], ForwardAt[k]}
    <3>1. CASE Program[n].op = "verified"
      <4>1. n = 32
        BY <1>3, <3>1, StepNumbers
      <4>2. QED BY <4>1, Distances
    <3>2. CASE Program[n].op = "post"
      BY <2>3, <3>2, NoPost DEF PostAt, Roles, Kinds
    <3>3. QED BY <1>7, <3>1, <3>2
  <2>6. \A k \in Kinds : InstallRow(k, doc.acts[k], n + 1)'
    <3>1. n \in 1..33 /\ Kinds \in SUBSET Kinds
      BY <1>4
    <3>2. \A k \in Kinds : place'[k] = place[k] /\ doc.acts[k] = Doc.acts[k]
      BY <1>2, <2>4
    <3>3. QED BY <1>2, <1>5, <2>5, <3>1, <3>2, RowsKept
  <2>7. doc.posts = Doc.posts \cup {r \in Roles : PostAt[r] = n}
    <3>1. CASE Program[n].op = "post"
      <4>1. {r \in Roles : PostAt[r] = n} = {Subject}
        BY <2>3, <3>1 DEF PostAt, Roles, Kinds
      <4>2. QED BY <2>4, <3>1, <4>1
    <3>2. CASE Program[n].op = "verified"
      <4>1. n = 32
        BY <1>3, <3>2, StepNumbers
      <4>2. {r \in Roles : PostAt[r] = n} = {}
        BY <4>1 DEF PostAt, Roles, Kinds
      <4>3. QED BY <2>4, <3>2, <4>2
    <3>3. QED BY <1>7, <3>1, <3>2
  <2>8. doc.status = IF n = 32 THEN "INSTALLED" ELSE Doc.status
    BY <1>3, <1>7, <2>3, <2>4, StepNumbers
  <2>9. doc.acts["bundle"].state = IF n = 6 THEN "PLANNED" ELSE IF n = 9 THEN "STAGED"
                                      ELSE IF n = 33 THEN "CLEANED" ELSE Doc.acts["bundle"].state
    BY <2>4, <2>5
  <2>10. QED BY <1>1, <1>2, <1>4, <2>2, <2>4, <2>6, <2>7, <2>8, <2>9, InstallRecord
<1>8. CASE Program[n].op \in {"plan", "record"}
  <2>1. PICK k, act, doc : /\ k = Subject /\ doc = WithAct(k, act) /\ Write("receipt", doc)
                           /\ \/ Program[n].op = "plan" /\ act = [Unplanned EXCEPT !.state = "PLANNED"]
                              \/ Program[n].op = "record" /\ act = [Unplanned EXCEPT !.state = "STAGED", !.post = "post"]
    BY <1>1, <1>8 DEF Record, Doing
  <2>2. /\ act \in ActTypes /\ ~act.semantic
        /\ Program[n].op = "plan" => act.state = "PLANNED"
        /\ Program[n].op = "record" => act.state = "STAGED" /\ act.post = "post"
    BY <2>1 DEF Unplanned, ActTypes
  <2>3. /\ Program[n].op = "plan" => (k = "bundle" /\ n = 6) \/ (k \in Kinds /\ n = PlanAt[k])
        /\ Program[n].op = "record" => (k = "bundle" /\ n = 9) \/ (k \in Kinds /\ n = RecordAt[k])
    BY <1>2, <1>3, <2>1, StepNumbers
  <2>4. k \in Kinds \cup {"bundle"}
    BY <1>8, <2>3
  <2>5. /\ doc \in Receipts /\ doc.acts[k] = act /\ doc.posts = Doc.posts /\ doc.status = Doc.status
        /\ \A j \in (Kinds \cup {"bundle"}) \ {k} : doc.acts[j] = Doc.acts[j]
    BY <1>5, <2>1, <2>2, <2>4, ActSet
  <2>6. CASE k = "bundle"
    <3>1. n \in {6, 9} /\ (n = 6 => act.state = "PLANNED") /\ (n = 9 => act.state = "STAGED")
      BY <1>8, <2>2, <2>3, <2>6 DEF Kinds
    <3>2. \A j \in Kinds : n \notin {PlanAt[j], FillAt[j], RecordAt[j], ForwardAt[j]}
      BY <3>1, Distances
    <3>3. \A j \in Kinds : place'[j] = place[j] /\ doc.acts[j] = Doc.acts[j]
      BY <1>2, <2>5, <2>6 DEF Kinds
    <3>4. \A j \in Kinds : InstallRow(j, doc.acts[j], n + 1)'
      <4>1. n \in 1..33 /\ Kinds \in SUBSET Kinds
        BY <1>4
      <4>2. QED BY <1>2, <1>5, <3>2, <3>3, <4>1, RowsKept
    <3>5. {r \in Roles : PostAt[r] = n} = {}
      BY <3>1 DEF PostAt, Roles, Kinds
    <3>6. doc.acts["bundle"].state = IF n = 6 THEN "PLANNED" ELSE IF n = 9 THEN "STAGED"
                                      ELSE IF n = 33 THEN "CLEANED" ELSE Doc.acts["bundle"].state
      BY <2>5, <2>6, <3>1
    <3>7. doc.posts = Doc.posts \cup {r \in Roles : PostAt[r] = n} /\ doc.status = IF n = 32 THEN "INSTALLED" ELSE Doc.status
      BY <2>5, <3>1, <3>5
    <3>8. QED BY <1>1, <1>2, <1>4, <2>1, <2>5, <3>4, <3>6, <3>7, InstallRecord
  <2>7. CASE k \in Kinds
    <3>1. /\ n \in {PlanAt[k], RecordAt[k]} /\ (n = PlanAt[k] => act.state = "PLANNED")
          /\ (n = RecordAt[k] => act.state = "STAGED" /\ act.post = "post")
      BY <1>8, <2>2, <2>3, <2>7, Distances DEF Kinds
    <3>2. n \in 10..30 /\ \A r \in Roles : n # PostAt[r]
      BY <2>7, <3>1, NoPost
    <3>3. \A j \in Kinds \ {k} : n \notin {PlanAt[j], FillAt[j], RecordAt[j], ForwardAt[j]}
      BY <2>7, <3>1, OneEvent
    <3>4. \A j \in Kinds \ {k} : InstallRow(j, doc.acts[j], n + 1)'
      <4>1. n \in 1..33 /\ Kinds \ {k} \in SUBSET Kinds
        BY <1>4
      <4>2. \A j \in Kinds \ {k} : place'[j] = place[j] /\ doc.acts[j] = Doc.acts[j]
        BY <1>2, <2>5
      <4>3. QED BY <1>2, <1>5, <3>3, <4>1, <4>2, RowsKept
    <3>5. InstallRow(k, doc.acts[k], n + 1)'
      <4>1. InstallRow(k, Doc.acts[k], n) /\ doc.acts[k] = act
        BY <1>6, <2>5, <2>7
      <4>2. (\A t, s, r : At(k, t, s, r)' <=> At(k, t, s, r)) /\ Pre(k)' = Pre(k) /\ place'[k] = place[k]
        BY <1>2 DEF At, Pre
      <4>3. PICK m : m = n + 1
        OBVIOUS
      <4>4. CASE n = PlanAt[k]
        <5>1. PlanAt[k] < m /\ m <= FillAt[k] /\ m <= RecordAt[k] /\ ~(m <= PlanAt[k]) /\ ~(RecordAt[k] < m)
              /\ m # ForwardAt[k] /\ ~(ForwardAt[k] < m) /\ n <= PlanAt[k]
          BY <2>7, <4>3, <4>4, Distances
        <5>2. At(k, Pre(k), "none", "none") /\ place[k].stage = "none"
          BY <4>1, <5>1 DEF InstallRow, At
        <5>3. InstallRow(k, act, m)'
          BY <2>2, <3>1, <4>2, <4>4, <5>1, <5>2 DEF InstallRow
        <5>4. QED BY <4>1, <4>3, <5>3
      <4>5. CASE n = RecordAt[k]
        <5>1. RecordAt[k] < m /\ m <= ForwardAt[k] /\ ~(m <= RecordAt[k]) /\ ~(m <= PlanAt[k])
              /\ ~(ForwardAt[k] < m) /\ PlanAt[k] < n /\ n <= RecordAt[k] /\ ~(n <= FillAt[k])
          BY <2>7, <4>3, <4>5, Distances
        <5>2. At(k, Pre(k), "post", "none")
          BY <4>1, <5>1 DEF InstallRow, At
        <5>3. InstallRow(k, act, m)'
          BY <2>2, <3>1, <4>2, <4>5, <5>1, <5>2 DEF InstallRow
        <5>4. QED BY <4>1, <4>3, <5>3
      <4>6. QED BY <3>1, <4>4, <4>5
    <3>6. \A j \in Kinds : InstallRow(j, doc.acts[j], n + 1)'
      BY <3>4, <3>5
    <3>7. doc.acts["bundle"] = Doc.acts["bundle"]
      BY <2>5, <2>7 DEF Kinds
    <3>8. /\ doc.acts["bundle"].state = IF n = 6 THEN "PLANNED" ELSE IF n = 9 THEN "STAGED"
                                      ELSE IF n = 33 THEN "CLEANED" ELSE Doc.acts["bundle"].state
          /\ doc.status = IF n = 32 THEN "INSTALLED" ELSE Doc.status
      BY <2>5, <3>2, <3>7
    <3>9. doc.posts = Doc.posts \cup {r \in Roles : PostAt[r] = n}
      BY <2>5, <3>2
    <3>10. QED BY <1>1, <1>2, <1>4, <2>1, <2>5, <3>6, <3>8, <3>9, InstallRecord
  <2>8. QED BY <2>4, <2>6, <2>7
<1>9. QED BY <1>2, <1>7, <1>8


\* A step of an install that stages something and writes nothing.
LEMMA InstallStages ==
    ASSUME Base, Phase, Running("install"), NEW n \in 6..31, n \notin {6, 9}, \A r \in Roles : n # PostAt[r],
           proc.at = n, Next1, UNCHANGED <<had, rstage, json, backup, outcome, spent>>, MachineTyped',
           NEW doc, doc = Doc, \A k \in Kinds : InstallRow(k, doc.acts[k], n + 1)',
           doc.acts["bundle"].state \in {"unplanned", "CLEANED"} => bundle' = "none"
    PROVE  Base' /\ Phase'
<1>1. /\ rstage = "none" /\ Open /\ proc.write.step = "none" /\ proc.cmd = "install"
      /\ Bare("receipt") /\ Parsed(Doc) /\ Known(Doc) = Doc /\ Doc \in Receipts /\ DocSound(Doc)
      /\ InstallReceipt(Doc, n) /\ InstallSelectors(n) /\ \A f \in Files : ~Busy(f)
      /\ proc = [cmd |-> "install", pc |-> "install", at |-> n, write |-> Quiet]
  <2>1. /\ Known(Doc) = Doc /\ Parsed(Doc) /\ Doc \in Receipts
    BY InstallAt
  <2>2. proc.write.step = "none"
    BY DEF Running
  <2>3. QED BY <2>1, <2>2, InstallAt
<1>2. /\ proc' = [cmd |-> "install", pc |-> "install", at |-> n + 1, write |-> Quiet]
  BY <1>1 DEF Next1
<1>3. PICK m \in 7..32 : m = n + 1
  OBVIOUS
<1>4. /\ proc'.cmd = "install" /\ proc'.pc = "install" /\ proc'.at = m /\ proc'.write = Quiet
      /\ \A f \in Files : ~Busy(f)'
  BY <1>2, <1>3, Empties DEF Busy
<1>5. ProcTyped'
  BY <1>2, <1>3, <1>4, Empties DEF ProcTyped, Phases, Files
<1>6. InstallReceipt(doc, m)'
  <2>1. {r \in Roles : PostAt[r] = n} = {} /\ n \in 1..33 /\ n \notin {6, 9, 32, 33}
    OBVIOUS
  <2>2. doc.posts = doc.posts \cup {r \in Roles : PostAt[r] = n}
    BY <2>1
  <2>3. InstallReceipt(doc, n)
    BY <1>1
  <2>4. QED BY <1>3, <2>1, <2>2, <2>3, ReceiptNext
<1>7. Bare("active") /\ Shown = <<"new", PrevActive>> /\ ~Waiting
  BY InstallShown
<1>8. Bare("active")' /\ Shown' = <<"new", PrevActive'>> /\ ~Waiting' /\ Doc' = Doc /\ Known(Doc)' = Known(Doc)
  BY <1>7 DEF Bare, Shown, PrevActive, Waiting, Doc, Known
<1>9. DocSound(doc)'
  BY <1>1, <1>3, <1>6, <1>8, InstallDocSound
<1>10. DocSound(Known(Doc))'
  BY <1>1, <1>8, <1>9
<1>11. Base' /\ Coming' = Known(Doc) /\ Bare("receipt")'
  <2>1. RestTyped' /\ UNCHANGED had
    BY DEF Base, Typed, RestTyped
  <2>2. QED BY <1>1, <1>4, <1>5, <1>9, <1>10, <2>1, MachineKeeps
<1>12. InstallReceipt(Coming, m)'
  BY <1>1, <1>6, <1>11
<1>13. InstallSelectors(m)'
  <2>1. Parsed(Doc)'
    BY <1>1, <1>8
  <2>2. QED BY <1>3, <1>4, <1>8, <2>1 DEF InstallSelectors, Files
<1>14. ReceiptBare' /\ m \in 1..34 /\ rstage' = "none"
  BY <1>1, <1>3, <1>11 DEF ReceiptBare
<1>15. Open'
  BY <1>1 DEF Open
<1>16. QED BY <1>4, <1>11, <1>12, <1>13, <1>14, <1>15, InstallPhase

\* The stage of an object is made, or filled.
LEMMA StagedKeeps ==
    ASSUME Base, Phase, NEW k \in Kinds, NEW n \in 1..34, n = proc.at, NEW image \in {"part", "post"},
           Running("install"), Subject = k, Staged(image),
           \/ n = FillAt[k] /\ image = "post"
           \/ image = "part" /\ ((k = "runtime" /\ n = 11) \/ (k = "codex" /\ n = 27))
    PROVE  Base' /\ Phase'
<1>1. /\ PlanAt[k] \in 10..26 /\ FillAt[k] \in 12..28 /\ RecordAt[k] \in 13..29 /\ ForwardAt[k] \in 14..30
      /\ PlanAt[k] < FillAt[k] /\ FillAt[k] < RecordAt[k] /\ RecordAt[k] < ForwardAt[k]
  BY Distances
<1>a. PlanAt[k] < n /\ n <= FillAt[k] /\ (image = "part" => n < FillAt[k])
  BY <1>1 DEF PlanAt, FillAt, Kinds
<1>2. n \in 10..28 /\ n \in 6..31 /\ n \notin {6, 9} /\ n \in 1..33
  BY <1>1, <1>a
<1>3. \A r \in Roles : n # PostAt[r]
  BY DEF Kinds, Roles, PlanAt, FillAt, PostAt
<1>4. /\ Parsed(Doc) /\ Known(Doc) = Doc /\ InstallReceipt(Doc, n) /\ \A f \in Files : ~Busy(f)
  BY <1>2, InstallAt
<1>5. PICK doc : doc = Doc
  OBVIOUS
<1>6. /\ Next1 /\ UNCHANGED <<had, rstage, bundle, json, backup, outcome, spent>>
      /\ place' = [place EXCEPT ![k].stage = image]
  BY DEF Staged
<1>7. place \in [Kinds -> PlaceTypes]
  BY DEF Base, Typed, MachineTyped
<1>8. /\ place' \in [Kinds -> PlaceTypes] /\ place'[k] = [place[k] EXCEPT !.stage = image]
      /\ \A j \in Kinds \ {k} : place'[j] = place[j]
  BY <1>6, <1>7 DEF PlaceTypes
<1>9. MachineTyped'
  BY <1>6, <1>8 DEF Base, Typed, MachineTyped
<1>10. \A j \in Kinds \ {k} : n \notin {PlanAt[j], FillAt[j], RecordAt[j], ForwardAt[j]}
  BY DEF Kinds, PlanAt, FillAt, RecordAt, ForwardAt
<1>11. \A j \in Kinds \ {k} : InstallRow(j, doc.acts[j], n + 1)'
  <2>1. Kinds \ {k} \in SUBSET Kinds /\ InstallReceipt(doc, n) /\ UNCHANGED had
    BY <1>4, <1>5, <1>6
  <2>2. QED BY ZenonT(60), <1>2, <1>8, <1>10, <2>1, RowsKept
<1>12. InstallRow(k, doc.acts[k], n + 1)'
  <2>1. InstallRow(k, doc.acts[k], n)
    BY <1>4, <1>5 DEF InstallReceipt
  <2>2. /\ PlanAt[k] < n /\ n <= RecordAt[k] /\ n <= FillAt[k]
    BY <1>1, <1>a
  <2>3. /\ doc.acts[k].state = "PLANNED" /\ At(k, Pre(k), place[k].stage, "none") /\ ~doc.acts[k].semantic
    BY <2>1, <2>2 DEF InstallRow
  <2>4. At(k, Pre(k), image, "none")' /\ place'[k].stage = image
    <3>1. place[k] = [target |-> Pre(k), stage |-> place[k].stage, recovery |-> "none"]
      BY <2>3 DEF At
    <3>2. PICK t, s : t = Pre(k) /\ s = place[k].stage
      OBVIOUS
    <3>3. place[k] = [target |-> t, stage |-> s, recovery |-> "none"]
      BY <3>1, <3>2
    <3>4. place'[k] = [target |-> t, stage |-> image, recovery |-> "none"]
      BY <1>8, <3>3
    <3>5. Pre(k)' = t
      BY <1>6, <3>2 DEF Pre
    <3>6. QED BY <3>4, <3>5 DEF At
  <2>5. PICK m : m = n + 1
    OBVIOUS
  <2>6. /\ PlanAt[k] < m /\ m <= RecordAt[k] /\ ~(m <= PlanAt[k]) /\ ~(RecordAt[k] < m) /\ m # ForwardAt[k]
        /\ ~(ForwardAt[k] < m) /\ (m <= FillAt[k] <=> n # FillAt[k])
    BY <1>1, <2>2, <2>5
  <2>7. place'[k].stage \in IF m <= FillAt[k] THEN {"none", "part"} ELSE {"post"}
    BY <1>a, <2>4, <2>6
  <2>8. InstallRow(k, doc.acts[k], m)'
    BY <2>3, <2>4, <2>6, <2>7 DEF InstallRow
  <2>9. QED BY <2>5, <2>8
<1>13. \A j \in Kinds : InstallRow(j, doc.acts[j], n + 1)'
  BY <1>11, <1>12
<1>14. doc.acts["bundle"].state \in {"unplanned", "CLEANED"} => bundle' = "none"
  <2>1. proc.at >= 4
    BY <1>2
  <2>2. BundleAgrees(Doc.acts["bundle"])
    BY <2>1, InstallShown
  <2>3. QED BY <1>5, <1>6, <2>2 DEF BundleAgrees
<1>15. QED BY <1>2, <1>3, <1>5, <1>6, <1>9, <1>13, <1>14, InstallStages

\* An install opens and fills the stage of an object.
LEMMA StagingKeeps ==
    ASSUME Base, Phase, OpenStage \/ StageRuntime \/ StageCodex \/ StageBlender
    PROVE  Base' /\ Phase'
<1>1. PICK n : n = proc.at
  OBVIOUS
<1>2. PICK k : k = Subject
  OBVIOUS
<1>3. Running("install") /\ Program[n].on = k /\ n \in 1..34
  <2>1. Running("install") /\ Program[n].on = k
    BY <1>1, <1>2 DEF OpenStage, StageRuntime, StageCodex, StageBlender, DoingOn, Doing, Subject
  <2>2. QED BY <1>1, <2>1, InstallAt
<1>4. CASE OpenStage
  <2>1. Staged("part") /\ Program[n].op = "open" /\ k # "bundle"
    BY <1>1, <1>2, <1>4 DEF OpenStage, Doing
  <2>2. k \in Kinds /\ ((k = "runtime" /\ n = 11) \/ (k = "codex" /\ n = 27))
    BY <1>3, <2>1, StepNumbers DEF Kinds
  <2>3. QED BY <1>1, <1>2, <1>3, <2>1, <2>2, StagedKeeps
<1>5. CASE StageRuntime \/ StageCodex \/ StageBlender
  <2>1. Staged("post") /\ (Program[n].op = "move" \/ (Program[n].op = "fill" /\ k \in {"runtime", "codex"}))
    BY <1>1, <1>2, <1>5 DEF StageRuntime, StageCodex, StageBlender, DoingOn, Doing
  <2>2. k \in Kinds /\ n = FillAt[k]
    BY SMTT(30), <1>3, <2>1, StepNumbers DEF Kinds
  <2>3. QED BY <1>1, <1>2, <1>3, <2>1, <2>2, StagedKeeps
<1>6. QED BY <1>4, <1>5

\* An install unpacks the bundle.
LEMMA MaterializeKeeps ==
    ASSUME Base, Phase, Materialize
    PROVE  Base' /\ Phase'
<1>1. PICK n : n = proc.at
  OBVIOUS
<1>2. /\ Running("install") /\ Program[n].on = "bundle" /\ Program[n].op \in {"open", "fill"}
      /\ Next1 /\ UNCHANGED <<had, place, rstage, json, backup, outcome, spent>> /\ bundle' \in {"part", "whole"}
  BY <1>1 DEF Materialize, DoingOn, Doing, Subject
<1>3. n \in {7, 8}
  <2>1. n \in 1..34
    BY <1>1, <1>2, InstallAt
  <2>2. QED BY <1>2, <2>1, StepNumbers
<1>4. Known(Doc) = Doc /\ InstallReceipt(Doc, n)
  BY <1>1, <1>2, <1>3, InstallAt
<1>5. PICK doc : doc = Doc
  OBVIOUS
<1>6. doc.acts["bundle"].state = "PLANNED"
  BY <1>3, <1>4, <1>5 DEF InstallReceipt
<1>7. \A k \in Kinds : InstallRow(k, doc.acts[k], n + 1)'
  <2>1. \A k \in Kinds : n \notin {PlanAt[k], FillAt[k], RecordAt[k], ForwardAt[k]}
    BY <1>3, Distances
  <2>2. n \in 1..33 /\ Kinds \in SUBSET Kinds /\ InstallReceipt(doc, n)
    BY <1>3, <1>4, <1>5
  <2>3. QED BY <1>2, <2>1, <2>2, RowsKept
<1>8. \A r \in Roles : n # PostAt[r]
  BY <1>3 DEF PostAt, Roles, Kinds
<1>9. MachineTyped'
  BY <1>2 DEF Base, Typed, MachineTyped
<1>10. n \in 6..31 /\ n \notin {6, 9}
  BY <1>3
<1>11. QED BY <1>1, <1>2, <1>5, <1>6, <1>7, <1>8, <1>9, <1>10, InstallStages


\* One object moves; the receipt agrees with it where it is now.
LEMMA MovedSound ==
    ASSUME UNCHANGED <<had, bundle, backup, json>>, NEW k \in Kinds,
           \A j \in Kinds \ {k} : place'[j] = place[j], k # "codex" => rstage' = rstage,
           NEW doc, DocSound(doc), Agrees(k, doc.acts[k])',
           doc.status = "ROLLBACK_PENDING" \/ (doc.status = "PREPARED" /\ ~Waiting)
    PROVE  DocSound(doc)'
<1>1. \A j \in Kinds : Agrees(j, doc.acts[j])'
  <2>1. ASSUME NEW j \in Kinds \ {k} PROVE Agrees(j, doc.acts[j])'
    <3>1. Agrees(j, doc.acts[j]) /\ place'[j] = place[j] /\ (j = "codex" => rstage' = rstage)
      BY <2>1 DEF DocSound
    <3>2. Pre(j)' = Pre(j)
      BY DEF Pre
    <3>3. CASE j = "codex"
      BY <3>1, <3>2, <3>3 DEF Agrees, MergeRow, PlainRow, RowIs, TargetIs
    <3>4. CASE j # "codex"
      BY <3>1, <3>2, <3>4 DEF Agrees, PlainRow, RowIs, TargetIs
    <3>5. QED BY <3>3, <3>4
  <2>2. QED BY <2>1
<1>2. BundleAgrees(doc.acts["bundle"])' /\ doc \in Receipts
  BY DEF DocSound, BundleAgrees
<1>3. SelectorSound(doc)'
  BY DEF DocSound, SelectorSound, Bare, Shown, PrevActive, Mine
<1>4. StatusSound(doc)'
  BY DEF StatusSound, Waiting
<1>5. QED BY <1>1, <1>2, <1>3, <1>4 DEF DocSound

\* The place of an object after a rename, or as it is.
LEMMA PlaceSet ==
    ASSUME MachineTyped, NEW k \in Kinds, NEW row \in PlaceTypes, place' = [place EXCEPT ![k] = row]
    PROVE  place' \in [Kinds -> PlaceTypes] /\ place'[k] = row /\ \A j \in Kinds \ {k} : place'[j] = place[j]
BY DEF MachineTyped

\* A rename of the forward table, or the receipt that records it.
LEMMA ForwardKeeps ==
    ASSUME Base, Phase, ForwardObject
    PROVE  Base' /\ Phase'
<1>1. PICK n : n = proc.at
  OBVIOUS
<1>2. PICK k : k = Subject
  OBVIOUS
<1>3. Running("install") /\ Program[n].on = k /\ Program[n].op = "forward" /\ n \in 1..34
      /\ UNCHANGED <<had, rstage, bundle, json, backup, outcome, spent>>
  <2>1. Running("install") /\ Program[n].on = k /\ Program[n].op = "forward"
    BY <1>1, <1>2 DEF ForwardObject, Doing, Subject
  <2>2. QED BY <1>1, <2>1, InstallAt DEF ForwardObject
<1>4. k \in Kinds /\ n = ForwardAt[k]
  BY <1>3, StepNumbers
<1>5. /\ PlanAt[k] \in 10..26 /\ FillAt[k] \in 12..28 /\ RecordAt[k] \in 13..29 /\ ForwardAt[k] \in 14..30
      /\ PlanAt[k] < FillAt[k] /\ FillAt[k] < RecordAt[k] /\ RecordAt[k] < ForwardAt[k]
  BY <1>4, Distances
<1>6. n \in 14..30 /\ n \in 1..33 /\ n \in 10..30 /\ \A r \in Roles : n # PostAt[r]
  BY <1>4, <1>5, NoPost
<1>7. Known(Doc) = Doc /\ Doc \in Receipts /\ InstallReceipt(Doc, n) /\ DocSound(Doc) /\ rstage = "none"
  BY <1>1, <1>3, <1>6, InstallAt
<1>8. PICK old : old = Doc
  OBVIOUS
<1>9. InstallRow(k, old.acts[k], n) /\ old \in Receipts /\ InstallReceipt(old, n) /\ DocSound(old) /\ old.status = "PREPARED"
  BY <1>4, <1>6, <1>7, <1>8 DEF InstallReceipt
<1>10. PICK row \in ForwardRows(k) :
          /\ At(k, row[1], row[2], row[3])
          /\ place' = [place EXCEPT ![k] = [target |-> row[4], stage |-> row[5], recovery |-> row[6]]]
          /\ Journal(WithAct(k, [Doc.acts[k] EXCEPT
                         !.state = row[7],
                         !.recovery = IF k \in had /\ row[7] \in {"PARKED", "COMPLETED"}
                                      THEN "pre" ELSE "null"]),
                     "install", IF row[7] = "COMPLETED" THEN proc.at + 1 ELSE proc.at)
  BY <1>2 DEF ForwardObject
<1>11. PICK q \in {"pre", "none"} : q = Pre(k) /\ q = Pre(k)' /\ (k \in had <=> q = "pre")
  BY <1>3 DEF Pre
<1>a. PICK s, rec, stg : s = row[7] /\ rec = row[6] /\ stg = row[5]
  OBVIOUS
<1>12. /\ rec \in {"none", q} /\ stg \in {"none", q}
       /\ s \in {"SWAPPED", "PARKED", "PUBLISHED", "COMPLETED"}
       /\ row[4] = "post" /\ stg = row[5] /\ rec = row[6]
       /\ s = "SWAPPED" => q = "pre" /\ At(k, q, "post", "none") /\ stg = q /\ rec = "none"
       /\ s = "PARKED" => q = "pre" /\ At(k, "post", q, "none") /\ stg = "none" /\ rec = q
       /\ s = "PUBLISHED" => q = "none" /\ At(k, "none", "post", "none") /\ stg = "none" /\ rec = q
       /\ s = "COMPLETED" => At(k, "post", "none", q) /\ stg = "none" /\ rec = q
  <2>1. CASE k \in had
    <3>1. \/ row = <<"pre", "post", "none", "post", "pre", "none", "SWAPPED">>
          \/ row = <<"post", "pre", "none", "post", "none", "pre", "PARKED">>
          \/ row = <<"post", "none", "pre", "post", "none", "pre", "COMPLETED">>
      BY <1>10, <2>1 DEF ForwardRows
    <3>2. QED BY <1>a, <1>10, <1>11, <2>1, <3>1
  <2>2. CASE k \notin had
    <3>1. \/ row = <<"none", "post", "none", "post", "none", "none", "PUBLISHED">>
          \/ row = <<"post", "none", "none", "post", "none", "none", "COMPLETED">>
      BY <1>10, <2>2 DEF ForwardRows
    <3>2. QED BY <1>a, <1>10, <1>11, <2>2, <3>1
  <2>3. QED BY <2>1, <2>2
<1>13. PICK to \in PlaceTypes : to = [target |-> "post", stage |-> stg, recovery |-> rec]
  BY <1>11, <1>12 DEF PlaceTypes
<1>14. place' = [place EXCEPT ![k] = to]
  BY <1>10, <1>12, <1>13
<1>15. /\ place' \in [Kinds -> PlaceTypes] /\ place'[k] = to /\ \A j \in Kinds \ {k} : place'[j] = place[j]
  BY <1>4, <1>14, PlaceSet DEF Base, Typed
<1>16. MachineTyped'
  BY <1>3, <1>15 DEF Base, Typed, MachineTyped
<1>17. PICK act : /\ act = [old.acts[k] EXCEPT !.state = s, !.recovery = IF k \in had /\ s \in {"PARKED", "COMPLETED"}
                                                                         THEN "pre" ELSE "null"]
  OBVIOUS
<1>18. /\ act \in ActTypes /\ act.state = s /\ act.post = old.acts[k].post /\ act.semantic = old.acts[k].semantic
  <2>1. old.acts[k] \in ActTypes
    BY <1>4, <1>9 DEF Receipts, ActTypes
  <2>2. QED BY <1>12, <1>17, <2>1 DEF ActTypes
<1>19. PICK new : new = WithAct(k, act)
  OBVIOUS
<1>20. /\ new \in Receipts /\ new.acts[k] = act /\ new.posts = old.posts /\ new.status = old.status
       /\ \A j \in (Kinds \cup {"bundle"}) \ {k} : new.acts[j] = old.acts[j]
  BY <1>4, <1>7, <1>8, <1>18, <1>19, ActSet
<1>21. PICK m : m = IF s = "COMPLETED" THEN n + 1 ELSE n
  OBVIOUS
<1>22. Journal(new, "install", m) /\ m \in 5..34 /\ m \in {proc.at, proc.at + 1}
  BY <1>a, <1>1, <1>6, <1>8, <1>10, <1>17, <1>19, <1>21
<1>23. /\ old.acts[k].post = "post" /\ ~old.acts[k].semantic
       /\ \/ old.acts[k].state = "STAGED" /\ At(k, q, "post", "none")
          \/ q = "pre" /\ old.acts[k].state = "SWAPPED" /\ At(k, "post", q, "none")
          \/ q = "pre" /\ old.acts[k].state = "PARKED" /\ At(k, "post", "none", q)
          \/ q = "none" /\ old.acts[k].state = "PUBLISHED" /\ At(k, "post", "none", q)
  BY <1>4, <1>5, <1>9, <1>11 DEF InstallRow
<1>24. InstallRow(k, act, m)'
  <2>1. CASE s = "COMPLETED"
    <3>1. ~(m <= PlanAt[k]) /\ ~(m <= RecordAt[k]) /\ RecordAt[k] < m /\ ~(m < ForwardAt[k]) /\ m # ForwardAt[k]
          /\ ForwardAt[k] < m
      BY <1>4, <1>5, <1>21, <2>1
    <3>2. At(k, "post", "none", q)'
      BY <1>12, <1>13, <1>15, <2>1 DEF At
    <3>3. QED BY <1>11, <1>18, <1>23, <2>1, <3>1, <3>2 DEF InstallRow
  <2>2. CASE s # "COMPLETED"
    <3>1. ~(m <= PlanAt[k]) /\ ~(m <= RecordAt[k]) /\ RecordAt[k] < m /\ ~(m < ForwardAt[k]) /\ m = ForwardAt[k]
          /\ ~(ForwardAt[k] < m)
      BY <1>4, <1>5, <1>21, <2>2
    <3>2. /\ s = "SWAPPED" => At(k, "post", q, "none")'
          /\ s \in {"PARKED", "PUBLISHED"} => At(k, "post", "none", q)'
      BY <1>12, <1>13, <1>15 DEF At
    <3>a. UNCHANGED had
      BY <1>3
    <3>3. QED BY <1>11, <1>12, <1>18, <1>23, <2>2, <3>1, <3>2, <3>a DEF InstallRow
  <2>3. QED BY <2>1, <2>2
<1>25. InstallReceipt(new, m)'
  <2>1. ~(m <= 6) /\ ~(m <= 9) /\ 9 < m /\ m <= 33 /\ m <= 32 /\ m # 34
    BY <1>6, <1>21
  <2>2. \A j \in Kinds \ {k} : InstallRow(j, new.acts[j], m)'
    <3>1. \A j \in Kinds \ {k} : place'[j] = place[j] /\ new.acts[j] = old.acts[j]
      BY <1>15, <1>20
    <3>2. CASE s = "COMPLETED"
      <4>1. Kinds \ {k} \in SUBSET Kinds /\ UNCHANGED had
        BY <1>3
      <4>2. \A j \in Kinds \ {k} : n \notin {PlanAt[j], FillAt[j], RecordAt[j], ForwardAt[j]}
        BY <1>4, OneEvent
      <4>3. \A j \in Kinds \ {k} : InstallRow(j, new.acts[j], n + 1)'
        BY <1>6, <1>9, <3>1, <4>1, <4>2, RowsKept
      <4>4. QED BY <1>21, <3>2, <4>3
    <3>3. CASE s # "COMPLETED"
      <4>1. m = n
        BY <1>21, <3>3
      <4>2. ASSUME NEW j \in Kinds \ {k} PROVE InstallRow(j, new.acts[j], n)'
        <5>1. InstallRow(j, new.acts[j], n) /\ place'[j] = place[j]
          BY <1>9, <3>1, <4>2 DEF InstallReceipt
        <5>2. Pre(j)' = Pre(j) /\ UNCHANGED had
          BY <1>3 DEF Pre
        <5>3. QED BY <5>1, <5>2 DEF InstallRow, At
      <4>3. QED BY <4>1, <4>2
    <3>4. QED BY <3>2, <3>3
  <2>3. \A j \in Kinds : InstallRow(j, new.acts[j], m)'
    BY <1>20, <1>24, <2>2
  <2>4. new.acts["bundle"].state = "STAGED" /\ new.status = "PREPARED"
    BY <1>4, <1>6, <1>9, <1>20 DEF InstallReceipt, Kinds
  <2>5. new.posts = {r \in Roles : PostAt[r] < m}
    <3>1. new.posts = {r \in Roles : PostAt[r] < n}
      BY <1>9, <1>20 DEF InstallReceipt
    <3>2. QED BY <1>6, <1>21, <3>1, PostsKept
  <2>6. QED BY <2>1, <2>3, <2>4, <2>5 DEF InstallReceipt
<1>26. DocSound(Known(Doc))'
  <2>1. Agrees(k, old.acts[k])'
    <3>1. \/ RowIs(k, "post", q, "none")' \/ RowIs(k, "post", "none", q)'
      BY <1>12, <1>13, <1>15 DEF RowIs, TargetIs
    <3>2. rstage' = "none"
      BY <1>3, <1>7
    <3>3. old.acts[k].state \in Begun \ {"COMPLETED"} /\ old.acts[k].post = "post" /\ ~old.acts[k].semantic
      BY <1>23 DEF Begun
    <3>4. QED BY <1>11, <3>1, <3>2, <3>3 DEF Agrees, PlainRow, Begun
  <2>2. ~Waiting
    BY <1>1, <1>3, <1>6, InstallShown
  <2>3. DocSound(old)'
    BY <1>3, <1>4, <1>9, <1>15, <2>1, <2>2, MovedSound
  <2>4. Known(Doc)' = old
    BY <1>3, <1>7, <1>8 DEF Known, Doc
  <2>5. QED BY <2>3, <2>4
<1>27. new.acts["bundle"].state \in {"unplanned", "CLEANED"} => bundle' = "none"
  BY <1>3, <1>4, <1>6, <1>9, <1>20 DEF InstallReceipt, Kinds
<1>28. QED
  <2>1. proc.at = 4 \/ proc.at >= 6
    BY <1>1, <1>6
  <2>2. QED BY <1>3, <1>16, <1>20, <1>22, <1>25, <1>26, <1>27, <2>1, InstallJournal


\* The steps that publish the pending selector, the first receipt and the active selector.
LEMMA WriteSelectorsKeeps ==
    ASSUME Base, Phase, WriteSelectors
    PROVE  Base' /\ Phase'
<1>1. PICK n : n = proc.at
  OBVIOUS
<1>2. /\ Running("install") /\ UNCHANGED <<machine, json, outcome, spent>>
      /\ UNCHANGED <<had, place, rstage, bundle, backup>>
      /\ \/ Program[n].op = "pending" /\ Write("pending", "this")
         \/ Program[n].op = "receipt" /\ Write("receipt", FreshReceipt)
         \/ Program[n].op = "active" /\ Write("active", "new")
  BY <1>1 DEF WriteSelectors, Doing, machine
<1>3. n \in 1..34 /\ proc.cmd = "install" /\ rstage = "none" /\ (\A f \in Files : ~Busy(f)) /\ Bare("receipt")
      /\ Docs = {Known(Doc)} /\ Coming = Known(Doc) /\ Known(Doc) \in Receipts /\ DocSound(Known(Doc))
      /\ InstallReceipt(Known(Doc), n) /\ InstallSelectors(n) /\ proc.pc # "idle" /\ proc.write.step = "none"
      /\ (n >= 3 => Parsed(Doc) /\ json["pending"].temp = "none")
  <2>1. proc.pc # "idle" /\ proc.write.step = "none"
    BY <1>2 DEF Running
  <2>2. Known(Doc) \in Receipts
    BY KnownDoc
  <2>3. QED BY <1>1, <1>2, <2>1, <2>2, InstallAt
<1>4. /\ Program[n].op = "pending" => n = 1
      /\ Program[n].op = "receipt" => n = 2
      /\ Program[n].op = "active" => n = 3
  BY <1>3, StepNumbers
<1>5. n \in 1..3
  BY <1>2, <1>4
<1>6. PICK f, v : /\ Write(f, v)
                  /\ \/ n = 1 /\ f = "pending" /\ v = "this"
                     \/ n = 2 /\ f = "receipt" /\ v = FreshReceipt
                     \/ n = 3 /\ f = "active" /\ v = "new"
  BY <1>2, <1>4
<1>7. PICK m : m = n + 1
  OBVIOUS
<1>8. /\ m \in 2..4 /\ m \in 0..34 /\ m \in 1..34 /\ f \in Files /\ "install" \in Phases \ {"idle"} /\ "create" \in {"create", "finish"}
      /\ (n = 1 => m = 2) /\ (n = 2 => m = 3) /\ (n = 3 => m = 4)
  BY <1>5, <1>6, <1>7 DEF Files, Phases
<1>9. Publish(f, v, "create", "install", m)
  BY <1>1, <1>6, <1>7 DEF Write
<1>10. /\ ProcTyped' /\ proc'.cmd = "install" /\ proc'.pc = "install" /\ proc'.at = m
       /\ proc'.write = [step |-> "create", file |-> f, value |-> v]
       /\ proc'.write.step = "create" /\ proc'.write.file = f /\ proc'.write.value = v
       /\ \A g \in Files : Busy(g)' <=> g = f
  <2>1. (f = "pending" => v = "this") /\ (f = "active" => v = "new") /\ (f = "receipt" => v \in Receipts)
    BY <1>6, FreshTyped
  <2>2. UNCHANGED outcome /\ proc.pc # "idle" /\ m \in 0..34 /\ f \in Files
        /\ "install" \in Phases \ {"idle"} /\ "create" \in {"create", "finish"}
    BY <1>2, <1>3, <1>8
  <2>3. /\ ProcTyped' /\ proc'.cmd = proc.cmd /\ proc'.pc = "install" /\ proc'.at = m
        /\ proc'.write = [step |-> "create", file |-> f, value |-> v]
        /\ \A g \in Files : Busy(g)' <=> g = f
    BY ONLY Base, Phase, <1>9, <2>1, <2>2, WriteBegins
  <2>4. QED BY <1>3, <2>3
<1>11. Doc' = Doc /\ Known(Doc)' = Known(Doc) /\ Pair' = Pair
  BY <1>2 DEF Doc, Known, Pair
<1>12. PICK doc : doc = Known(Doc)
  OBVIOUS
<1>a. n <= 2 => ~Parsed(Doc) /\ doc = FreshReceipt
  <2>1. n <= 2 => Pair.live = Absent["receipt"]
    BY <1>3 DEF InstallSelectors
  <2>2. QED BY <1>12, <2>1, Empties DEF Known, Doc, Pair, Parsed
<1>13. InstallReceipt(doc, m)'
  <2>1. n \in 1..33 /\ Kinds \in SUBSET Kinds /\ InstallReceipt(doc, n)
    BY <1>3, <1>5, <1>12
  <2>2. \A k \in Kinds : n \notin {PlanAt[k], FillAt[k], RecordAt[k], ForwardAt[k]}
    BY <1>5, Distances
  <2>3. \A k \in Kinds : InstallRow(k, doc.acts[k], n + 1)'
    BY <1>2, <2>1, <2>2, RowsKept
  <2>4. {r \in Roles : PostAt[r] = n} = {}
    BY <1>5 DEF PostAt, Roles, Kinds
  <2>5. n \notin {6, 9, 32, 33} /\ doc.posts = doc.posts \cup {r \in Roles : PostAt[r] = n}
    BY <1>5, <2>4
  <2>6. QED BY <1>7, <2>1, <2>3, <2>5, ReceiptNext
<1>14. Coming' = doc
  BY <1>3, <1>6, <1>8, <1>10, <1>11, <1>12, <1>a DEF Coming, Files
<1>15. InstallReceipt(Coming, m)'
  BY <1>13, <1>14
<1>16. ReceiptBare'
  BY <1>2, <1>3 DEF ReceiptBare, Bare
<1>17. Open'
  <2>1. Open
    BY <1>2, InstallAt
  <2>2. QED BY <1>2, <2>1 DEF Open
<1>18. InstallSelectors(m)'
  <2>1. CASE n = 1
    BY <1>2, <1>3, <1>6, <1>8, <1>10, <1>11, <2>1 DEF InstallSelectors, Files
  <2>2. CASE n = 2
    <3>1. json["active"].live = PrevActive /\ json["active"].temp = "none" /\ Busy("receipt")' /\ ~Busy("pending")' /\ ~Busy("active")'
      BY <1>3, <1>6, <1>8, <1>10, <1>a, <2>2 DEF Base, OrderSound, SelectorAfter, Files
    <3>2. QED BY <1>2, <1>8, <2>2, <3>1 DEF InstallSelectors, PrevActive
  <2>3. CASE n = 3
    <3>1. Busy("active")' /\ ~Busy("pending")' /\ ~Busy("receipt")' /\ Parsed(Doc)'
      BY <1>3, <1>6, <1>8, <1>10, <1>11, <2>3 DEF Files
    <3>2. QED BY <1>8, <2>3, <3>1 DEF InstallSelectors
  <2>4. QED BY <1>5, <2>1, <2>2, <2>3
<1>19. Base'
  <2>1. CASE n = 2
    <3>1. json["pending"].temp = "none"
      BY <1>3, <2>1 DEF InstallSelectors, Files
    <3>2. DocSound(doc)' /\ DocSound(Known(Doc))'
      BY <1>2, <1>11, <1>12, KnownSame
    <3>3. ~Merging(doc) /\ doc.status = "PREPARED"
      BY <1>a, <2>1, FreshTyped DEF Merging, Kinds, Unplanned
    <3>4. Doc.status # "ROLLED_BACK" /\ doc \in Receipts /\ v = doc /\ f = "receipt"
      BY <1>3, <1>6, <1>12, <1>a, <2>1 DEF Parsed
    <3>5. MachineTyped' /\ RestTyped'
      BY <1>2 DEF Base, Typed, MachineTyped, RestTyped
    <3>6. QED BY <1>2, <1>3, <1>10, <1>12, <3>1, <3>2, <3>3, <3>4, <3>5, JournalKeeps
  <2>2. CASE n # 2
    <3>1. f \in {"pending", "active"} /\ ~Busy("receipt")' /\ (n = 1 <=> f = "pending") /\ (n = 3 <=> f = "active")
      BY <1>5, <1>6, <1>8, <1>10, <2>2 DEF Files
    <3>2. Docs' = Docs /\ Coming' = Known(Doc)
      BY <1>3, <1>11, <1>12, <1>14, <3>1, Empties DEF Docs, Bare, Pair, Parsed, Files
    <3>3. CASE n = 1
      <4>1. /\ json["pending"].live = "none" /\ json["pending"].temp = "none" /\ ~Busy("active")' /\ Busy("pending")'
            /\ json'["pending"] = json["pending"]
        BY <1>2, <1>3, <1>8, <1>10, <3>1, <3>3 DEF InstallSelectors, Files
      <4>2. WriteSound'
        BY <1>10, <3>1, <3>3, <4>1, Empties DEF WriteSound, Busy
      <4>3. OrderSound'
        <5>1. PendingFirst' /\ PendingOnce'
          BY <1>2, <1>3, <1>11, <1>a, <3>1, <3>3, <4>1 DEF PendingFirst, PendingOnce, Bare
        <5>2. SelectorAfter'
          BY <1>2, <1>11, <4>1 DEF Base, OrderSound, SelectorAfter, PrevActive
        <5>3. SelectorWrite' /\ RolledBackLast'
          BY <1>2, <1>3, <3>1, <4>1 DEF SelectorWrite, RolledBackLast, Bare
        <5>4. QED BY <5>1, <5>2, <5>3 DEF OrderSound
      <4>4. QED BY <1>2, <1>3, <1>10, <3>2, <4>2, <4>3, PublishKeepsBase
    <3>4. CASE n = 3
      <4>1. /\ json["active"].live = PrevActive /\ json["active"].temp = "none" /\ Busy("active")' /\ ~Busy("pending")'
            /\ json'["active"] = json["active"] /\ json["pending"].temp = "none"
        BY <1>2, <1>3, <1>8, <1>10, <3>1, <3>4 DEF InstallSelectors, Files
      <4>2. WriteSound'
        BY <1>10, <3>1, <3>4, <4>1, Empties DEF WriteSound, Busy
      <4>3. Docs' = {doc} /\ doc.status = "PREPARED" /\ "active" \notin doc.posts
        <5>1. doc.status = "PREPARED" /\ doc.posts = {r \in Roles : PostAt[r] < 3}
          BY <1>3, <1>12, <3>4 DEF InstallReceipt
        <5>2. "active" \notin {r \in Roles : PostAt[r] < 3}
          BY DEF PostAt, Roles, Kinds
        <5>3. QED BY <1>3, <1>12, <3>2, <5>1, <5>2
      <4>4. ~Mine /\ ~Mine'
        BY <4>1 DEF Mine, PrevActive
      <4>5. OrderSound'
        <5>1. PendingFirst' /\ PendingOnce'
          BY <1>2, <4>1 DEF PendingFirst, PendingOnce
        <5>2. SelectorAfter'
          BY <1>3, <1>11, <3>4 DEF SelectorAfter
        <5>3. SelectorWrite' /\ RolledBackLast'
          BY <1>10, <4>1, <4>3, <4>4 DEF SelectorWrite, RolledBackLast
        <5>4. QED BY <5>1, <5>2, <5>3 DEF OrderSound
      <4>6. QED BY <1>2, <1>3, <1>10, <3>2, <4>2, <4>5, PublishKeepsBase
    <3>5. QED BY <1>5, <2>2, <3>3, <3>4
  <2>3. QED BY <2>1, <2>2
<1>20. QED BY <1>2, <1>3, <1>8, <1>10, <1>15, <1>16, <1>17, <1>18, <1>19, InstallPhase


-----------------------------------------------------------------------------
(* Steps that fail, the edits of the user, and the beginning of an install. *)

\* The process of an install that failed, before it recovers.
LEMMA FailingPhase ==
    ASSUME Open', proc'.cmd = "failing", proc'.pc = "recover", proc'.at = 0, ~Busy("active")', ~Busy("pending")',
           Busy("receipt")' => Mine'
    PROVE  Phase'
BY DEF Phase, HandSound, InstallSound, RollingSound, PlaceSound, IdleSound, CursorSound, RecoverySound, OutcomeWhole, Open

\* Only the bundle changes.
LEMMA BundleSound ==
    ASSUME UNCHANGED <<had, place, rstage, backup, json>>, NEW doc, DocSound(doc), doc.status # "ROLLED_BACK",
           BundleAgrees(doc.acts["bundle"])'
    PROVE  DocSound(doc)'
<1>1. \A k \in Kinds : Agrees(k, doc.acts[k])'
  BY DEF DocSound, Agrees, MergeRow, PlainRow, RowIs, TargetIs, Pre
<1>2. SelectorSound(doc)' /\ doc \in Receipts
  BY DEF DocSound, SelectorSound, Bare, Shown, PrevActive, Mine
<1>3. StatusSound(doc)'
  BY DEF DocSound, StatusSound, Waiting, RowIs, TargetIs, Pre
<1>4. QED BY <1>1, <1>2, <1>3 DEF DocSound

\* One object moves and its action is rewritten: the new receipt agrees with the machine.
LEMMA RowSound ==
    ASSUME UNCHANGED <<had, bundle, backup, json>>, NEW k \in Kinds,
           \A j \in Kinds \ {k} : place'[j] = place[j], k # "codex" => rstage' = rstage,
           NEW old, DocSound(old), NEW new \in Receipts, new.posts = old.posts, new.status = old.status,
           \A j \in (Kinds \cup {"bundle"}) \ {k} : new.acts[j] = old.acts[j], Agrees(k, new.acts[k])',
           old.status = "ROLLBACK_PENDING" \/ (old.status = "PREPARED" /\ ~Waiting), "active" \in old.posts
    PROVE  DocSound(new)'
<1>1. \A j \in Kinds : Agrees(j, new.acts[j])'
  <2>1. ASSUME NEW j \in Kinds \ {k} PROVE Agrees(j, new.acts[j])'
    <3>1. Agrees(j, new.acts[j]) /\ place'[j] = place[j] /\ (j = "codex" => rstage' = rstage)
      BY <2>1 DEF DocSound
    <3>2. Pre(j)' = Pre(j)
      BY DEF Pre
    <3>3. CASE j = "codex"
      BY <3>1, <3>2, <3>3 DEF Agrees, MergeRow, PlainRow, RowIs, TargetIs
    <3>4. CASE j # "codex"
      BY <3>1, <3>2, <3>4 DEF Agrees, PlainRow, RowIs, TargetIs
    <3>5. QED BY <3>3, <3>4
  <2>2. QED BY <2>1
<1>2. BundleAgrees(new.acts["bundle"])'
  <2>1. new.acts["bundle"] = old.acts["bundle"]
    BY DEF Kinds
  <2>2. QED BY <2>1 DEF DocSound, BundleAgrees
<1>3. SelectorSound(new)'
  BY DEF DocSound, SelectorSound, Bare, Shown, PrevActive, Mine
<1>4. StatusSound(new)'
  BY DEF StatusSound, Waiting
<1>5. QED BY <1>1, <1>2, <1>3, <1>4 DEF DocSound

\* Unpacking the bundle fails, and the install undoes what it did.
LEMMA MaterializeFailsKeeps ==
    ASSUME Base, Phase, MaterializeFails
    PROVE  Base' /\ Phase'
<1>1. PICK n : n = proc.at
  OBVIOUS
<1>2. /\ Running("install") /\ Program[n].op = "fill" /\ Program[n].on = "bundle"
      /\ UNCHANGED <<had, place, rstage, json, backup, outcome>> /\ bundle' = "none"
      /\ spent.faults < MaxFaults /\ spent' = [spent EXCEPT !.faults = spent.faults + 1]
      /\ proc' = [Idle EXCEPT !.cmd = "failing", !.pc = "recover", !.write = Quiet]
  BY <1>1 DEF MaterializeFails, DoingOn, Doing, Subject, Raises
<1>3. n = 8
  <2>1. n \in 1..34
    BY <1>1, <1>2, InstallAt
  <2>2. QED BY <1>2, <2>1, StepNumbers
<1>4. /\ Known(Doc) = Doc /\ Parsed(Doc) /\ InstallReceipt(Doc, n) /\ DocSound(Doc) /\ Bare("receipt") /\ Open
      /\ proc.write.step = "none"
  <2>1. proc.write.step = "none"
    BY <1>2 DEF Running
  <2>2. QED BY <1>1, <1>2, <1>3, <2>1, InstallAt
<1>5. PICK doc : doc = Doc
  OBVIOUS
<1>6. doc.acts["bundle"].state = "PLANNED" /\ doc.status = "PREPARED" /\ ~Merging(doc)
  BY <1>3, <1>4, <1>5 DEF InstallReceipt, InstallRow, Merging, Kinds
<1>7. proc' = [cmd |-> "failing", pc |-> "recover", at |-> 0, write |-> Quiet]
  BY <1>2, Empties
<1>8. proc'.cmd = "failing" /\ proc'.pc = "recover" /\ proc'.at = 0 /\ proc'.write = Quiet
  BY <1>7
<1>9. ProcTyped'
  BY <1>7, <1>8, Empties, Cursors DEF ProcTyped, Phases, Files
<1>10. MachineTyped'
  BY <1>2 DEF Base, Typed, MachineTyped
<1>11. RestTyped'
  <2>1. FaultCounted
    BY <1>2 DEF FaultCounted
  <2>2. QED BY <1>2, <2>1, FaultTyped DEF Base, Typed, RestTyped
<1>12. DocSound(Known(Doc))'
  <2>1. BundleAgrees(doc.acts["bundle"])'
    BY <1>6 DEF BundleAgrees
  <2>2. DocSound(doc)'
    BY <1>2, <1>4, <1>5, <1>6, <2>1, BundleSound
  <2>3. Known(Doc)' = doc
    BY <1>2, <1>4, <1>5 DEF Known, Doc
  <2>4. QED BY <2>2, <2>3
<1>14. Base' /\ \A f \in Files : ~Busy(f)'
  BY <1>2, <1>4, <1>8, <1>9, <1>10, <1>11, <1>12, MachineKeeps
<1>15. Open'
  BY <1>2, <1>4 DEF Open
<1>16. QED BY <1>8, <1>14, <1>15, FailingPhase DEF Files

\* Staging an object fails, and the install undoes what it did.
LEMMA StagingFailsKeeps ==
    ASSUME Base, Phase, StagingFails
    PROVE  Base' /\ Phase'
<1>1. PICK n : n = proc.at
  OBVIOUS
<1>2. PICK act, new : /\ act = [Unplanned EXCEPT !.state = "STAGED", !.post = "part"] /\ new = WithAct("runtime", act)
  OBVIOUS
<1>3. /\ Running("install") /\ Program[n].op = "fill" /\ Program[n].on = "runtime"
      /\ UNCHANGED <<machine, json, outcome>> /\ UNCHANGED <<had, place, rstage, bundle, backup>>
      /\ spent.faults < MaxFaults /\ spent' = [spent EXCEPT !.faults = spent.faults + 1]
      /\ proc' = [Idle EXCEPT !.cmd = "failing", !.pc = "recover",
                              !.write = [step |-> "create", file |-> "receipt", value |-> new]]
  BY <1>1, <1>2 DEF StagingFails, DoingOn, Doing, Subject, Raises, machine
<1>4. n = 12
  <2>1. n \in 1..34
    BY <1>1, <1>3, InstallAt
  <2>2. QED BY <1>3, <2>1, StepNumbers DEF FillAt, Kinds
<1>5. /\ Known(Doc) = Doc /\ Parsed(Doc) /\ Doc \in Receipts /\ InstallReceipt(Doc, n) /\ DocSound(Doc)
      /\ Bare("receipt") /\ Open /\ json["pending"].temp = "none" /\ proc.write.step = "none"
  <2>1. proc.write.step = "none"
    BY <1>3 DEF Running
  <2>2. QED BY <1>1, <1>3, <1>4, <2>1, InstallAt
<1>6. PICK old : old = Doc
  OBVIOUS
<1>7. /\ old.status = "PREPARED" /\ ~Merging(old) /\ "active" \in old.posts
      /\ At("runtime", Pre("runtime"), place["runtime"].stage, "none") /\ place["runtime"].stage \in {"none", "part"}
  <2>1. InstallRow("runtime", old.acts["runtime"], 12) /\ InstallRow("codex", old.acts["codex"], 12)
        /\ old.status = "PREPARED" /\ old.posts = {r \in Roles : PostAt[r] < 12}
    BY <1>4, <1>5, <1>6 DEF InstallReceipt, Kinds
  <2>2. PlanAt["runtime"] = 10 /\ FillAt["runtime"] = 12 /\ RecordAt["runtime"] = 13
    BY DEF PlanAt, FillAt, RecordAt, Kinds
  <2>3. "active" \in {r \in Roles : PostAt[r] < 12}
    BY DEF PostAt, Roles, Kinds
  <2>4. QED BY <2>1, <2>2, <2>3 DEF InstallRow, Merging
<1>8. /\ act \in ActTypes /\ act.state = "STAGED" /\ act.post = "part" /\ ~act.semantic
  BY <1>2 DEF Unplanned, ActTypes
<1>9. /\ new \in Receipts /\ new.acts["runtime"] = act /\ new.posts = old.posts /\ new.status = old.status
      /\ \A j \in (Kinds \cup {"bundle"}) \ {"runtime"} : new.acts[j] = old.acts[j]
  BY <1>2, <1>5, <1>6, <1>8, ActSet DEF Kinds
<1>10. Agrees("runtime", new.acts["runtime"])'
  <2>1. /\ RowIs("runtime", Pre("runtime"), "none", "none") \/ RowIs("runtime", Pre("runtime"), "part", "none")
    BY <1>7 DEF At, RowIs, TargetIs
  <2>2. PlainRow("runtime", act)
    BY <1>8, <2>1 DEF PlainRow, Begun
  <2>3. PlainRow("runtime", act)'
    BY <1>3, <2>2 DEF PlainRow, RowIs, TargetIs, Pre
  <2>4. QED BY <1>8, <1>9, <2>3 DEF Agrees
<1>11. Mine /\ ~Waiting
  <2>1. proc.at >= 4 /\ proc.at >= 6
    BY <1>1, <1>4
  <2>2. QED BY <1>3, <2>1, InstallShown DEF Shown, Mine
<1>12. DocSound(new)'
  <2>1. "runtime" \in Kinds /\ \A j \in Kinds \ {"runtime"} : place'[j] = place[j]
    BY <1>3 DEF Kinds
  <2>2. DocSound(old)
    BY <1>5, <1>6
  <2>3. QED BY <1>3, <1>7, <1>9, <1>10, <1>11, <2>1, <2>2, RowSound
<1>13. DocSound(Known(Doc))'
  BY <1>3, KnownSame
<1>14. proc' = [cmd |-> "failing", pc |-> "recover", at |-> 0, write |-> [step |-> "create", file |-> "receipt", value |-> new]]
  BY <1>3, Empties
<1>15. /\ proc'.cmd = "failing" /\ proc'.pc = "recover" /\ proc'.at = 0
       /\ proc'.write = [step |-> "create", file |-> "receipt", value |-> new]
  BY <1>14
<1>16. ProcTyped' /\ ~Busy("active")' /\ ~Busy("pending")'
  <2>1. proc'.write.step = "create" /\ proc'.write.file = "receipt" /\ proc'.write.value = new
    BY <1>15
  <2>2. QED BY <1>9, <1>14, <1>15, <2>1, Cursors DEF ProcTyped, Phases, Files, Busy
<1>17. MachineTyped' /\ RestTyped'
  <2>1. FaultCounted
    BY <1>3 DEF FaultCounted
  <2>2. QED BY <1>3, <2>1, FaultTyped DEF Base, Typed, RestTyped, MachineTyped
<1>18. Base'
  <2>1. ~Merging(new) /\ (Merging(Known(Doc)) = Merging(new))
    <3>1. new.acts["codex"] = old.acts["codex"]
      BY <1>9 DEF Kinds
    <3>2. QED BY <1>5, <1>6, <1>7, <3>1 DEF Merging
  <2>2. Doc.status # "ROLLED_BACK" /\ new.status # "ROLLED_BACK"
    BY <1>6, <1>7, <1>9
  <2>3. QED BY <1>3, <1>5, <1>9, <1>12, <1>13, <1>15, <1>16, <1>17, <2>1, <2>2, JournalKeeps
<1>19. Open' /\ Mine'
  BY <1>3, <1>5, <1>11 DEF Open, Mine
<1>20. QED BY <1>15, <1>16, <1>18, <1>19, FailingPhase


\* An edit leaves the files of the managed objects as the receipts describe them.
LEMMA EditedSound ==
    ASSUME UNCHANGED <<had, rstage, bundle, json, backup>>, NEW t \in {"edit", "clash"},
           MachineTyped, place' = [place EXCEPT !["codex"].target = t], NEW doc, DocSound(doc)
    PROVE  DocSound(doc)'
<1>1. /\ place'["codex"].target = t /\ place'["codex"].stage = place["codex"].stage
      /\ place'["codex"].recovery = place["codex"].recovery
      /\ \A j \in Kinds \ {"codex"} : place'[j] = place[j]
  BY DEF MachineTyped, PlaceTypes, Kinds
<1>2. \A k \in Kinds : Pre(k)' = Pre(k)
  BY DEF Pre
<1>3. \A k \in Kinds : \A x, s, r : RowIs(k, x, s, r) => RowIs(k, x, s, r)'
  BY <1>1 DEF RowIs, TargetIs
<1>4. ASSUME NEW k \in Kinds PROVE Agrees(k, doc.acts[k])'
  <2>1. Agrees(k, doc.acts[k])
    BY DEF DocSound
  <2>2. CASE k # "codex"
    BY <1>1, <1>2, <2>1, <2>2 DEF Agrees, PlainRow, RowIs, TargetIs
  <2>3. CASE k = "codex" /\ doc.acts[k].semantic
    BY <1>1, <1>2, <2>1, <2>3 DEF Agrees, MergeRow
  <2>4. CASE k = "codex" /\ ~doc.acts[k].semantic
    <3>1. PlainRow("codex", doc.acts["codex"])
      BY <2>1, <2>4 DEF Agrees
    <3>2. PlainRow("codex", doc.acts["codex"])'
      <4>1. PICK act, q : act = doc.acts["codex"] /\ q = Pre("codex") /\ q = Pre("codex")'
        BY <1>2, <2>4
      <4>2. PlainRow("codex", act)
        BY <3>1, <4>1
      <4>3. \A x, s, r : RowIs("codex", x, s, r) => RowIs("codex", x, s, r)'
        BY <1>3, <2>4
      <4>4. act.state = "PLANNED" =>
              RowIs("codex", q, place["codex"].stage, "none")' /\ place'["codex"].stage = place["codex"].stage
        BY <1>1, <4>1, <4>2, <4>3 DEF PlainRow
      <4>5. place["codex"].target \in {"edit", "clash"} => place'["codex"].target \in {"edit", "clash"}
        BY <1>1
      <4>6. PlainRow("codex", act)'
        BY <1>1, <4>1, <4>2, <4>3, <4>4, <4>5 DEF PlainRow
      <4>7. QED BY <4>1, <4>6
    <3>3. QED BY <2>4, <3>2 DEF Agrees
  <2>5. QED BY <2>2, <2>3, <2>4
<1>5. BundleAgrees(doc.acts["bundle"])' /\ doc \in Receipts
  BY DEF DocSound, BundleAgrees
<1>6. SelectorSound(doc)'
  BY DEF DocSound, SelectorSound, Bare, Shown, PrevActive, Mine
<1>7. StatusSound(doc)'
  <2>1. StatusSound(doc)
    BY DEF DocSound
  <2>2. doc.status = "INSTALLED" =>
          /\ ~Waiting' /\ doc.posts = Roles /\ doc.acts["bundle"].state \in {"STAGED", "CLEANED"}
          /\ \A k \in Kinds : doc.acts[k].state = "COMPLETED" /\ ~doc.acts[k].semantic /\ RowIs(k, "post", "none", Pre(k))'
    <3>1. ASSUME NEW k \in Kinds, RowIs(k, "post", "none", Pre(k)) PROVE RowIs(k, "post", "none", Pre(k))'
      <4>1. PICK q : q = Pre(k)
        OBVIOUS
      <4>2. RowIs(k, "post", "none", q)' /\ Pre(k)' = q
        BY <1>2, <1>3, <3>1, <4>1
      <4>3. QED BY <4>2
    <3>2. QED BY <2>1, <3>1 DEF StatusSound, Waiting
  <2>3. doc.status = "ROLLED_BACK" =>
          /\ StagesAbsent'
          /\ \A k \in Kinds : TargetIs(k, Pre(k))' \/ (k = "codex" /\ place'[k].target = "merged")
    BY <1>1, <1>2, <2>1 DEF StatusSound, StagesAbsent, TargetIs, Kinds
  <2>4. Waiting' /\ doc.status = "PREPARED" =>
          doc.posts \subseteq {"active"} /\ \A k \in Kinds \cup {"bundle"} : doc.acts[k].state = "unplanned"
    BY <2>1 DEF StatusSound, Waiting
  <2>5. QED BY <2>2, <2>3, <2>4 DEF StatusSound
<1>8. QED BY <1>4, <1>5, <1>6, <1>7 DEF DocSound

\* The user edits config.toml.
LEMMA EditKeeps ==
    ASSUME Base, Phase, Edit
    PROVE  Base' /\ Phase'
<1>1. PICK t \in {"edit", "clash"} :
         place' = [place EXCEPT !["codex"].target = t]
  BY DEF Edit, UserEdits
<1>2. /\ proc = Idle /\ UNCHANGED <<had, rstage, bundle, json, backup, proc>> /\ outcome' \in {outcome, ""}
  BY DEF Edit, UserEdits
<1>a. /\ spent.edits < MaxEdits /\ spent' = [spent EXCEPT !.edits = spent.edits + 1]
  BY DEF Edit, UserEdits
<1>3. proc.write = Quiet /\ proc.pc = "idle" /\ proc.cmd = "none" /\ proc.at = 0 /\ proc.write.step = "none" /\ \A f \in Files : ~Busy(f)
  BY <1>2, Empties DEF Busy
<1>4. /\ Docs' = Docs /\ Coming' = Coming /\ Known(Doc)' = Known(Doc) /\ Doc' = Doc /\ (Waiting' <=> Waiting)
      /\ Coming = Known(Doc) /\ (\A f \in Files : (Busy(f)' <=> Busy(f)))
  BY <1>2, <1>3 DEF Docs, Coming, Known, Doc, Pair, Busy, Files, Waiting
<1>5. place \in [Kinds -> PlaceTypes]
  BY DEF Base, Typed, MachineTyped
<1>6. /\ place' \in [Kinds -> PlaceTypes] /\ place'["codex"].target = t /\ \A j \in Kinds \ {"codex"} : place'[j] = place[j]
  BY <1>1, <1>5 DEF PlaceTypes, Kinds
<1>7. Typed'
  <2>1. spent \in [crashes : 0..MaxCrashes, faults : 0..MaxFaults, edits : 0..MaxEdits]
    BY DEF Base, Typed, RestTyped
  <2>2. spent.edits \in 0..MaxEdits /\ MaxEdits \in Nat
    BY <2>1, InstallerAssumption
  <2>3. spent.edits + 1 \in 0..MaxEdits
    BY ONLY <1>a, <2>2
  <2>4. spent' \in [crashes : 0..MaxCrashes, faults : 0..MaxFaults, edits : 0..MaxEdits]
    BY <1>a, <2>1, <2>3
  <2>5. RestTyped'
    BY <1>2, <2>4 DEF Base, Typed, RestTyped
  <2>6. MachineTyped'
    BY <1>2, <1>6 DEF Base, Typed, MachineTyped
  <2>7. UNCHANGED json /\ UNCHANGED proc
    BY <1>2
  <2>8. JsonTyped'
    BY <2>7 DEF Base, Typed, JsonTyped
  <2>9. ProcTyped'
    BY <2>7 DEF Base, Typed, ProcTyped
  <2>10. QED BY <2>5, <2>6, <2>8, <2>9 DEF Typed
<1>8. WriteSound'
  BY <1>3, <1>2, Empties DEF WriteSound, Busy
<1>9. AllDocs'
  <2>1. ASSUME NEW doc \in Docs PROVE DocSound(doc)'
    BY <1>1, <1>2, <2>1, EditedSound DEF Base, AllDocs, Typed
  <2>2. QED BY <1>4, <2>1 DEF AllDocs
<1>10. MergeSound'
  BY <1>2, <1>4 DEF Base, MergeSound, Merging
<1>11. OrderSound'
  <2>1. PendingFirst' /\ PendingOnce'
    BY <1>2, <1>4 DEF Base, OrderSound, PendingFirst, PendingOnce, Files, Bare
  <2>2. SelectorAfter'
    BY <1>2, <1>3, <1>4 DEF Base, OrderSound, SelectorAfter, PrevActive, Files
  <2>3. SelectorWrite' /\ RolledBackLast'
    BY <1>2, <1>3, <1>4 DEF Base, OrderSound, SelectorWrite, RolledBackLast, Files, Bare
  <2>4. QED BY <2>1, <2>2, <2>3 DEF OrderSound
<1>12. Phase'
  <2>1. HandSound' /\ InstallSound' /\ RollingSound'
    BY <1>2, <1>3 DEF HandSound, InstallSound, RollingSound
  <2>2. PlaceSound'
    BY <1>2, <1>3, <1>4 DEF PlaceSound, IdleSound, CursorSound, RecoverySound, Files
  <2>3. OutcomeWhole'
    <3>1. (AllPost => AllPost') /\ (AllPre => AllPre')
      BY <1>2, <1>6 DEF AllPost, AllPre, Customised, UserEdits, Pre
    <3>2. outcome' \in {outcome, ""} /\ UNCHANGED bundle /\ (Waiting' <=> Waiting) /\ (\A f \in Files : Bare(f)' <=> Bare(f))
      BY <1>2, <1>4 DEF Bare
    <3>3. QED BY <3>1, <3>2 DEF Phase, OutcomeWhole, AllPost, AllPre
  <2>4. QED BY <2>1, <2>2, <2>3 DEF Phase
<1>13. QED BY <1>7, <1>8, <1>9, <1>10, <1>11, <1>12 DEF Base


\* An install begins afresh: what is there now are its originals.
LEMMA BeginKeeps ==
    ASSUME Base, Phase, Begin
    PROVE  Base' /\ Phase'
<1>1. /\ Running("unchanged") /\ proc.cmd = "install" /\ UNCHANGED <<outcome, spent>>
      /\ had' = {k \in Kinds : place[k].target # "none"}
                   \cup (IF json["active"].live = "none" THEN {} ELSE {"active"})
      /\ place' = [k \in Kinds |-> [target |-> IF place[k].target = "none" THEN "none" ELSE "pre",
                                    stage |-> "none", recovery |-> "none"]]
      /\ rstage' = "none" /\ bundle' = "none" /\ backup' = "none"
      /\ json' = [f \in Files |->
                    [live |-> IF f = "active" /\ json[f].live # "none" THEN "old" ELSE Absent[f],
                     temp |-> Absent[f]]]
      /\ proc' = [proc EXCEPT !.pc = "install", !.at = 1]
  BY DEF Begin
<1>2. proc = [cmd |-> "install", pc |-> "unchanged", at |-> proc.at, write |-> Quiet] /\ proc.pc # "idle" /\ Open
  <2>1. proc.write.step = "none" /\ proc.pc = "unchanged"
    BY <1>1 DEF Running
  <2>2. Open
    BY <2>1 DEF Phase, PlaceSound, IdleSound, Open
  <2>3. QED BY <1>1, <2>1, <2>2, AtRest
<1>3. proc' = [cmd |-> "install", pc |-> "install", at |-> 1, write |-> Quiet]
  <2>1. PICK n : proc = [cmd |-> "install", pc |-> "unchanged", at |-> n, write |-> Quiet]
    BY <1>2
  <2>2. QED BY <1>1, <2>1
<1>4. /\ proc'.cmd = "install" /\ proc'.pc = "install" /\ proc'.at = 1 /\ proc'.write = Quiet
      /\ proc'.write.step = "none" /\ \A f \in Files : ~Busy(f)'
  BY <1>3, Empties DEF Busy
<1>5. /\ json'["pending"].live = "none" /\ json'["pending"].temp = "none"
      /\ json'["receipt"].live = Absent["receipt"] /\ json'["receipt"].temp = Absent["receipt"]
      /\ json'["active"].live = (IF json["active"].live = "none" THEN "none" ELSE "old")
      /\ json'["active"].temp = "none"
      /\ json' = [f \in Files |-> [live |-> json'[f].live, temp |-> json'[f].temp]]
  <2>1. /\ Absent["pending"] = "none" /\ Absent["active"] = "none"
    BY Empties
  <2>2. QED BY <1>1, <2>1 DEF Files
<1>6. /\ PrevActive' = json'["active"].live /\ PrevActive' \in {"none", "old"}
      /\ \A k \in Kinds : Pre(k)' = place'[k].target /\ place'[k].target \in {"none", "pre"}
                          /\ place'[k] = [target |-> Pre(k)', stage |-> "none", recovery |-> "none"]
  <2>1. "active" \in had' <=> json["active"].live # "none"
    BY <1>1 DEF Kinds
  <2>2. \A k \in Kinds : k \in had' <=> place[k].target # "none"
    BY <1>1 DEF Kinds
  <2>3. PrevActive' = json'["active"].live /\ PrevActive' \in {"none", "old"}
    BY <1>5, <2>1 DEF PrevActive
  <2>4. QED BY <1>1, <2>2, <2>3 DEF Pre
<1>7. ~Parsed(Doc)' /\ Known(Doc)' = FreshReceipt /\ Bare("receipt")' /\ Coming' = FreshReceipt /\ Docs' = {FreshReceipt}
  BY <1>4, <1>5, Empties DEF Parsed, Doc, Known, Bare, Coming, Docs, Pair, Files
<1>8. Typed'
  <2>1. MachineTyped'
    <3>1. had' \in SUBSET Roles
      BY <1>1 DEF Roles
    <3>2. place' \in [Kinds -> PlaceTypes]
      BY <1>1 DEF PlaceTypes
    <3>3. QED BY <1>1, <3>1, <3>2 DEF MachineTyped
  <2>2. JsonTyped'
    BY <1>5, <1>6, Empties DEF JsonTyped, ReceiptValues
  <2>3. ProcTyped'
    BY <1>3, <1>4, Cursors, Empties DEF ProcTyped, Phases, Files
  <2>4. RestTyped'
    BY <1>1 DEF Base, Typed, RestTyped
  <2>5. QED BY <2>1, <2>2, <2>3, <2>4 DEF Typed
<1>9. WriteSound'
  BY <1>4, Empties DEF WriteSound, Busy
<1>10. PICK doc : doc = FreshReceipt
  OBVIOUS
<1>11. /\ doc \in Receipts /\ doc.status = "PREPARED" /\ doc.posts = {}
       /\ \A k \in Kinds \cup {"bundle"} : doc.acts[k].state = "unplanned" /\ ~doc.acts[k].semantic
  BY <1>10, FreshTyped DEF Unplanned
<1>12. DocSound(doc)'
  <2>1. ASSUME NEW k \in Kinds PROVE Agrees(k, doc.acts[k])'
    BY <1>1, <1>6, <1>11 DEF Agrees, PlainRow, RowIs, TargetIs, Begun
  <2>2. BundleAgrees(doc.acts["bundle"])'
    BY <1>1, <1>11 DEF BundleAgrees
  <2>3. SelectorSound(doc)'
    BY <1>1, <1>5, <1>6, <1>11 DEF SelectorSound, Shown, Mine
  <2>4. StatusSound(doc)'
    BY <1>11 DEF StatusSound
  <2>5. QED BY <1>11, <2>1, <2>2, <2>3, <2>4 DEF DocSound
<1>13. AllDocs' /\ MergeSound'
  BY <1>7, <1>10, <1>12 DEF AllDocs, MergeSound
<1>14. OrderSound'
  <2>1. PendingFirst' /\ PendingOnce'
    BY <1>4, <1>5 DEF PendingFirst, PendingOnce, Files
  <2>2. json'["active"] = [live |-> json'["active"].live, temp |-> "none"]
    BY <1>1, <1>5 DEF Files
  <2>3. SelectorAfter'
    BY <1>1, <1>4, <1>6, <2>2 DEF SelectorAfter, Files
  <2>4. SelectorWrite' /\ RolledBackLast'
    BY <1>4, <1>7, <1>10, <1>11 DEF SelectorWrite, RolledBackLast, Files
  <2>5. QED BY <2>1, <2>3, <2>4 DEF OrderSound
<1>15. InstallReceipt(Coming, 1)'
  <2>1. ASSUME NEW k \in Kinds PROVE InstallRow(k, doc.acts[k], 1)'
    <3>1. /\ 1 <= PlanAt[k] /\ ~(PlanAt[k] < 1) /\ ~(RecordAt[k] < 1) /\ 1 # ForwardAt[k] /\ ~(ForwardAt[k] < 1)
      BY Distances
    <3>2. At(k, Pre(k), "none", "none")'
      BY <1>6 DEF At
    <3>3. QED BY <1>11, <3>1, <3>2 DEF InstallRow
  <2>2. {r \in Roles : PostAt[r] < 1} = {}
    BY DEF PostAt, Roles, Kinds
  <2>3. InstallReceipt(doc, 1)'
    BY <1>11, <2>1, <2>2 DEF InstallReceipt
  <2>4. QED BY <1>7, <1>10, <2>3
<1>16. InstallSelectors(1)'
  BY <1>4, <1>5 DEF InstallSelectors, Pair, Files
<1>17. ReceiptBare' /\ Open' /\ 1 \in 1..34
  <2>1. Open'
    BY <1>1, <1>2 DEF Open
  <2>2. QED BY <1>7, <2>1 DEF ReceiptBare
<1>18. Phase'
  BY <1>1, <1>4, <1>15, <1>16, <1>17, InstallPhase
<1>19. QED BY <1>8, <1>9, <1>13, <1>14, <1>18 DEF Base


-----------------------------------------------------------------------------
(* The steps of a rollback, and the removal of the bundle.                  *)

\* A rollback at its place, with no write in hand.
LEMMA RollAt ==
    ASSUME Base, Phase, Running("rolling")
    PROVE  /\ Known(Doc) = Doc /\ Parsed(Doc) /\ Doc \in Receipts /\ DocSound(Doc) /\ RollingRows(Doc) /\ Docs = {Doc}
           /\ Bare("receipt") /\ json["pending"].temp = "none" /\ Open /\ Coming = Doc
           /\ proc.pc = "rolling" /\ proc.write.step = "none" /\ proc.write = Quiet /\ \A f \in Files : ~Busy(f)
           /\ proc.cmd # "none" /\ (proc.at = 0 \/ (proc.at = 1 /\ Doc.acts["bundle"].state # "STAGED"))
           /\ "active" \in Doc.posts
<1>1. proc.pc = "rolling" /\ proc.write.step = "none"
  BY DEF Running
<1>2. proc.write = Quiet /\ (\A f \in Files : ~Busy(f)) /\ Coming = Known(Doc)
  BY <1>1, AtRest
<1>3. RollingRows(Known(Doc)) /\ Bare("receipt")
  BY <1>1, <1>2 DEF Phase, RollingSound, HandSound, ReceiptBare, Files
<1>4. Parsed(Doc)
  BY <1>3, KnownDoc, FreshTyped DEF RollingRows
<1>5. Known(Doc) = Doc /\ Doc \in Receipts /\ DocSound(Doc) /\ Docs = {Doc} /\ RollingRows(Doc)
  BY <1>1, <1>3, <1>4, KnownDoc
<1>6. json["pending"].temp = "none"
  BY <1>4 DEF Base, OrderSound, PendingFirst
<1>7. Open /\ proc.cmd # "none"
  BY <1>1 DEF Phase, PlaceSound, IdleSound, Open
<1>8. proc.at = 0 \/ (proc.at = 1 /\ Doc.acts["bundle"].state # "STAGED")
  BY <1>1, <1>2, <1>5 DEF Phase, PlaceSound, CursorSound
<1>9. "active" \in Doc.posts
  BY <1>5 DEF RollingRows, DocSound, SelectorSound
<1>10. QED BY <1>1, <1>2, <1>3, <1>4, <1>5, <1>6, <1>7, <1>8, <1>9

\* What a rollback must know at its new place.
LEMMA RollingPhase ==
    ASSUME Open', proc'.cmd # "none", proc'.pc = "rolling", RollingRows(Coming)', ReceiptBare',
           proc'.at = 0 \/ (proc'.at = 1 /\ Coming'.acts["bundle"].state # "STAGED"),
           ~Busy("active")', ~Busy("pending")'
    PROVE  Phase'
BY DEF Phase, HandSound, InstallSound, RollingSound, PlaceSound, IdleSound, CursorSound, RecoverySound, OutcomeWhole, Open

\* A rollback journals the step it takes.
LEMMA RollJournal ==
    ASSUME Base, Phase, Running("rolling"), Doc.status # "ROLLED_BACK", UNCHANGED <<had, json, backup, outcome, spent>>,
           MachineTyped', NEW doc \in Receipts, NEW n \in {0, 1}, n = 0 \/ doc.acts["bundle"].state # "STAGED",
           Journal(doc, "rolling", n), DocSound(Known(Doc))', DocSound(doc)',
           Merging(Known(Doc)) # Merging(doc) => rstage' = "merged",
           doc.status = "ROLLED_BACK" => backup # "none", RollingRows(doc)'
    PROVE  Base' /\ Phase'
<1>1. /\ ProcTyped' /\ proc'.cmd = proc.cmd /\ proc'.pc = "rolling" /\ proc'.at = n
      /\ proc'.write = [step |-> "create", file |-> "receipt", value |-> doc]
      /\ Busy("receipt")' /\ ~Busy("pending")' /\ ~Busy("active")'
  <2>1. Publish("receipt", doc, "create", "rolling", n)
    BY DEF Journal
  <2>2. "receipt" \in Files /\ "rolling" \in Phases \ {"idle"} /\ "create" \in {"create", "finish"} /\ n \in 0..34
    BY Cursors DEF Files, Phases
  <2>3. proc.pc # "idle" /\ UNCHANGED outcome
    BY DEF Running
  <2>4. QED BY <2>1, <2>2, <2>3, WriteBegins DEF Files
<1>2. RestTyped'
  BY DEF Base, Typed, RestTyped
<1>3. Bare("receipt") /\ json["pending"].temp = "none" /\ proc.write.step = "none" /\ Open /\ proc.cmd # "none"
  BY RollAt
<1>4. Base' /\ Coming' = doc /\ (Bare("receipt") /\ Busy("receipt"))'
  BY <1>1, <1>2, <1>3, JournalKeeps
<1>5. Open' /\ ReceiptBare' /\ RollingRows(Coming)'
  BY <1>3, <1>4 DEF Open, ReceiptBare
<1>6. QED BY <1>1, <1>3, <1>4, <1>5, RollingPhase

\* A rollback moves something and writes nothing.
LEMMA RollStays ==
    ASSUME Base, Phase, Running("rolling"), UNCHANGED <<had, json, backup, proc, outcome, spent>>, MachineTyped',
           DocSound(Known(Doc))',
           NEW doc, doc = Doc, RollingRows(doc)'
    PROVE  Base' /\ Phase'
<1>1. /\ Bare("receipt") /\ proc.write = Quiet /\ proc.write.step = "none" /\ Open /\ proc.cmd # "none" /\ proc.pc = "rolling"
      /\ Known(Doc) = Doc /\ Parsed(Doc) /\ (proc.at = 0 \/ (proc.at = 1 /\ doc.acts["bundle"].state # "STAGED"))
  BY RollAt
<1>2. ProcTyped' /\ RestTyped' /\ proc'.write = Quiet /\ UNCHANGED <<json, had>>
  BY <1>1 DEF Base, Typed, RestTyped, ProcTyped
<1>3. Base' /\ Coming' = doc /\ Bare("receipt")' /\ \A f \in Files : ~Busy(f)'
  BY <1>1, <1>2, MachineKeeps
<1>4. Open' /\ ReceiptBare' /\ RollingRows(Coming)'
  BY <1>1, <1>3 DEF Open, ReceiptBare
<1>5. QED BY <1>1, <1>3, <1>4, RollingPhase DEF Files

\* The receipt that says that a rollback is under way.
LEMMA RollbackIntentKeeps ==
    ASSUME Base, Phase, RollbackIntent
    PROVE  Base' /\ Phase'
<1>1. /\ Running("rolling") /\ Doc.status \in {"PREPARED", "INSTALLED"} /\ UNCHANGED <<machine, json, outcome, spent>>
      /\ UNCHANGED <<had, place, rstage, bundle, backup>>
  BY DEF RollbackIntent, machine
<1>2. Known(Doc) = Doc /\ Doc \in Receipts /\ DocSound(Doc) /\ RollingRows(Doc) /\ "active" \in Doc.posts
  BY <1>1, RollAt
<1>3. PICK old, new : old = Doc /\ new = [Doc EXCEPT !.status = "ROLLBACK_PENDING"]
  OBVIOUS
<1>4. /\ new \in Receipts /\ new.acts = old.acts /\ new.posts = old.posts /\ new.status = "ROLLBACK_PENDING"
  BY <1>2, <1>3 DEF Receipts
<1>5. Journal(new, "rolling", 0)
  BY <1>3 DEF RollbackIntent
<1>6. DocSound(new)
  <2>1. SelectorSound(new)
    BY <1>1, <1>2, <1>3, <1>4 DEF DocSound, SelectorSound
  <2>2. StatusSound(new)
    BY <1>4 DEF StatusSound
  <2>3. QED BY <1>2, <1>3, <1>4, <2>1, <2>2 DEF DocSound
<1>7. DocSound(new)' /\ DocSound(Known(Doc))'
  <2>1. Waiting' => Waiting
    BY <1>1 DEF Waiting
  <2>2. json'["active"] = json["active"]
    BY <1>1
  <2>3. DocSound(new)'
    BY <1>1, <1>6, <2>1, <2>2, SoundSame
  <2>4. QED BY <1>1, <2>3, KnownSame
<1>8. RollingRows(new)'
  BY <1>1, <1>2, <1>3, <1>4 DEF RollingRows, At, Pre
<1>9. Merging(new) = Merging(Known(Doc))
  BY <1>2, <1>3, <1>4 DEF Merging
<1>10. MachineTyped'
  BY <1>1 DEF Base, Typed, MachineTyped
<1>11. Doc.status # "ROLLED_BACK" /\ new.status # "ROLLED_BACK" /\ 0 \in {0, 1}
  BY <1>1, <1>4
<1>12. QED BY <1>1, <1>4, <1>5, <1>7, <1>8, <1>9, <1>10, <1>11, RollJournal


\* The receipt that says the bundle is gone.
LEMMA CleanedSound ==
    ASSUME UNCHANGED <<had, place, rstage, backup, json>>, bundle' = "none", NEW old, DocSound(old),
           old.status # "ROLLED_BACK", old.acts["bundle"].state = "STAGED",
           NEW new \in Receipts, new.posts = old.posts, new.status = old.status,
           new.acts["bundle"].state = "CLEANED", \A k \in Kinds : new.acts[k] = old.acts[k]
    PROVE  DocSound(new)'
<1>1. \A k \in Kinds : Agrees(k, new.acts[k])'
  <2>1. \A k \in Kinds : Agrees(k, new.acts[k])
    BY DEF DocSound
  <2>2. QED BY <2>1 DEF Agrees, MergeRow, PlainRow, RowIs, TargetIs, Pre
<1>2. BundleAgrees(new.acts["bundle"])'
  BY DEF BundleAgrees
<1>3. "active" \in old.posts
  BY DEF DocSound, SelectorSound
<1>4. SelectorSound(new)'
  BY <1>3 DEF DocSound, SelectorSound, Bare, Shown, PrevActive, Mine
<1>5. StatusSound(new)'
  <2>1. StatusSound(old)
    BY DEF DocSound
  <2>2. Waiting /\ old.status = "PREPARED" => FALSE
    BY <2>1 DEF StatusSound
  <2>3. QED BY <2>1, <2>2 DEF StatusSound, Waiting, RowIs, TargetIs, Pre
<1>6. QED BY <1>1, <1>2, <1>4, <1>5 DEF DocSound

\* A rollback removes the bundle piece by piece and journals it.
LEMMA CleanBundleKeeps ==
    ASSUME Base, Phase, CleanBundle
    PROVE  Base' /\ Phase'
<1>1. /\ UNCHANGED <<had, place, rstage, json, backup, outcome, spent>> /\ Doc.acts["bundle"].state = "STAGED"
      /\ Doing("clean") \/ Rolling \/ (Running("recover") /\ Mine /\ Bare("receipt") /\ Uncleaned)
      /\ bundle' \in {"part", "none"}
      /\ \/ bundle' = "part" /\ UNCHANGED proc
         \/ /\ bundle' = "none"
            /\ Journal(WithAct("bundle", [Doc.acts["bundle"] EXCEPT !.state = "CLEANED"]),
                       IF proc.pc = "recover" THEN "recovered" ELSE proc.pc, proc.at + 1)
  BY DEF CleanBundle
<1>2. MachineTyped' /\ RestTyped'
  BY <1>1 DEF Base, Typed, MachineTyped, RestTyped
<1>3. Doing("clean") => Running("install") /\ proc.at = 33
  <2>1. ASSUME Doing("clean") PROVE Running("install") /\ proc.at = 33
    <3>1. Running("install") /\ Program[proc.at].op = "clean"
      BY <2>1 DEF Doing
    <3>2. proc.at \in 1..34
      BY <3>1, InstallAt
    <3>3. QED BY <3>1, <3>2, StepNumbers
  <2>2. QED BY <2>1
<1>4. /\ Known(Doc) = Doc /\ Parsed(Doc) /\ Doc \in Receipts /\ DocSound(Doc) /\ Bare("receipt")
      /\ json["pending"].temp = "none" /\ Open /\ proc.write.step = "none" /\ proc.cmd # "none"
      /\ proc.write = Quiet /\ Coming = Doc /\ proc.pc # "idle"
  <2>1. CASE Doing("clean")
    <3>1. Running("install") /\ proc.at >= 3 /\ proc.write.step = "none" /\ proc.pc # "idle"
      BY <1>3, <2>1 DEF Running
    <3>2. Known(Doc) = Doc /\ proc.cmd = "install"
      BY <3>1, InstallAt
    <3>3. QED BY <3>1, <3>2, InstallAt, AtRest
  <2>2. CASE Rolling
    BY <2>2, RollAt DEF Rolling
  <2>3. CASE Running("recover") /\ Mine /\ Bare("receipt") /\ Uncleaned
    <3>1. /\ Known(Doc) = Doc /\ Parsed(Doc) /\ Doc \in Receipts /\ DocSound(Doc)
      BY <2>3, ShownIsParsed
    <3>2. proc.write.step = "none" /\ proc.pc # "idle"
      BY <2>3 DEF Running
    <3>3. json["pending"].temp = "none"
      BY <3>1 DEF Base, OrderSound, PendingFirst
    <3>4. Open /\ proc.cmd # "none"
      BY <3>2 DEF Phase, PlaceSound, IdleSound, Open
    <3>5. QED BY <2>3, <3>1, <3>2, <3>3, <3>4, AtRest
  <2>4. QED BY <1>1, <2>1, <2>2, <2>3
<1>5. Doc.status # "ROLLED_BACK"
  <2>1. CASE Doing("clean")
    <3>1. proc.at \in 1..34 /\ InstallReceipt(Known(Doc), proc.at)
      BY <1>3, <2>1, InstallAt
    <3>2. QED BY <1>4, <3>1 DEF InstallReceipt
  <2>2. QED BY <1>1, <2>1 DEF Rolling, Uncleaned
<1>6. PICK old : old = Doc
  OBVIOUS
<1>7. DocSound(Known(Doc))'
  <2>1. BundleAgrees(old.acts["bundle"])'
    BY <1>1, <1>6 DEF BundleAgrees
  <2>2. DocSound(old)'
    BY <1>1, <1>4, <1>5, <1>6, <2>1, BundleSound
  <2>3. Known(Doc)' = old
    BY <1>1, <1>4, <1>6 DEF Known, Doc
  <2>4. QED BY <2>2, <2>3
<1>9. CASE bundle' = "part" /\ UNCHANGED proc
  <2>1. ProcTyped' /\ proc'.write = Quiet
    BY <1>4, <1>9 DEF Base, Typed, ProcTyped
  <2>2. Base' /\ Coming' = Coming /\ Bare("receipt")' /\ \A f \in Files : ~Busy(f)'
    BY <1>1, <1>2, <1>4, <1>7, <2>1, MachineKeeps
  <2>3. (\A f \in Files : ~Busy(f)) /\ Doc' = Doc
    BY <1>1, <1>4, AtRest DEF Doc
  <2>4. PICK c : c = Coming /\ c = Doc /\ c.acts["bundle"].state = "STAGED"
    BY <1>1, <1>4
  <2>5. Coming' = c
    BY <2>2, <2>4
  <2>6. HandSound' /\ RollingSound'
    <3>1. HandSound'
      BY <2>2 DEF HandSound, ReceiptBare
    <3>2. proc.pc = "rolling" => RollingRows(c)
      BY <2>4 DEF Phase, RollingSound
    <3>3. proc.pc = "rolling" => RollingRows(c)'
      BY <1>1, <2>4, <3>2 DEF RollingRows, At, Pre
    <3>4. QED BY <1>9, <2>5, <3>1, <3>3 DEF RollingSound
  <2>7. InstallSound'
    <3>1. ASSUME proc.pc = "install"
          PROVE proc.cmd = "install" /\ proc.at \in 1..34 /\ rstage = "none" /\ InstallReceipt(c, proc.at) /\ InstallSelectors(proc.at)
      BY <2>4, <3>1 DEF Phase, InstallSound
    <3>2. PICK n : n = proc.at
      OBVIOUS
    <3>3. proc.pc = "install" => InstallReceipt(c, n)' /\ InstallSelectors(n)'
      <4>1. ASSUME proc.pc = "install" PROVE InstallReceipt(c, n)'
        <5>1. InstallReceipt(c, n)
          BY <3>1, <3>2, <4>1
        <5>2. \A k \in Kinds : InstallRow(k, c.acts[k], n)'
          BY SMTT(30), <1>1, <5>1 DEF InstallReceipt, InstallRow, At, Pre
        <5>3. QED BY <5>1, <5>2 DEF InstallReceipt
      <4>2. ASSUME proc.pc = "install" PROVE InstallSelectors(n)'
        <5>1. InstallSelectors(n)
          BY <3>1, <3>2, <4>2
        <5>2. UNCHANGED <<json, backup, proc>> /\ PrevActive' = PrevActive /\ (\A f \in Files : Busy(f)' <=> Busy(f))
          BY <1>1, <1>9, <2>2, <2>3 DEF PrevActive
        <5>3. QED BY <2>3, <5>1, <5>2 DEF InstallSelectors, Pair, Mine, Waiting, Doc, Parsed, Files
      <4>3. QED BY <4>1, <4>2
    <3>4. QED BY <1>1, <1>9, <2>5, <3>1, <3>2, <3>3 DEF InstallSound
  <2>8. PlaceSound'
    <3>1. IdleSound'
      BY <1>1, <1>9 DEF Phase, PlaceSound, IdleSound
    <3>2. CursorSound'
      BY <1>9, <2>2, <2>4, <2>5 DEF Phase, PlaceSound, CursorSound, Files
    <3>3. RecoverySound'
      BY <1>1, <1>9, <2>2, <2>3, <2>4, <2>5 DEF Phase, PlaceSound, RecoverySound, Reversed, Mine, Settled, PrevActive, Files
    <3>4. QED BY <3>1, <3>2, <3>3 DEF PlaceSound
  <2>9. Open' /\ OutcomeWhole'
    <3>1. Open'
      BY <1>1, <1>4 DEF Open
    <3>2. QED BY <3>1 DEF Open, OutcomeWhole
  <2>10. QED BY <2>2, <2>6, <2>7, <2>8, <2>9 DEF Phase
<1>10. CASE /\ bundle' = "none"
            /\ Journal(WithAct("bundle", [Doc.acts["bundle"] EXCEPT !.state = "CLEANED"]),
                       IF proc.pc = "recover" THEN "recovered" ELSE proc.pc, proc.at + 1)
  <2>1. PICK act, new : act = [Doc.acts["bundle"] EXCEPT !.state = "CLEANED"] /\ new = WithAct("bundle", act)
    OBVIOUS
  <2>2. act \in ActTypes /\ act.state = "CLEANED"
    <3>1. Doc.acts["bundle"] \in ActTypes
      BY <1>4 DEF Receipts, ActTypes
    <3>2. QED BY <2>1, <3>1 DEF ActTypes
  <2>3. /\ new \in Receipts /\ new.acts["bundle"] = act /\ new.posts = old.posts /\ new.status = old.status
        /\ \A k \in Kinds : new.acts[k] = old.acts[k]
    <3>1. "bundle" \in Kinds \cup {"bundle"} /\ "bundle" \notin Kinds
      BY DEF Kinds
    <3>2. QED BY <1>4, <1>6, <2>1, <2>2, <3>1, ActSet
  <2>4. DocSound(new)'
    BY <1>1, <1>4, <1>5, <1>6, <1>10, <2>2, <2>3, CleanedSound
  <2>5. Merging(new) = Merging(Known(Doc))
    BY <1>4, <1>6, <2>3 DEF Merging, Kinds
  <2>6. CASE Doing("clean")
    <3>1. Running("install") /\ proc.at = 33 /\ proc.pc = "install"
      BY <1>3, <2>6 DEF Running
    <3>2. Journal(new, "install", 34)
      <4>1. proc.at + 1 = 34
        BY <3>1
      <4>2. QED BY <1>10, <2>1, <3>1, <4>1
    <3>3. InstallReceipt(old, 33)
      <4>1. InstallReceipt(Known(Doc), proc.at)
        BY <3>1, InstallAt
      <4>2. QED BY <1>4, <1>6, <3>1, <4>1
    <3>4. InstallReceipt(new, 34)'
      <4>1. PICK n : n = 33
        OBVIOUS
      <4>2. n \in 1..33 /\ n + 1 = 34 /\ n \notin {6, 9, 32} /\ InstallReceipt(old, n)
        BY <3>3, <4>1
      <4>3. \A k \in Kinds : n \notin {PlanAt[k], FillAt[k], RecordAt[k], ForwardAt[k]}
        BY <4>1, Distances
      <4>4. UNCHANGED had /\ Kinds \in SUBSET Kinds /\ \A k \in Kinds : place'[k] = place[k] /\ new.acts[k] = old.acts[k]
        BY <1>1, <2>3
      <4>5. \A k \in Kinds : InstallRow(k, new.acts[k], n + 1)'
        BY ONLY <4>2, <4>3, <4>4, RowsKept
      <4>6. {r \in Roles : PostAt[r] = n} = {}
        BY <4>1 DEF PostAt, Roles, Kinds
      <4>7. new.posts = old.posts \cup {r \in Roles : PostAt[r] = n}
        BY <2>3, <4>6
      <4>8. InstallReceipt(new, n + 1)'
        BY <2>2, <2>3, <4>1, <4>2, <4>5, <4>7, ReceiptNext
      <4>9. QED BY <4>2, <4>8
    <3>5. 34 \in 5..34 /\ 34 \in {proc.at, proc.at + 1} /\ proc.at >= 6
      BY <3>1
    <3>6. new.acts["bundle"].state \in {"unplanned", "CLEANED"} => bundle' = "none"
      BY <1>10
    <3>7. QED BY <1>1, <1>2, <1>7, <2>3, <3>1, <3>2, <3>4, <3>5, <3>6, InstallJournal
  <2>7. CASE Rolling
    <3>1. Running("rolling") /\ proc.pc = "rolling" /\ proc.at = 0 /\ RollingRows(Doc) /\ Doc.status = "ROLLBACK_PENDING"
      BY <1>1, <2>7, RollAt DEF Rolling
    <3>2. Journal(new, "rolling", 1)
      <4>1. proc.at + 1 = 1
        BY <3>1
      <4>2. QED BY <1>10, <2>1, <3>1, <4>1
    <3>3. RollingRows(new)'
      <4>1. new.status # "ROLLED_BACK" /\ "codex" \in Kinds
        BY <1>6, <2>3, <3>1 DEF Kinds
      <4>2. QED BY <1>1, <1>6, <2>2, <2>3, <3>1, <4>1 DEF RollingRows, At, Pre
    <3>4. 1 \in {0, 1} /\ new.acts["bundle"].state # "STAGED" /\ new.status # "ROLLED_BACK"
      BY <1>5, <1>6, <2>2, <2>3
    <3>5. QED BY <1>1, <1>2, <1>5, <1>7, <2>3, <2>4, <2>5, <3>1, <3>2, <3>3, <3>4, RollJournal
  <2>8. CASE Running("recover") /\ Uncleaned
    <3>1. proc.pc = "recover" /\ proc.at = 0 /\ new.status = "INSTALLED"
      BY <1>1, <1>4, <1>6, <2>3, <2>8 DEF Running, Uncleaned, Phase, PlaceSound, CursorSound
    <3>2. Publish("receipt", new, "create", "recovered", 1)
      <4>1. proc.at + 1 = 1
        BY <3>1
      <4>2. QED BY <1>10, <2>1, <3>1, <4>1 DEF Journal
    <3>3. /\ ProcTyped' /\ proc'.cmd = proc.cmd /\ proc'.pc = "recovered" /\ proc'.at = 1
          /\ proc'.write = [step |-> "create", file |-> "receipt", value |-> new]
          /\ Busy("receipt")' /\ ~Busy("pending")' /\ ~Busy("active")'
      <4>1. "receipt" \in Files /\ "recovered" \in Phases \ {"idle"} /\ "create" \in {"create", "finish"}
            /\ UNCHANGED outcome /\ proc.pc # "idle"
        BY <1>1, <1>4 DEF Files, Phases
      <4>2. QED BY ZenonT(60), <2>3, <3>2, <4>1, Cursors, WriteBegins DEF Files
    <3>4. Base' /\ Coming' = new /\ (Bare("receipt") /\ Busy("receipt"))'
      BY <1>1, <1>2, <1>4, <1>5, <1>6, <1>7, <2>3, <2>4, <2>5, <3>3, JournalKeeps
    <3>5. Settled(new) /\ new.acts["bundle"].state # "STAGED"
      BY <2>2, <2>3, <3>1 DEF Settled
    <3>6. Open'
      BY <1>1, <1>4 DEF Open
    <3>7. HandSound' /\ InstallSound' /\ RollingSound'
      BY <3>3, <3>4 DEF HandSound, ReceiptBare, InstallSound, RollingSound
    <3>8. PlaceSound'
      BY <1>4, <3>3, <3>4, <3>5, <3>6 DEF PlaceSound, IdleSound, CursorSound, RecoverySound, Open
    <3>9. QED BY <3>4, <3>6, <3>7, <3>8 DEF Phase, OutcomeWhole, Open
  <2>9. QED BY <1>1, <2>6, <2>7, <2>8
<1>11. QED BY <1>1, <1>9, <1>10


\* What a rollback has in hand while it undoes the objects.
LEMMA UndoAt ==
    ASSUME Base, Phase, Rolling
    PROVE  /\ Running("rolling") /\ Doc.status = "ROLLBACK_PENDING" /\ "active" \in Doc.posts /\ "codex" \in Kinds
           /\ Known(Doc) = Doc /\ Parsed(Doc) /\ Doc \in Receipts /\ DocSound(Doc) /\ RollingRows(Doc)
           /\ \A k \in Kinds : Agrees(k, Doc.acts[k]) /\ Doc.acts[k] \in ActTypes
           /\ Doc.acts["codex"].state = "COMPLETED" => place["codex"].stage = "none" /\ place["codex"].recovery = Pre("codex")
           /\ Doc.acts["codex"].state \in {"COMPLETED", "SEMANTIC_STAGED"} => place["codex"].target # "clash"
           /\ \A k \in Kinds : Doc.acts[k].state = "PLANNED" => At(k, Pre(k), "none", "none")
           /\ Doc.acts["bundle"].state = "PLANNED" => bundle = "none"
<1>1. Running("rolling") /\ Doc.status = "ROLLBACK_PENDING" /\ "codex" \in Kinds
  BY DEF Rolling, Kinds
<1>2. Known(Doc) = Doc /\ Parsed(Doc) /\ Doc \in Receipts /\ DocSound(Doc) /\ RollingRows(Doc) /\ "active" \in Doc.posts
  BY <1>1, RollAt
<1>3. \A k \in Kinds : Agrees(k, Doc.acts[k]) /\ Doc.acts[k] \in ActTypes
  BY <1>2 DEF DocSound, Receipts, ActTypes
<1>4. QED BY <1>1, <1>2, <1>3 DEF RollingRows

\* One object is moved, or not, and the rollback journals what it did with it.
LEMMA UndoJournal ==
    ASSUME Base, Phase, Rolling, NEW k \in Kinds, UNCHANGED <<had, bundle, json, backup, outcome, spent>>,
           place' \in [Kinds -> PlaceTypes], \A j \in Kinds \ {k} : place'[j] = place[j],
           rstage' \in {"none", "part", "merged", "edit"}, k # "codex" => rstage' = rstage,
           NEW old, old = Doc, NEW act \in ActTypes, act.state \notin {"PLANNED", "COMPLETED"},
           NEW new, new = WithAct(k, act), Journal(new, "rolling", 0),
           Doc.acts[k].state # "PLANNED",
           Agrees(k, old.acts[k])', Agrees(k, act)',
           k = "codex" => /\ old.acts[k].semantic => act.semantic
                          /\ act.semantic => old.acts[k].semantic \/ rstage' = "merged"
                          /\ act.state = "SEMANTIC_STAGED" => place'[k].target # "clash"
    PROVE  Base' /\ Phase'
<1>1. /\ Running("rolling") /\ Doc.status = "ROLLBACK_PENDING" /\ "active" \in Doc.posts
      /\ Known(Doc) = Doc /\ Parsed(Doc) /\ Doc \in Receipts /\ DocSound(Doc) /\ RollingRows(Doc) /\ "codex" \in Kinds
  BY UndoAt
<1>2. /\ new \in Receipts /\ new.acts[k] = act /\ new.posts = old.posts /\ new.status = old.status
      /\ \A j \in (Kinds \cup {"bundle"}) \ {k} : new.acts[j] = old.acts[j]
  <2>1. k \in Kinds \cup {"bundle"}
    OBVIOUS
  <2>2. QED BY <1>1, <2>1, ActSet
<1>3. UNCHANGED <<had, bundle, backup, json>>
  OBVIOUS
<1>4. DocSound(Known(Doc))'
  <2>1. DocSound(old)'
    BY <1>1, <1>3, MovedSound
  <2>2. Known(Doc)' = old
    BY <1>1 DEF Known, Doc
  <2>3. QED BY <2>1, <2>2
<1>5. DocSound(new)'
  <2>1. Agrees(k, new.acts[k])'
    BY <1>2
  <2>2. QED BY <1>1, <1>2, <1>3, <2>1, RowSound
<1>6. RollingRows(new)'
  <2>1. new.status # "ROLLED_BACK" /\ "active" \in new.posts
    BY <1>1, <1>2
  <2>2. \A j \in Kinds : new.acts[j].state = "PLANNED" => At(j, Pre(j), "none", "none")'
    <3>1. ASSUME NEW j \in Kinds \ {k}, new.acts[j].state = "PLANNED" PROVE At(j, Pre(j), "none", "none")'
      <4>1. At(j, Pre(j), "none", "none") /\ place'[j] = place[j] /\ Pre(j)' = Pre(j)
        BY <1>1, <1>2, <1>3, <3>1 DEF RollingRows, Pre
      <4>2. QED BY <4>1 DEF At
    <3>2. QED BY <1>2, <3>1
  <2>3. new.acts["bundle"].state = "PLANNED" => bundle' = "none"
    BY <1>1, <1>2 DEF RollingRows, Kinds
  <2>4. new.acts["codex"].state = "COMPLETED" => place'["codex"].stage = "none" /\ place'["codex"].recovery = Pre("codex")'
    <3>1. Pre("codex")' = Pre("codex")
      BY <1>3 DEF Pre
    <3>2. QED BY <1>1, <1>2, <3>1 DEF RollingRows
  <2>5. new.acts["codex"].state \in {"COMPLETED", "SEMANTIC_STAGED"} => place'["codex"].target # "clash"
    BY <1>1, <1>2 DEF RollingRows
  <2>6. QED BY <2>1, <2>2, <2>3, <2>4, <2>5 DEF RollingRows
<1>7. Merging(Known(Doc)) # Merging(new) => rstage' = "merged"
  <2>1. old.acts["codex"].semantic \in BOOLEAN /\ new.acts["codex"].semantic \in BOOLEAN
    BY <1>1, <1>2 DEF Receipts
  <2>2. CASE k = "codex"
    BY <1>1, <1>2, <2>1, <2>2 DEF Merging
  <2>3. CASE k # "codex"
    BY <1>1, <1>2, <2>1, <2>3 DEF Merging
  <2>4. QED BY <2>2, <2>3
<1>8. MachineTyped'
  BY DEF Base, Typed, MachineTyped
<1>9. Doc.status # "ROLLED_BACK" /\ new.status # "ROLLED_BACK" /\ 0 \in {0, 1} /\ UNCHANGED <<had, json, backup, outcome, spent>>
  BY <1>1, <1>2
<1>10. QED BY <1>1, <1>2, <1>4, <1>5, <1>6, <1>7, <1>8, <1>9, RollJournal


\* An object's row in a table of renames, or the same row a little earlier.
LEMMA RestoreObjectKeeps ==
    ASSUME Base, Phase, NEW k \in Kinds, RestoreObject(k)
    PROVE  Base' /\ Phase'
<1>1. PICK q, old, before : q = Pre(k) /\ old = Doc /\ before = Doc.acts[k]
  OBVIOUS
<1>2. /\ Rolling /\ before.state \notin {"unplanned", "PLANNED", "RESTORED"} /\ (k = "codex" => ~Semantic)
      /\ UNCHANGED <<had, rstage, bundle, json, backup, outcome, spent>>
  BY <1>1 DEF RestoreObject, Restoring, Live
<1>3. /\ Running("rolling") /\ Known(Doc) = Doc /\ Parsed(Doc) /\ RollingRows(Doc)
      /\ Agrees(k, before) /\ before \in ActTypes
      /\ k = "codex" /\ before.state = "COMPLETED" => place[k].stage = "none" /\ place[k].recovery = q
  BY <1>1, <1>2, UndoAt
<1>4. /\ q \in {"pre", "none"} /\ Pre(k)' = q /\ (k \in had <=> q = "pre")
  BY <1>1, <1>2 DEF Pre
<1>5. ~before.semantic /\ PlainRow(k, before)
  BY <1>1, <1>2, <1>3 DEF Agrees, Semantic
<1>6. PICK p \in {"post", "part"} : p = before.post
  BY <1>2, <1>5 DEF PlainRow, Begun
<1>7. before.state \in Begun /\ (k = "codex" => p = "post")
  BY <1>2, <1>5, <1>6 DEF PlainRow
<1>8. place \in [Kinds -> PlaceTypes] /\ MachineTyped /\ rstage \in {"none", "part", "merged", "edit"}
  BY DEF Base, Typed, MachineTyped
<1>9. /\ k = "codex" /\ place[k].target \in {"pre", "post", "none"} => rstage = "none"
  BY <1>5 DEF PlainRow
<1>10. ASSUME NEW row \in PlaceTypes, NEW s \in {"RESTORING", "RESTORED"}, RestoreTo(k, row, s),
              k = "codex" => place[k].target \in {"pre", "post", "none"},
              \/ s = "RESTORED" /\ row = [target |-> q, stage |-> "none", recovery |-> "none"]
              \/ /\ s = "RESTORING"
                 /\ \/ row = [target |-> q, stage |-> p, recovery |-> "none"]
                       /\ (k = "codex" => before.state # "COMPLETED")
                    \/ row = [target |-> q, stage |-> "none", recovery |-> p],
              s = "RESTORED" => before.state # "COMPLETED" \/ k # "codex"
       PROVE  Base' /\ Phase'
  <2>1. PICK act : act = [before EXCEPT !.state = s,
                            !.recovery = IF s = "RESTORING" /\ k \in had /\ row.recovery = "none"
                                         THEN "null" ELSE row.recovery]
    OBVIOUS
  <2>2. PICK new : new = WithAct(k, act)
    OBVIOUS
  <2>3. place' = [place EXCEPT ![k] = row] /\ Journal(new, "rolling", 0)
    BY <1>1, <1>10, <2>1, <2>2 DEF RestoreTo
  <2>4. place' \in [Kinds -> PlaceTypes] /\ place'[k] = row /\ \A j \in Kinds \ {k} : place'[j] = place[j]
    BY <1>8, <1>10, <2>3, PlaceSet
  <2>5. /\ act \in ActTypes /\ act.state = s /\ act.post = p /\ ~act.semantic
    <3>1. row.recovery \in {"none", p}
      BY <1>10
    <3>2. (IF s = "RESTORING" /\ k \in had /\ row.recovery = "none" THEN "null" ELSE row.recovery)
             \in {"null", "none", "pre", "post", "part"}
      BY <3>1
    <3>3. before = [state |-> before.state, post |-> before.post, recovery |-> before.recovery, semantic |-> before.semantic]
      BY <1>3 DEF ActTypes
    <3>4. act \in ActTypes
      BY <1>3, <1>10, <2>1, <3>2 DEF ActTypes
    <3>5. act.state = s /\ act.post = before.post /\ act.semantic = before.semantic
      BY <2>1, <3>3
    <3>6. QED BY <1>5, <1>6, <3>4, <3>5
  <2>6. k = "codex" => rstage' = "none"
    BY <1>2, <1>4, <1>9, <1>10, <2>4 DEF At
  <2>7. /\ s = "RESTORED" => RowIs(k, q, "none", "none")'
        /\ s = "RESTORING" => \/ RowIs(k, q, p, "none")' /\ (k = "codex" => before.state # "COMPLETED")
                              \/ RowIs(k, q, "none", p)'
    BY <1>10, <2>4 DEF RowIs, TargetIs
  <2>8. Agrees(k, act)'
    <3>1. act.state = s /\ act.post = p
      BY <2>5
    <3>2. PlainRow(k, act)'
      BY <1>4, <1>7, <1>10, <2>6, <2>7, <3>1 DEF PlainRow, Begun
    <3>3. QED BY <2>5, <3>2 DEF Agrees
  <2>9. Agrees(k, before)'
    <3>1. PlainRow(k, before)'
      BY <1>4, <1>6, <1>7, <1>10, <2>6, <2>7 DEF PlainRow, Begun
    <3>2. QED BY <1>5, <3>1 DEF Agrees
  <2>10. act.state \notin {"PLANNED", "COMPLETED"} /\ act.state # "SEMANTIC_STAGED" /\ Doc.acts[k].state # "PLANNED"
    BY <1>1, <1>2, <1>10, <2>5
  <2>11. QED
    <3>1. UNCHANGED <<had, bundle, json, backup, outcome, spent>> /\ rstage' = rstage /\ rstage' \in {"none", "part", "merged", "edit"}
      BY <1>2, <1>8
    <3>2. Agrees(k, old.acts[k])' /\ ~old.acts[k].semantic
      BY <1>1, <1>5, <2>9
    <3>3. QED BY <1>1, <1>2, <2>2, <2>3, <2>4, <2>5, <2>8, <2>10, <3>1, <3>2, UndoJournal
<1>11. CASE At(k, q, "none", "none") /\ RestoreTo(k, place[k], "RESTORED")
  <2>1. place[k] = [target |-> q, stage |-> "none", recovery |-> "none"] /\ place[k] \in PlaceTypes
    BY <1>8, <1>11 DEF At
  <2>2. before.state # "COMPLETED" \/ k # "codex"
    BY <1>4, <1>5, <1>6, <1>7, <2>1 DEF PlainRow, RowIs, TargetIs
  <2>3. QED BY <1>4, <1>10, <1>11, <2>1, <2>2
<1>12. CASE At(k, q, p, "none") /\ RestoreTo(k, Row(q, "none", p), "RESTORING")
  <2>1. PICK row \in PlaceTypes : row = Row(q, "none", p) /\ row = [target |-> q, stage |-> "none", recovery |-> p]
    BY <1>4, <1>6 DEF Row, PlaceTypes
  <2>2. k = "codex" => place[k].target \in {"pre", "post", "none"}
    BY <1>4, <1>12 DEF At
  <2>3. QED BY <1>10, <1>12, <2>1, <2>2
<1>13. CASE k \in had /\ At(k, p, q, "none") /\ RestoreTo(k, Row(q, p, "none"), "RESTORING")
  <2>1. PICK row \in PlaceTypes : row = Row(q, p, "none") /\ row = [target |-> q, stage |-> p, recovery |-> "none"]
    BY <1>4, <1>6 DEF Row, PlaceTypes
  <2>2. k = "codex" => place[k].target \in {"pre", "post", "none"} /\ before.state # "COMPLETED"
    BY <1>3, <1>4, <1>7, <1>13 DEF At
  <2>3. QED BY <1>10, <1>13, <2>1, <2>2
<1>14. CASE At(k, p, "none", q) /\ RestoreTo(k, Row(q, "none", p), "RESTORING")
  <2>1. PICK row \in PlaceTypes : row = Row(q, "none", p) /\ row = [target |-> q, stage |-> "none", recovery |-> p]
    BY <1>4, <1>6 DEF Row, PlaceTypes
  <2>2. k = "codex" => place[k].target \in {"pre", "post", "none"}
    BY <1>7, <1>14 DEF At
  <2>3. QED BY <1>10, <1>14, <2>1, <2>2
<1>15. CASE k \in Trees /\ At(k, q, "none", p) /\ place' = [place EXCEPT ![k].recovery = "rest"] /\ UNCHANGED proc
  <2>1. k # "codex"
    BY <1>15 DEF Trees
  <2>2. place[k] = [target |-> q, stage |-> "none", recovery |-> p]
    BY <1>15 DEF At
  <2>3. PICK row \in PlaceTypes : row = [target |-> q, stage |-> "none", recovery |-> "rest"]
    BY <1>4 DEF PlaceTypes
  <2>4. [place[k] EXCEPT !.recovery = "rest"] = row
    BY <2>2, <2>3
  <2>5. place' = [place EXCEPT ![k] = row]
    BY <1>15, <2>4
  <2>6. place' \in [Kinds -> PlaceTypes] /\ place'[k] = row /\ \A j \in Kinds \ {k} : place'[j] = place[j]
    BY <1>8, <2>5, PlaceSet
  <2>7. RowIs(k, q, "none", "rest")'
    BY <2>3, <2>6 DEF RowIs, TargetIs
  <2>8. Agrees(k, before)'
    <3>1. PlainRow(k, before)'
      BY <1>4, <1>6, <1>7, <1>15, <2>1, <2>7 DEF PlainRow, Begun
    <3>2. QED BY <1>5, <3>1 DEF Agrees
  <2>9. DocSound(old)'
    <3>1. UNCHANGED <<had, bundle, backup, json>> /\ rstage' = rstage /\ Agrees(k, old.acts[k])'
          /\ old.status = "ROLLBACK_PENDING" /\ DocSound(old)
      BY <1>1, <1>2, <2>8, UndoAt
    <3>2. QED BY <2>6, <3>1, MovedSound
  <2>10. DocSound(Known(Doc))'
    <3>1. Known(Doc)' = old
      BY <1>1, <1>2, <1>3 DEF Known, Doc
    <3>2. QED BY <2>9, <3>1
  <2>11. RollingRows(old)'
    <3>1. RollingRows(old) /\ old.acts[k].state # "PLANNED"
      BY <1>1, <1>2, <1>3
    <3>2. \A j \in Kinds : Pre(j)' = Pre(j)
      BY <1>2 DEF Pre
    <3>3. place'["codex"] = place["codex"]
      BY <2>1, <2>6 DEF Kinds
    <3>4. \A j \in Kinds : old.acts[j].state = "PLANNED" => At(j, Pre(j), "none", "none")'
      <4>1. ASSUME NEW j \in Kinds \ {k}, old.acts[j].state = "PLANNED" PROVE At(j, Pre(j), "none", "none")'
        <5>1. At(j, Pre(j), "none", "none") \/ old.status = "ROLLED_BACK"
          BY <3>1, <4>1 DEF RollingRows
        <5>2. At(j, Pre(j), "none", "none") /\ place'[j] = place[j]
          BY <1>1, <1>2, <2>6, <4>1, <5>1, UndoAt
        <5>3. QED BY <3>2, <5>2 DEF At
      <4>2. QED BY <3>1, <4>1
    <3>5. QED BY <1>2, <3>1, <3>2, <3>3, <3>4 DEF RollingRows, Kinds
  <2>12. MachineTyped'
    BY <1>2, <1>8, <2>6 DEF MachineTyped
  <2>13. UNCHANGED <<had, json, backup, proc, outcome, spent>>
    BY <1>2, <1>15
  <2>14. QED BY <1>1, <1>3, <2>10, <2>11, <2>12, <2>13, RollStays
<1>16. CASE /\ \/ k \in Trees /\ At(k, q, "none", "rest")
               \/ k \notin Trees /\ At(k, q, "none", p)
            /\ RestoreTo(k, Row(q, "none", "none"), "RESTORED")
  <2>1. PICK row \in PlaceTypes : row = Row(q, "none", "none") /\ row = [target |-> q, stage |-> "none", recovery |-> "none"]
    BY <1>4 DEF Row, PlaceTypes
  <2>2. before.state # "COMPLETED" \/ k # "codex"
    BY <1>3, <1>4, <1>6, <1>16 DEF At, Trees
  <2>3. k = "codex" => place[k].target \in {"pre", "post", "none"}
    BY <1>4, <1>16 DEF At
  <2>4. RestoreTo(k, row, "RESTORED")
    BY <1>16, <2>1
  <2>5. QED BY <1>10, <2>1, <2>2, <2>3, <2>4
<1>17. QED BY <1>1, <1>6, <1>11, <1>12, <1>13, <1>14, <1>15, <1>16 DEF RestoreObject


\* A rename or a receipt of the semantic rollback of config.toml.
LEMMA RestoreSemanticKeeps ==
    ASSUME Base, Phase, RestoreSemantic
    PROVE  Base' /\ Phase'
<1>1. PICK q, old, before, c : q = Pre("codex") /\ old = Doc /\ before = Doc.acts["codex"] /\ c = place["codex"]
  OBVIOUS
<1>2. /\ Rolling /\ before.state \notin {"unplanned", "PLANNED", "RESTORED"}
      /\ before.semantic \/ (before.state = "COMPLETED" /\ c.target \notin {"post", "none"})
      /\ UNCHANGED <<had, bundle, json, backup, outcome, spent>>
  BY <1>1 DEF RestoreSemantic, Restoring, Live, Semantic
<1>3. /\ Running("rolling") /\ Known(Doc) = Doc /\ Parsed(Doc) /\ RollingRows(Doc) /\ "codex" \in Kinds
      /\ Agrees("codex", before) /\ before \in ActTypes
      /\ before.state = "COMPLETED" => c.stage = "none" /\ c.recovery = q
      /\ before.state \in {"COMPLETED", "SEMANTIC_STAGED"} => c.target # "clash"
  BY <1>1, <1>2, UndoAt
<1>4. /\ q \in {"pre", "none"} /\ Pre("codex")' = q
  BY <1>1, <1>2 DEF Pre
<1>5. /\ MachineTyped /\ c \in PlaceTypes /\ c = [target |-> c.target, stage |-> c.stage, recovery |-> c.recovery]
      /\ place = [place EXCEPT !["codex"] = c]
  BY <1>1, <1>3 DEF Base, Typed, MachineTyped, PlaceTypes
<1>6. /\ before.semantic => /\ c.stage = "none" /\ c.target \in {"edit", "clash", "merged"}
                            /\ before.state \in {"SEMANTIC_STAGED", "SEMANTIC_SWAPPED", "RESTORING"}
                            /\ before.state = "SEMANTIC_STAGED" =>
                                  c.recovery = q /\ (rstage = "edit" \/ (rstage = "merged" /\ c.target # "merged"))
                            /\ before.state = "SEMANTIC_SWAPPED" => c.recovery = q /\ rstage \in {"edit", "none"}
                            /\ before.state = "RESTORING" => c.recovery \in {q, "none"} /\ rstage = "none"
      /\ ~before.semantic => before.state = "COMPLETED" /\ PlainRow("codex", before)
  BY <1>1, <1>2, <1>3 DEF Agrees, MergeRow
<1>7. ~before.semantic => c.target = "edit" /\ c.stage = "none" /\ c.recovery = q /\ before.post = "post"
  <2>1. ASSUME ~before.semantic PROVE c.target \in {"edit", "clash"} /\ before.post = "post"
    <3>1. /\ before.state = "COMPLETED" /\ PlainRow("codex", before) /\ c.target \notin {"post", "none"} /\ c.recovery = q
      BY <1>2, <1>3, <1>6, <2>1
    <3>2. before.post = "post" /\ (RowIs("codex", "post", "none", q) \/ RowIs("codex", q, "none", "post"))
      BY <1>1, <3>1 DEF PlainRow, Begun
    <3>3. RowIs("codex", "post", "none", q)
      BY <1>1, <1>4, <3>1, <3>2 DEF RowIs
    <3>4. QED BY <1>1, <3>1, <3>2, <3>3 DEF RowIs, TargetIs
  <2>2. QED BY <1>3, <1>6, <2>1
<1>8. ASSUME NEW row \in PlaceTypes, place' = [place EXCEPT !["codex"] = row], row.stage = "none",
             row.target \in {"edit", "clash", "merged"},
             row.recovery \in {q, "none"},
             NEW s \in {"SEMANTIC_STAGED", "SEMANTIC_SWAPPED", "RESTORING", "RESTORED"},
             Journal(WithAct("codex", [before EXCEPT !.state = s, !.semantic = TRUE,
                                                     !.recovery = place'["codex"].recovery]), "rolling", 0),
             rstage' \in {"none", "part", "merged", "edit"},
             before.semantic \/ rstage' = "merged",
             s = "SEMANTIC_STAGED" => row.target # "clash",
             Agrees("codex", before)',
             /\ s = "SEMANTIC_STAGED" =>
                   row.recovery = q /\ (rstage' = "edit" \/ (rstage' = "merged" /\ row.target # "merged"))
             /\ s = "SEMANTIC_SWAPPED" => row.recovery = q /\ rstage' \in {"edit", "none"}
             /\ s = "RESTORING" => row.recovery \in {q, "none"} /\ rstage' = "none"
             /\ s = "RESTORED" => row.recovery = "none" /\ rstage' = "none"
      PROVE  Base' /\ Phase'
  <2>1. place' \in [Kinds -> PlaceTypes] /\ place'["codex"] = row /\ \A j \in Kinds \ {"codex"} : place'[j] = place[j]
    BY <1>3, <1>5, <1>8, PlaceSet
  <2>2. PICK r, act, new : /\ r = row.recovery
                           /\ act = [before EXCEPT !.state = s, !.semantic = TRUE, !.recovery = r]
                           /\ new = WithAct("codex", act)
    OBVIOUS
  <2>3. Journal(new, "rolling", 0)
    BY <1>8, <2>1, <2>2
  <2>4. act \in ActTypes /\ act.state = s /\ act.semantic
    <3>1. r \in {"none", "pre"}
      BY <1>4, <1>8, <2>2
    <3>2. QED BY <1>3, <1>8, <2>2, <3>1 DEF ActTypes
  <2>5. Agrees("codex", act)'
    BY <1>4, <1>8, <2>1, <2>4 DEF Agrees, MergeRow
  <2>6. act.state \notin {"PLANNED", "COMPLETED"} /\ Doc.acts["codex"].state # "PLANNED"
    BY <1>1, <1>2, <1>8, <2>4
  <2>7. Agrees("codex", old.acts["codex"])' /\ old.acts["codex"].semantic = before.semantic
    BY <1>1, <1>8
  <2>8. /\ UNCHANGED <<had, bundle, json, backup, outcome, spent>>
        /\ act.semantic /\ (old.acts["codex"].semantic \/ rstage' = "merged")
        /\ act.state = "SEMANTIC_STAGED" => place'["codex"].target # "clash"
    BY <1>2, <1>8, <2>1, <2>4, <2>7
  <2>9. QED BY <1>1, <1>2, <1>3, <1>8, <2>1, <2>2, <2>3, <2>4, <2>5, <2>6, <2>7, <2>8, UndoJournal
<1>9. CASE before.state = "COMPLETED" /\ rstage = "none" /\ rstage' = "part" /\ UNCHANGED <<place, proc>>
  <2>1. ~before.semantic
    BY <1>6, <1>9
  <2>2. c.target = "edit" /\ PlainRow("codex", before)
    BY <1>6, <1>7, <2>1
  <2>3. PlainRow("codex", before)'
    BY <1>1, <1>3, <1>4, <1>9, <2>2 DEF PlainRow, RowIs, TargetIs
  <2>4. Agrees("codex", old.acts["codex"])'
    BY <1>1, <2>1, <2>3 DEF Agrees
  <2>5. DocSound(old)'
    <3>1. UNCHANGED <<had, bundle, backup, json>> /\ old.status = "ROLLBACK_PENDING" /\ DocSound(old)
      BY <1>1, <1>2, UndoAt
    <3>2. \A j \in Kinds \ {"codex"} : place'[j] = place[j]
      BY <1>9
    <3>3. QED BY <1>3, <2>4, <3>1, <3>2, MovedSound
  <2>6. DocSound(Known(Doc))'
    <3>1. Known(Doc)' = old
      BY <1>1, <1>2, <1>3 DEF Known, Doc
    <3>2. QED BY <2>5, <3>1
  <2>7. RollingRows(old)'
    BY <1>1, <1>2, <1>3, <1>9 DEF RollingRows, At, Pre
  <2>8. MachineTyped'
    BY <1>2, <1>5, <1>9 DEF MachineTyped
  <2>9. UNCHANGED <<had, json, backup, proc, outcome, spent>>
    BY <1>2, <1>9
  <2>10. QED BY <1>1, <1>3, <2>6, <2>7, <2>8, <2>9, RollStays
<1>a. DEFINE As(s) == Journal(WithAct("codex", [before EXCEPT !.state = s, !.semantic = TRUE,
                                                 !.recovery = place'["codex"].recovery]), "rolling", 0)
<1>10. CASE before.state = "COMPLETED" /\ rstage = "part" /\ rstage' = "merged" /\ UNCHANGED place /\ As("SEMANTIC_STAGED")
  <2>1. ~before.semantic
    BY <1>6, <1>10
  <2>2. c.target = "edit" /\ c.stage = "none" /\ c.recovery = q /\ PlainRow("codex", before)
    BY <1>6, <1>7, <2>1
  <2>3. Agrees("codex", before)'
    <3>1. PlainRow("codex", before)'
      BY <1>1, <1>3, <1>4, <1>10, <2>2 DEF PlainRow, RowIs, TargetIs
    <3>2. QED BY <2>1, <3>1 DEF Agrees
  <2>4. place' = [place EXCEPT !["codex"] = c]
    BY <1>5, <1>10
  <2>5. QED BY <1>5, <1>8, <1>10, <2>2, <2>3, <2>4
<1>11. CASE /\ before.state = "SEMANTIC_STAGED" /\ rstage = "merged"
            /\ rstage' = c.target /\ place' = [place EXCEPT !["codex"].target = "merged"] /\ As("SEMANTIC_SWAPPED")
  <2>1. before.semantic /\ c.target = "edit" /\ c.stage = "none" /\ c.recovery = q
    BY <1>3, <1>6, <1>11
  <2>2. PICK row \in PlaceTypes : row = [target |-> "merged", stage |-> "none", recovery |-> q]
    BY <1>4 DEF PlaceTypes
  <2>3. [place["codex"] EXCEPT !.target = "merged"] = row
    BY <1>1, <1>5, <2>1, <2>2
  <2>4. place' = [place EXCEPT !["codex"] = row]
    BY <1>11, <2>3
  <2>5. place'["codex"] = row
    BY <1>3, <1>5, <2>4, PlaceSet
  <2>6. Agrees("codex", before)'
    BY <1>4, <1>11, <2>1, <2>2, <2>5 DEF Agrees, MergeRow
  <2>7. QED BY <1>8, <1>11, <2>1, <2>2, <2>4, <2>6
<1>12. CASE /\ before.state = "SEMANTIC_STAGED" /\ c.target = "merged"
            /\ UNCHANGED <<place, rstage>> /\ As("SEMANTIC_SWAPPED")
  <2>1. before.semantic /\ rstage = "edit" /\ c.stage = "none" /\ c.recovery = q
    BY <1>6, <1>12
  <2>2. Agrees("codex", before)'
    BY <1>1, <1>4, <1>12, <2>1 DEF Agrees, MergeRow
  <2>3. place' = [place EXCEPT !["codex"] = c]
    BY <1>5, <1>12
  <2>4. QED BY <1>5, <1>8, <1>12, <2>1, <2>2, <2>3
<1>13. CASE /\ before.state = "SEMANTIC_SWAPPED" /\ rstage' = "none" /\ UNCHANGED place /\ As("RESTORING")
  <2>1. before.semantic /\ c.stage = "none" /\ c.recovery = q /\ c.target \in {"edit", "clash", "merged"}
    BY <1>6, <1>13
  <2>2. Agrees("codex", before)'
    BY <1>1, <1>4, <1>13, <2>1 DEF Agrees, MergeRow
  <2>3. place' = [place EXCEPT !["codex"] = c]
    BY <1>5, <1>13
  <2>4. QED BY <1>5, <1>8, <1>13, <2>1, <2>2, <2>3
<1>14. CASE /\ before.state = "RESTORING" /\ place' = [place EXCEPT !["codex"].recovery = "none"]
            /\ UNCHANGED rstage /\ As("RESTORED")
  <2>1. before.semantic /\ rstage = "none" /\ c.stage = "none" /\ c.target \in {"edit", "clash", "merged"}
    BY <1>6, <1>14
  <2>2. PICK row \in PlaceTypes : row = [target |-> c.target, stage |-> "none", recovery |-> "none"]
    BY <1>5 DEF PlaceTypes
  <2>3. [place["codex"] EXCEPT !.recovery = "none"] = row
    BY <1>1, <1>5, <2>1, <2>2
  <2>4. place' = [place EXCEPT !["codex"] = row]
    BY <1>14, <2>3
  <2>5. place'["codex"] = row
    BY <1>3, <1>5, <2>4, PlaceSet
  <2>6. Agrees("codex", before)'
    BY <1>4, <1>14, <2>1, <2>2, <2>5 DEF Agrees, MergeRow
  <2>7. QED BY <1>8, <1>14, <2>1, <2>2, <2>4, <2>6
<1>15. QED BY <1>1, <1>9, <1>10, <1>11, <1>12, <1>13, <1>14 DEF RestoreSemantic


\* The selector of the release before is shown again, and the receipt says so.
LEMMA RestoreSelectorKeeps ==
    ASSUME Base, Phase, RestoreSelector
    PROVE  Base' /\ Phase'
<1>1. /\ Rolling /\ Cleaned /\ (\A k \in Kinds : ~Live(k)) /\ UNCHANGED <<had, place, rstage, bundle, outcome, spent>>
      /\ IF backup = "new"
         THEN Journal([Doc EXCEPT !.status = "ROLLED_BACK"], "rolling", 0) /\ UNCHANGED <<json, backup>>
         ELSE json' = [json EXCEPT !["active"].live = PrevActive] /\ backup' = "new" /\ UNCHANGED proc
  BY DEF RestoreSelector, Undone
<1>2. PICK old, q : old = Doc /\ q = PrevActive
  OBVIOUS
<1>3. /\ Running("rolling") /\ old.status = "ROLLBACK_PENDING" /\ "active" \in old.posts
      /\ Known(Doc) = old /\ Parsed(Doc) /\ old \in Receipts /\ DocSound(old) /\ RollingRows(old)
      /\ \A k \in Kinds : Agrees(k, old.acts[k]) /\ old.acts[k] \in ActTypes
      /\ \A k \in Kinds : old.acts[k].state = "PLANNED" => At(k, Pre(k), "none", "none")
      /\ old.acts["bundle"].state = "PLANNED" => bundle = "none"
  BY <1>1, <1>2, UndoAt
<1>4. /\ Bare("receipt") /\ json["pending"].temp = "none" /\ Open /\ proc.cmd # "none" /\ proc.pc = "rolling"
      /\ proc.write = Quiet /\ proc.write.step = "none" /\ (\A f \in Files : ~Busy(f)) /\ Docs = {old} /\ Coming = old
      /\ (proc.at = 0 \/ (proc.at = 1 /\ old.acts["bundle"].state # "STAGED"))
  BY <1>2, <1>3, RollAt
<1>5. q \in {"none", "old"} /\ PrevActive' = q
  BY <1>1, <1>2 DEF PrevActive
<1>6. /\ Bare("active") /\ Shown \in {<<"new", q>>, <<q, "new">>}
  BY <1>2, <1>3 DEF DocSound, SelectorSound
<1>7. CASE backup = "new"
  <2>1. PICK new : new = [old EXCEPT !.status = "ROLLED_BACK"]
    OBVIOUS
  <2>2. /\ new \in Receipts /\ new.acts = old.acts /\ new.posts = old.posts /\ new.status = "ROLLED_BACK"
    BY <1>3, <2>1 DEF Receipts
  <2>3. Journal(new, "rolling", 0) /\ UNCHANGED <<had, place, rstage, bundle, backup, json, outcome, spent>>
    BY <1>1, <1>2, <1>7, <2>1
  <2>4. SelectorSound(new)
    BY <1>2, <1>3, <1>5, <1>6, <1>7, <2>2 DEF SelectorSound, Shown
  <2>5. \A k \in Kinds : old.acts[k].state \in {"unplanned", "PLANNED", "RESTORED"}
    BY <1>1, <1>2 DEF Live
  <2>6. ASSUME NEW k \in Kinds
        PROVE  /\ place[k].stage = "none" /\ place[k].recovery = "none"
               /\ TargetIs(k, Pre(k)) \/ (k = "codex" /\ place[k].target = "merged")
               /\ k = "codex" => rstage = "none"
    <3>1. CASE old.acts[k].semantic
      <4>1. k = "codex" /\ MergeRow(old.acts[k])
        BY <1>3, <3>1 DEF Agrees
      <4>2. old.acts[k].state = "RESTORED"
        BY <2>5, <4>1 DEF MergeRow
      <4>3. QED BY <4>1, <4>2 DEF MergeRow, TargetIs
    <3>2. CASE ~old.acts[k].semantic
      <4>1. PlainRow(k, old.acts[k])
        BY <1>3, <3>2 DEF Agrees
      <4>2. RowIs(k, Pre(k), "none", "none")
        <5>1. CASE old.acts[k].state = "PLANNED"
          <6>1. At(k, Pre(k), "none", "none")
            BY <1>3, <5>1
          <6>2. QED BY ONLY <6>1 DEF RowIs, TargetIs, At
        <5>2. CASE old.acts[k].state # "PLANNED"
          BY <2>5, <4>1, <5>2 DEF PlainRow
        <5>3. QED BY <5>1, <5>2
      <4>3. k = "codex" => rstage = "none"
        BY <2>5, <4>1 DEF PlainRow
      <4>4. QED BY <4>2, <4>3 DEF RowIs
    <3>3. QED BY <3>1, <3>2
  <2>7. bundle = "none"
    <3>1. BundleAgrees(old.acts["bundle"]) /\ old.acts["bundle"].state # "STAGED"
      BY <1>1, <1>2, <1>3 DEF DocSound, Cleaned
    <3>2. QED BY <1>3, <3>1 DEF BundleAgrees
  <2>8. StatusSound(new)
    <3>1. StagesAbsent
      BY <2>6, <2>7 DEF StagesAbsent, Kinds
    <3>2. QED BY <2>2, <2>6, <3>1 DEF StatusSound
  <2>9. DocSound(new)
    BY <1>3, <2>2, <2>4, <2>8 DEF DocSound
  <2>10. DocSound(new)' /\ DocSound(Known(Doc))'
    <3>1. (Waiting' => Waiting) /\ json'["active"] = json["active"]
      BY <2>3 DEF Waiting
    <3>2. DocSound(new)'
      BY <2>3, <2>9, <3>1, SoundSame
    <3>3. QED BY <2>3, <3>2, KnownSame
  <2>11. RollingRows(new)'
    BY <1>7, <2>2, <2>3 DEF RollingRows
  <2>12. Merging(new) = Merging(Known(Doc))
    BY <1>3, <2>2, <2>3 DEF Merging
  <2>13. MachineTyped'
    BY <2>3 DEF Base, Typed, MachineTyped
  <2>14. Doc.status # "ROLLED_BACK" /\ backup # "none" /\ 0 \in {0, 1}
    BY <1>2, <1>3, <1>7
  <2>15. QED BY <1>3, <2>2, <2>3, <2>10, <2>11, <2>12, <2>13, <2>14, RollJournal
<1>8. CASE backup # "new"
  <2>1. json' = [json EXCEPT !["active"].live = q] /\ backup' = "new" /\ UNCHANGED proc
    BY <1>1, <1>2, <1>8
  <2>2. json' = [json EXCEPT !["active"] = [live |-> q, temp |-> "none"]]
    <3>1. PICK a, b : json["active"] = [live |-> a, temp |-> b]
      BY ZenonT(60) DEF Base, Typed, JsonTyped, Files
    <3>2. b = "none"
      BY <1>6, <3>1, Empties DEF Bare
    <3>3. [json["active"] EXCEPT !.live = q] = [live |-> q, temp |-> "none"]
      BY <3>1, <3>2
    <3>4. QED BY <2>1, <3>3
  <2>3. /\ json'["active"].live = q /\ json'["active"].temp = "none"
        /\ json'["receipt"] = json["receipt"] /\ json'["pending"] = json["pending"]
        /\ json' = [g \in Files |-> [live |-> json'[g].live, temp |-> json'[g].temp]]
    BY <2>2, JsonFrame DEF Base, Typed, Files
  <2>4. /\ Doc' = old /\ Known(Doc)' = old /\ Docs' = {old} /\ Coming' = old /\ (Waiting' <=> Waiting)
        /\ Bare("receipt")' /\ \A f \in Files : ~Busy(f)'
    BY <1>2, <1>3, <1>4, <2>1, <2>3 DEF Doc, Known, Docs, Coming, Waiting, Bare, Parsed, Pair, Files, Busy
  <2>5. SelectorSound(old)'
    BY <1>3, <1>5, <2>1, <2>3, Empties DEF SelectorSound, Shown, Bare
  <2>6. DocSound(old)'
    BY <1>1, <1>3, <2>4, <2>5, SoundSelector
  <2>7. Typed'
    <3>1. MachineTyped'
      BY <1>1, <2>1 DEF Base, Typed, MachineTyped
    <3>2. JsonTyped'
      BY <1>5, <2>3 DEF Base, Typed, JsonTyped
    <3>3. ProcTyped' /\ RestTyped'
      BY ZenonT(60), <1>1, <2>1 DEF Base, Typed, ProcTyped, RestTyped
    <3>4. QED BY <3>1, <3>2, <3>3 DEF Typed
  <2>8. WriteSound'
    BY <1>4, <2>1, <2>4, Empties DEF WriteSound, Files
  <2>9. AllDocs'
    BY <2>4, <2>6 DEF AllDocs
  <2>10. MergeSound'
    BY <1>1, <1>3, <2>4 DEF MergeSound
  <2>11. OrderSound'
    <3>1. PendingFirst' /\ PendingOnce'
      BY <1>4, <2>3, <2>4 DEF Base, OrderSound, PendingFirst, PendingOnce, Files
    <3>2. SelectorAfter' /\ SelectorWrite' /\ RolledBackLast'
      BY <1>2, <1>3, <2>4 DEF SelectorAfter, SelectorWrite, RolledBackLast, Files
    <3>3. QED BY <3>1, <3>2 DEF OrderSound
  <2>12. RollingRows(old)'
    BY <1>1, <1>3 DEF RollingRows, At, Pre
  <2>13. Open' /\ ReceiptBare'
    BY <1>1, <1>4, <2>4 DEF Open, ReceiptBare
  <2>14. Phase'
    BY <1>4, <2>1, <2>4, <2>12, <2>13, RollingPhase DEF Files
  <2>15. QED BY <2>7, <2>8, <2>9, <2>10, <2>11, <2>14 DEF Base
<1>9. QED BY <1>7, <1>8


\* The selector that was put aside is removed.
LEMMA CleanSelectorKeeps ==
    ASSUME Base, Phase, CleanSelector
    PROVE  Base' /\ Phase'
<1>1. /\ Running("rolling") /\ Doc.status = "ROLLED_BACK" /\ backup' = "none" /\ Go("recovered")
      /\ UNCHANGED <<had, place, rstage, bundle, json, outcome, spent>>
  BY DEF CleanSelector
<1>2. PICK old, q, n, c : old = Doc /\ q = PrevActive /\ n = proc.at /\ c = proc.cmd
  OBVIOUS
<1>3. /\ Known(Doc) = old /\ Parsed(Doc) /\ old \in Receipts /\ DocSound(old) /\ RollingRows(old) /\ "active" \in old.posts
      /\ Bare("receipt") /\ Open /\ c # "none" /\ proc.pc = "rolling" /\ proc.write.step = "none" /\ proc.write = Quiet
      /\ (n = 0 \/ (n = 1 /\ old.acts["bundle"].state # "STAGED")) /\ old.status = "ROLLED_BACK"
  BY <1>1, <1>2, RollAt
<1>4. proc' = [cmd |-> c, pc |-> "recovered", at |-> n, write |-> Quiet]
  <2>1. proc = [cmd |-> c, pc |-> "rolling", at |-> n, write |-> Quiet]
    BY <1>2, <1>3, AtRest
  <2>2. proc' = [proc EXCEPT !.pc = "recovered"]
    BY <1>1 DEF Go
  <2>3. QED BY ONLY <2>1, <2>2
<1>5. /\ proc'.cmd = c /\ proc'.pc = "recovered" /\ proc'.at = n /\ proc'.write = Quiet
  BY <1>4
<1>6. ProcTyped'
  <2>1. c \in {"none", "install", "rollback", "failing", "refusing"} /\ n \in 0..34
    BY <1>2 DEF Base, Typed, ProcTyped
  <2>2. QED BY <1>4, <1>5, <2>1, Empties DEF ProcTyped, Phases, Files
<1>7. q \in {"none", "old"} /\ PrevActive' = q /\ backup = "new"
  BY <1>1, <1>2, <1>3 DEF PrevActive, RollingRows
<1>8. DocSound(Known(Doc))'
  <2>1. Bare("active") /\ Shown \in {<<q, "new">>, <<q, "none">>}
    BY <1>2, <1>3 DEF DocSound, SelectorSound
  <2>2. SelectorSound(old)'
    BY <1>1, <1>3, <1>7, <2>1 DEF SelectorSound, Shown, Bare
  <2>3. (Waiting' => Waiting) /\ Known(Doc)' = old
    BY <1>1, <1>2, <1>3 DEF Waiting, Known, Doc
  <2>4. DocSound(old)'
    BY <1>1, <1>3, <2>2, <2>3, SoundSelector
  <2>5. QED BY <2>3, <2>4
<1>9. MachineTyped' /\ RestTyped'
  BY <1>1 DEF Base, Typed, MachineTyped, RestTyped
<1>11. UNCHANGED <<json, had>> /\ (Parsed(Doc) \/ backup' = backup)
  BY <1>1, <1>3
<1>12. Base' /\ Coming' = old /\ Bare("receipt")' /\ \A f \in Files : ~Busy(f)'
  BY <1>3, <1>5, <1>6, <1>8, <1>9, <1>11, MachineKeeps
<1>13. Open' /\ ReceiptBare'
  BY <1>1, <1>3, <1>12 DEF Open, ReceiptBare
<1>14. Phase'
  <2>1. HandSound' /\ InstallSound' /\ RollingSound' /\ OutcomeWhole'
    BY <1>5, <1>13 DEF HandSound, InstallSound, RollingSound, OutcomeWhole, Open
  <2>2. IdleSound'
    BY <1>3, <1>5, <1>13 DEF IdleSound, Open
  <2>3. CursorSound' /\ RecoverySound'
    BY <1>3, <1>5, <1>12 DEF CursorSound, RecoverySound, Files
  <2>4. QED BY <2>1, <2>2, <2>3 DEF Phase, PlaceSound
<1>15. QED BY <1>12, <1>14


-----------------------------------------------------------------------------
(* The invariant.                                                           *)

\* The machine before any command.
LEMMA InitSound ==
    ASSUME Init
    PROVE  Base /\ Phase
<1>1. /\ had \in Originals /\ rstage = "none" /\ bundle = "none" /\ backup = "none" /\ proc = Idle
      /\ place = [k \in Kinds |-> Row(Pre(k), "none", "none")]
      /\ json = [f \in Files |-> [live |-> IF f = "active" THEN PrevActive ELSE Absent[f], temp |-> Absent[f]]]
      /\ spent = [crashes |-> 0, faults |-> 0, edits |-> 0]
  BY DEF Init
<1>2. Open
  BY DEF Init, Open
<1>3. /\ proc.cmd = "none" /\ proc.pc = "idle" /\ proc.at = 0 /\ proc.write = Quiet
      /\ proc.write.step = "none" /\ \A f \in Files : ~Busy(f)
  BY <1>1, Empties DEF Busy
<1>4. /\ json["pending"].live = "none" /\ json["pending"].temp = "none"
      /\ json["receipt"].live = Absent["receipt"] /\ json["receipt"].temp = Absent["receipt"]
      /\ json["active"] = [live |-> PrevActive, temp |-> "none"]
      /\ json = [f \in Files |-> [live |-> json[f].live, temp |-> json[f].temp]]
  BY <1>1, Empties DEF Files
<1>5. /\ PrevActive \in {"none", "old"}
      /\ \A k \in Kinds : Pre(k) = place[k].target /\ place[k].target \in {"none", "pre"}
                          /\ place[k] = [target |-> Pre(k), stage |-> "none", recovery |-> "none"]
  BY <1>1 DEF PrevActive, Pre, Row
<1>6. ~Parsed(Doc) /\ Known(Doc) = FreshReceipt /\ Bare("receipt") /\ Coming = FreshReceipt /\ Docs = {FreshReceipt}
  BY <1>3, <1>4, Empties DEF Parsed, Doc, Known, Bare, Coming, Docs, Pair, Files
<1>7. Typed
  <2>1. MachineTyped
    <3>1. had \in SUBSET Roles
      BY <1>1, InstallerAssumption
    <3>2. place \in [Kinds -> PlaceTypes]
      BY <1>1, <1>5 DEF PlaceTypes
    <3>3. QED BY <1>1, <3>1, <3>2 DEF MachineTyped
  <2>2. JsonTyped
    BY <1>4, <1>5, Empties DEF JsonTyped, ReceiptValues
  <2>3. ProcTyped
    BY <1>1, <1>3, Cursors, Empties DEF ProcTyped, Phases, Files
  <2>4. RestTyped
    <3>1. spent \in [crashes : 0..MaxCrashes, faults : 0..MaxFaults, edits : 0..MaxEdits]
      BY <1>1, InstallerAssumption
    <3>2. QED BY <1>2, <3>1 DEF RestTyped, Open
  <2>5. QED BY <2>1, <2>2, <2>3, <2>4 DEF Typed
<1>8. WriteSound
  BY <1>3, Empties DEF WriteSound, Busy
<1>9. PICK doc : doc = FreshReceipt
  OBVIOUS
<1>10. /\ doc \in Receipts /\ doc.status = "PREPARED" /\ doc.posts = {}
       /\ \A k \in Kinds \cup {"bundle"} : doc.acts[k].state = "unplanned" /\ ~doc.acts[k].semantic
  BY <1>9, FreshTyped DEF Unplanned
<1>11. DocSound(doc)
  <2>1. ASSUME NEW k \in Kinds PROVE Agrees(k, doc.acts[k])
    BY <1>1, <1>5, <1>10 DEF Agrees, PlainRow, RowIs, TargetIs, Begun
  <2>2. BundleAgrees(doc.acts["bundle"])
    BY <1>1, <1>10 DEF BundleAgrees
  <2>3. SelectorSound(doc)
    BY <1>1, <1>4, <1>5, <1>10 DEF SelectorSound, Shown, Mine
  <2>4. StatusSound(doc)
    BY <1>10 DEF StatusSound
  <2>5. QED BY <1>10, <2>1, <2>2, <2>3, <2>4 DEF DocSound
<1>12. AllDocs /\ MergeSound
  BY <1>6, <1>9, <1>11 DEF AllDocs, MergeSound
<1>13. OrderSound
  <2>1. PendingFirst /\ PendingOnce
    BY <1>3, <1>4 DEF PendingFirst, PendingOnce, Files
  <2>2. SelectorAfter
    BY <1>1, <1>3, <1>4 DEF SelectorAfter, Files
  <2>3. SelectorWrite /\ RolledBackLast
    BY <1>3, <1>6, <1>9, <1>10 DEF SelectorWrite, RolledBackLast, Files
  <2>4. QED BY <2>1, <2>2, <2>3 DEF OrderSound
<1>14. HandSound /\ InstallSound /\ RollingSound /\ OutcomeWhole
  BY <1>2, <1>3 DEF HandSound, InstallSound, RollingSound, OutcomeWhole, Open
<1>15. PlaceSound
  BY <1>1, <1>3 DEF PlaceSound, IdleSound, CursorSound, RecoverySound, Files
<1>16. QED BY <1>7, <1>8, <1>12, <1>13, <1>14, <1>15 DEF Base, Phase

\* A step that changes nothing.
LEMMA StutterKeeps ==
    ASSUME Base, Phase, UNCHANGED vars
    PROVE  Base' /\ Phase'
<1>1. UNCHANGED <<had, place, rstage, bundle, json, backup, proc, outcome, spent>>
  BY DEF vars
<1>2. /\ Docs' = Docs /\ Coming' = Coming /\ Known(Doc)' = Known(Doc) /\ Doc' = Doc /\ (Waiting' <=> Waiting)
      /\ Pair' = Pair /\ (Mine' <=> Mine) /\ (Reversed' <=> Reversed) /\ PrevActive' = PrevActive
      /\ \A f \in Files : (Busy(f)' <=> Busy(f)) /\ (Bare(f)' <=> Bare(f))
      /\ \A k \in Kinds : Pre(k)' = Pre(k)
  BY <1>1 DEF Docs, Coming, Known, Doc, Pair, Busy, Waiting, Mine, Reversed, PrevActive, Bare, Pre
<1>3. Base'
  <2>1. Typed'
    <3>1. MachineTyped'
      BY <1>1 DEF Base, Typed, MachineTyped
    <3>2. JsonTyped'
      BY <1>1 DEF Base, Typed, JsonTyped
    <3>3. ProcTyped'
      BY <1>1 DEF Base, Typed, ProcTyped
    <3>4. RestTyped'
      BY <1>1, Zenon DEF Base, Typed, RestTyped
    <3>5. QED BY <3>1, <3>2, <3>3, <3>4 DEF Typed
  <2>2. WriteSound'
    BY <1>1, <1>2 DEF Base, WriteSound, Files
  <2>3. AllDocs' /\ MergeSound'
    BY <1>1, <1>2, DocsKept, MergeKept DEF Base
  <2>4. PendingFirst' /\ PendingOnce' /\ SelectorAfter'
    BY <1>1, <1>2 DEF Base, OrderSound, PendingFirst, PendingOnce, SelectorAfter, Files
  <2>5. SelectorWrite' /\ RolledBackLast'
    BY <1>1, <1>2 DEF Base, OrderSound, SelectorWrite, RolledBackLast, Files
  <2>6. QED BY <2>1, <2>2, <2>3, <2>4, <2>5 DEF Base, OrderSound
<1>4. Phase'
  <2>1. HandSound'
    BY <1>1, <1>2 DEF Phase, HandSound, ReceiptBare, Files
  <2>2. InstallSound'
    <3>1. ASSUME NEW doc, NEW n, InstallReceipt(doc, n) PROVE InstallReceipt(doc, n)'
      <4>1. ASSUME NEW k \in Kinds PROVE InstallRow(k, doc.acts[k], n)'
        <5>1. InstallRow(k, doc.acts[k], n)
          BY <3>1 DEF InstallReceipt
        <5>2. QED BY <1>1, <1>2, <5>1 DEF InstallRow, At
      <4>2. QED BY <3>1, <4>1 DEF InstallReceipt
    <3>2. ASSUME NEW n, InstallSelectors(n) PROVE InstallSelectors(n)'
      BY <1>1, <1>2, <3>2 DEF InstallSelectors, Files
    <3>3. PICK doc, n : doc = Coming /\ n = proc.at
      OBVIOUS
    <3>4. Coming' = doc /\ proc'.at = n
      BY <1>1, <1>2, <3>3
    <3>5. ASSUME proc'.pc = "install" PROVE InstallReceipt(Coming, proc.at)' /\ InstallSelectors(proc.at)'
      <4>1. InstallReceipt(doc, n) /\ InstallSelectors(n)
        BY <1>1, <3>3, <3>5 DEF Phase, InstallSound
      <4>2. InstallReceipt(doc, n)' /\ InstallSelectors(n)'
        BY <3>1, <3>2, <4>1
      <4>3. QED BY <3>4, <4>2
    <3>6. QED BY <1>1, <3>5 DEF Phase, InstallSound
  <2>3. RollingSound'
    <3>1. PICK doc : doc = Coming
      OBVIOUS
    <3>2. proc.pc = "rolling" => RollingRows(doc)
      BY <3>1 DEF Phase, RollingSound
    <3>3. RollingRows(doc) => RollingRows(doc)'
      BY <1>1, <1>2 DEF RollingRows, At, Kinds
    <3>4. QED BY <1>1, <1>2, <3>1, <3>2, <3>3 DEF RollingSound
  <2>4. IdleSound' /\ OutcomeWhole'
    <3>1. outcome' = outcome /\ UNCHANGED proc /\ UNCHANGED place
      BY <1>1
    <3>2. IdleSound'
      BY <3>1 DEF Phase, PlaceSound, IdleSound
    <3>3. (outcome \in {"installed", "rolled_back", "failed"} <=> (outcome \in {"installed", "rolled_back", "failed"})')
          /\ (outcome \in {"installed", "rolled_back"} <=> (outcome \in {"installed", "rolled_back"})')
          /\ (outcome = "rolled_back" <=> (outcome = "rolled_back")')
      BY <3>1
    <3>4. OutcomeWhole'
      BY <1>1, <1>2, <3>1, <3>3 DEF Phase, OutcomeWhole, Customised, UserEdits
    <3>5. QED BY <3>2, <3>4
  <2>5. CursorSound'
    BY <1>1, <1>2 DEF Phase, PlaceSound, CursorSound, Files
  <2>6. RecoverySound'
    BY <1>1, <1>2 DEF Phase, PlaceSound, RecoverySound, Settled, Files
  <2>7. QED BY <2>1, <2>2, <2>3, <2>4, <2>5, <2>6 DEF Phase, PlaceSound
<1>5. QED BY <1>3, <1>4

\* Every step keeps the invariant, one lemma to an action.
LEMMA NextKeeps ==
    ASSUME Base, Phase, [Next]_vars
    PROVE  Base' /\ Phase'
<1>1. CASE JsonStep
  BY <1>1, JsonStepKeepsPhase
<1>2. CASE SettlePending
  BY <1>2, SettlePendingKeeps
<1>3. CASE SettleReceipt
  BY <1>3, SettleReceiptKeeps
<1>4. CASE Reconcile
  BY <1>4, ReconcileKeeps
<1>5. CASE RemovePending
  BY <1>5, RemovePendingKeeps
<1>6. CASE Recover
  BY <1>6, RecoverKeeps
<1>7. CASE AfterRecovery
  BY <1>7, AfterRecoveryKeeps
<1>8. CASE Begin
  BY <1>8, BeginKeeps
<1>9. CASE Refusal
  BY <1>9, RefusalKeeps
<1>10. CASE WriteSelectors
  BY <1>10, WriteSelectorsKeeps
<1>11. CASE Record
  BY <1>11, RecordKeeps
<1>12. CASE Materialize
  BY <1>12, MaterializeKeeps
<1>13. CASE OpenStage \/ StageRuntime \/ StageCodex \/ StageBlender
  BY <1>13, StagingKeeps
<1>14. CASE ForwardObject
  BY <1>14, ForwardKeeps
<1>15. CASE InstallDone
  BY <1>15, InstallDoneKeeps
<1>16. CASE RollbackIntent
  BY <1>16, RollbackIntentKeeps
<1>17. CASE CleanBundle
  BY <1>17, CleanBundleKeeps
<1>18. CASE RestoreSemantic
  BY <1>18, RestoreSemanticKeeps
<1>19. ASSUME NEW k \in Kinds, RestoreObject(k) PROVE Base' /\ Phase'
  BY <1>19, RestoreObjectKeeps
<1>20. CASE RestoreSelector
  BY <1>20, RestoreSelectorKeeps
<1>21. CASE CleanSelector
  BY <1>21, CleanSelectorKeeps
<1>22. CASE Start
  BY <1>22, StartKeeps
<1>23. CASE StartRollback
  BY <1>23, StartRollbackKeeps
<1>24. CASE Edit
  BY <1>24, EditKeeps
<1>25. CASE Crash
  BY <1>25, CrashKeeps
<1>26. CASE Fail
  BY <1>26, FailKeeps
<1>27. CASE MaterializeFails
  BY <1>27, MaterializeFailsKeeps
<1>28. CASE StagingFails
  BY <1>28, StagingFailsKeeps
<1>29. CASE UNCHANGED vars
  BY <1>29, StutterKeeps
<1>30. QED
  BY <1>1, <1>2, <1>3, <1>4, <1>5, <1>6, <1>7, <1>8, <1>9, <1>10, <1>11, <1>12, <1>13, <1>14, <1>15, <1>16, <1>17,
     <1>18, <1>19, <1>20, <1>21, <1>22, <1>23, <1>24, <1>25, <1>26, <1>27, <1>28, <1>29 DEF Next, Step, JsonStep

\* The inductive invariant: what the files say of the machine, and what the command knows at its place.
LEMMA AlwaysSound == Spec => [](Base /\ Phase)
<1>1. Init => Base /\ Phase
  BY InitSound
<1>2. (Base /\ Phase) /\ [Next]_vars => (Base /\ Phase)'
  BY NextKeeps
<1>3. QED BY <1>1, <1>2, PTL DEF Spec


-----------------------------------------------------------------------------
(* The objects.                                                             *)

\* The types of the invariant are at least those of TypeOK.
LEMMA SoundTypes ==
    ASSUME Base
    PROVE  TypeOK
<1>1. MachineTyped /\ JsonTyped /\ ProcTyped /\ RestTyped
  BY DEF Base, Typed
<1>2. had \subseteq Roles /\ place \in [Kinds -> [target : Images, stage : Images, recovery : Images]]
  BY <1>1 DEF MachineTyped, PlaceTypes, Images, UserEdits
<1>3. /\ rstage \in {"none", "part", "merged", "edit"} /\ bundle \in {"none", "part", "whole"}
      /\ backup \in {"none", "old", "new"}
  BY <1>1 DEF MachineTyped
<1>4. DOMAIN json = Files
  BY <1>1 DEF JsonTyped
<1>5. /\ {json["pending"].live, json["pending"].temp} \subseteq {"none", "torn", "this"}
      /\ {json["active"].live, json["active"].temp} \subseteq {"none", "torn", "old", "new"}
  BY <1>1 DEF JsonTyped
<1>6. \A doc \in {Pair.live, Pair.temp} : Parsed(doc) => doc \in Receipts
  BY <1>1 DEF JsonTyped, ReceiptValues, Pair, Parsed
<1>7. /\ proc.cmd \in {"none", "install", "rollback", "failing", "refusing"}
      /\ proc.pc \in {"idle", "reconcile", "unpend", "recover", "recovered", "unchanged", "install", "rolling"}
      /\ proc.write.step \in {"none", "create", "fill", "swap", "finish"}
  BY <1>1 DEF ProcTyped, Phases
<1>8. proc.at \in 0..Len(Program)
  <2>1. Len(Program) = 34
    BY DEF Program
  <2>2. QED BY <1>1, <2>1 DEF ProcTyped
<1>9. spent.crashes \in 0..MaxCrashes /\ spent.faults \in 0..MaxFaults /\ spent.edits \in 0..MaxEdits
  BY <1>1 DEF RestTyped
<1>10. outcome \in {"", "installed", "rolled_back", "failed", "refused", "killed"}
  BY <1>1, Zenon DEF RestTyped
<1>11. QED BY <1>2, <1>3, <1>4, <1>5, <1>6, <1>7, <1>8, <1>9, <1>10, Zenon DEF TypeOK

\* An object of a sound receipt has its original under one name, if it had one.
LEMMA OneOriginal ==
    ASSUME Base, NEW k \in had \cap Kinds
    PROVE  \/ k = "codex" /\ place[k].target \in {"edit", "clash", "merged"}
           \/ Cardinality({n \in DOMAIN place[k] : place[k][n] = "pre"}) = 1
<1>1. PICK act : act = Known(Doc).acts[k]
  OBVIOUS
<1>2. Agrees(k, act)
  BY <1>1, KnownDoc DEF DocSound
<1>3. /\ Pre(k) = "pre" /\ place[k] \in PlaceTypes
  BY DEF Pre, Base, Typed, MachineTyped
<1>4. CASE act.semantic
  BY <1>2, <1>4 DEF Agrees, MergeRow
<1>5. CASE ~act.semantic /\ ~(k = "codex" /\ place[k].target \in {"edit", "clash", "merged"})
  <2>1. PlainRow(k, act)
    BY <1>2, <1>5 DEF Agrees
  <2>2. PICK p \in {"post", "part", "none"} :
           \/ At(k, "pre", p, "none") \/ At(k, p, "pre", "none") \/ At(k, p, "none", "pre")
           \/ At(k, "pre", "none", p) \/ At(k, "pre", "none", "rest")
    <3>1. \A x, y, z : RowIs(k, x, y, z) => At(k, x, y, z)
      BY <1>3, <1>5 DEF RowIs, TargetIs, At, PlaceTypes
    <3>2. CASE act.state \in {"unplanned", "RESTORED"}
      BY <1>3, <2>1, <3>1, <3>2 DEF PlainRow
    <3>3. CASE act.state = "PLANNED"
      BY <1>3, <2>1, <3>1, <3>3 DEF PlainRow
    <3>4. CASE act.state \in Begun
      BY <1>3, <2>1, <3>1, <3>4 DEF PlainRow
    <3>5. QED BY <2>1, <3>2, <3>3, <3>4 DEF PlainRow
  <2>3. PICK n \in {"target", "stage", "recovery"} : {m \in DOMAIN place[k] : place[k][m] = "pre"} = {n}
    <3>1. CASE At(k, "pre", p, "none") \/ At(k, "pre", "none", p) \/ At(k, "pre", "none", "rest")
      <4>1. {m \in DOMAIN place[k] : place[k][m] = "pre"} = {"target"}
        BY <3>1 DEF At
      <4>2. QED BY <4>1
    <3>2. CASE At(k, p, "pre", "none")
      <4>1. {m \in DOMAIN place[k] : place[k][m] = "pre"} = {"stage"}
        BY <3>2 DEF At
      <4>2. QED BY <4>1
    <3>3. CASE At(k, p, "none", "pre")
      <4>1. {m \in DOMAIN place[k] : place[k][m] = "pre"} = {"recovery"}
        BY <3>3 DEF At
      <4>2. QED BY <4>1
    <3>4. QED BY <2>2, <3>1, <3>2, <3>3
  <2>4. QED BY <2>3, FS_Singleton
<1>6. QED BY <1>4, <1>5

(* Whatever renames of the forward, restore and semantic tables are          *)
(* interrupted, failed or rerun, for any originals and any number of         *)
(* crashes, faults and edits: the original of each object is on disk once,   *)
(* under one of its three names (_forward and _restore of the filesystem     *)
(* module).  A receipt that agrees with the machine tells which.             *)
THEOREM OriginalAlwaysKept == Spec => []OriginalKept
<1>1. Base /\ Phase => OriginalKept
  BY SoundTypes, OneOriginal DEF OriginalKept, UserEdits
<1>2. QED BY <1>1, AlwaysSound, PTL

(* A receipt that says INSTALLED or ROLLED_BACK says what is on disk, and a  *)
(* command that reports installed, rolled back or failed leaves one whole    *)
(* version of the objects (install and rollback).                            *)
THEOREM StatusAlwaysTruthful == Spec => [](StatusTruthful /\ OutcomeWhole)
<1>1. ASSUME Base, Doc.status = "INSTALLED"
      PROVE  /\ Mine /\ ~Waiting /\ Doc.posts = Roles
             /\ \A k \in Kinds : /\ place[k].target = "post" \/ Customised(k)
                                 /\ place[k].stage = "none" /\ place[k].recovery = Pre(k)
  <2>1. DocSound(Doc)
    BY <1>1, KnownDoc
  <2>2. /\ ~Waiting /\ Doc.posts = Roles /\ \A k \in Kinds : RowIs(k, "post", "none", Pre(k))
    BY <1>1, <2>1 DEF DocSound, StatusSound
  <2>3. Mine
    BY <1>1, <2>1, <2>2 DEF DocSound, SelectorSound, Shown, Roles, Mine
  <2>4. QED BY <2>2, <2>3 DEF RowIs, TargetIs, Customised, UserEdits
<1>2. ASSUME Base, Doc.status = "ROLLED_BACK"
      PROVE  /\ json["active"].live = PrevActive /\ StagesAbsent
             /\ \A k \in Kinds : place[k].target = Pre(k) \/ Customised(k)
  <2>1. DocSound(Doc)
    BY <1>2, KnownDoc
  <2>2. StagesAbsent /\ \A k \in Kinds : TargetIs(k, Pre(k)) \/ (k = "codex" /\ place[k].target = "merged")
    BY <1>2, <2>1 DEF DocSound, StatusSound
  <2>3. json["active"].live = PrevActive
    BY <1>2, <2>1 DEF DocSound, SelectorSound, Shown
  <2>4. QED BY <2>2, <2>3 DEF TargetIs, Customised, UserEdits
<1>3. Base /\ Phase => StatusTruthful /\ OutcomeWhole
  BY <1>1, <1>2 DEF StatusTruthful, Phase
<1>4. QED BY <1>3, AlwaysSound, PTL


-----------------------------------------------------------------------------
(* What a step of a journalled rollback may move.                           *)

\* A step that moves no target and shows no other selector, or the action that does.
Untargeted == \A k \in Kinds : place'[k].target = place[k].target
Unselected == json'["active"].live = json["active"].live
Mover ==
    \/ Edit \/ Begin \/ Swap \/ ForwardObject \/ RestoreSemantic \/ RestoreSelector
    \/ \E k \in Kinds : RestoreObject(k)

\* A step that is none of those moves no target and shows no other selector.
LEMMA Movers ==
    ASSUME Base, [Next]_vars, ~Mover
    PROVE  Untargeted /\ Unselected
<1>1. place \in [Kinds -> PlaceTypes] /\ json = [f \in Files |-> [live |-> json[f].live, temp |-> json[f].temp]]
  BY DEF Base, Typed, MachineTyped, JsonTyped
<1>2. CASE UNCHANGED <<place, json>>
  BY <1>2 DEF Untargeted, Unselected
<1>3. CASE Create \/ Fill \/ Finish
  <2>1. UNCHANGED place
    BY <1>3 DEF Create, Fill, Finish, machine
  <2>2. UNCHANGED json \/ \E f \in Files : \E x : json' = [json EXCEPT ![f].temp = x]
    <3>1. proc.write.file \in Files
      BY DEF Base, Typed, ProcTyped
    <3>2. QED BY <1>3, <3>1 DEF Create, Fill, Finish
  <2>3. ASSUME NEW f \in Files, NEW x, json' = [json EXCEPT ![f].temp = x] PROVE Unselected
    <3>1. PICK r : r = [json[f] EXCEPT !.temp = x]
      OBVIOUS
    <3>2. PICK a, b : json[f] = [live |-> a, temp |-> b]
      BY <1>1
    <3>3. json' = [json EXCEPT ![f] = r] /\ r.live = json[f].live
      BY <2>3, <3>1, <3>2
    <3>4. QED BY <1>1, <3>3 DEF Unselected, Files
  <2>4. QED BY <2>1, <2>2, <2>3 DEF Untargeted, Unselected
<1>4. CASE RemovePending
  <2>1. json' = [json EXCEPT !["pending"].live = Absent["pending"]] /\ UNCHANGED place
    BY <1>4 DEF RemovePending, machine
  <2>2. json'["active"] = json["active"]
    BY <1>1, <2>1 DEF Files
  <2>3. QED BY <2>1, <2>2 DEF Untargeted, Unselected
<1>5. CASE OpenStage \/ StageRuntime \/ StageCodex \/ StageBlender
  <2>1. PICK image : place' = [place EXCEPT ![Subject].stage = image] /\ UNCHANGED json
    BY <1>5 DEF OpenStage, StageRuntime, StageCodex, StageBlender, Staged
  <2>2. ASSUME NEW k \in Kinds PROVE place'[k].target = place[k].target
    <3>1. PICK a, b, c : place[k] = [target |-> a, stage |-> b, recovery |-> c]
      BY <1>1 DEF PlaceTypes
    <3>2. place'[k] = IF k = Subject THEN [place[k] EXCEPT !.stage = image] ELSE place[k]
      BY <1>1, <2>1
    <3>3. QED BY <3>1, <3>2
  <2>3. QED BY <2>1, <2>2 DEF Untargeted, Unselected
<1>6. CASE SettlePending \/ SettleReceipt \/ Reconcile \/ Recover \/ AfterRecovery \/ Refusal \/ WriteSelectors \/ Record
  BY <1>2, <1>6 DEF SettlePending, SettleReceipt, Reconcile, Recover, AfterRecovery, Refusal, WriteSelectors, Record, machine
<1>7. CASE Materialize \/ InstallDone \/ RollbackIntent \/ CleanBundle \/ CleanSelector \/ Start \/ StartRollback
  BY <1>2, <1>7 DEF Materialize, InstallDone, RollbackIntent, CleanBundle, CleanSelector, Start, StartRollback, machine
<1>8. CASE Crash \/ Fail \/ MaterializeFails \/ StagingFails \/ UNCHANGED vars
  BY <1>2, <1>8 DEF Crash, Fail, MaterializeFails, StagingFails, machine, vars
<1>9. QED BY <1>3, <1>4, <1>5, <1>6, <1>7, <1>8 DEF Next, Step, Mover

\* Each of those, when the receipt says that it is being rolled back.
LEMMA PendingDoc ==
    ASSUME Base, Doc.status = "ROLLBACK_PENDING"
    PROVE  /\ Known(Doc) = Doc /\ Parsed(Doc) /\ DocSound(Doc) /\ Doc \in Docs /\ "active" \in Doc.posts
           /\ Shown \in {<<"new", PrevActive>>, <<PrevActive, "new">>}
<1>1. Known(Doc) = Doc /\ Parsed(Doc) /\ DocSound(Doc) /\ Doc \in Docs
  BY KnownDoc
<1>2. QED BY <1>1 DEF DocSound, SelectorSound

\* While a rollback is journalled, those steps put originals back and nothing else.
LEMMA MoverRestores ==
    ASSUME Base, Phase, Mover, Doc.status = "ROLLBACK_PENDING", spent'.edits = spent.edits
    PROVE  /\ \A k \in Kinds : place[k].target \in {Pre(k), "merged"} => place'[k].target = place[k].target
           /\ ~Mine => json'["active"].live = json["active"].live
<1>1. /\ Known(Doc) = Doc /\ Parsed(Doc) /\ DocSound(Doc) /\ Doc \in Docs /\ "active" \in Doc.posts
      /\ Shown \in {<<"new", PrevActive>>, <<PrevActive, "new">>}
  BY PendingDoc
<1>2. place \in [Kinds -> PlaceTypes] /\ json = [f \in Files |-> [live |-> json[f].live, temp |-> json[f].temp]]
  BY DEF Base, Typed, MachineTyped, JsonTyped
<1>3. ~Edit
  <2>1. SUFFICES ASSUME Edit PROVE FALSE
    OBVIOUS
  <2>2. PICK a, b, c : spent = [crashes |-> a, faults |-> b, edits |-> c] /\ c \in Nat
    <3>1. spent \in [crashes : 0..MaxCrashes, faults : 0..MaxFaults, edits : 0..MaxEdits]
      BY DEF Base, Typed, RestTyped
    <3>2. QED BY <3>1, InstallerAssumption
  <2>3. spent' = [spent EXCEPT !.edits = @ + 1]
    BY <2>1 DEF Edit, UserEdits
  <2>4. spent'.edits = c + 1 /\ spent.edits = c
    BY ONLY <2>2, <2>3
  <2>5. QED BY <2>2, <2>4
<1>4. ~Begin
  <2>1. SUFFICES ASSUME Begin PROVE FALSE
    OBVIOUS
  <2>2. proc.pc = "unchanged"
    BY <2>1 DEF Begin, Running
  <2>3. Reversed \/ Mine
    BY <1>1 DEF Reversed, Mine, Shown
  <2>4. QED BY <2>2, <2>3 DEF Phase, PlaceSound, RecoverySound, Settled
<1>5. ~ForwardObject
  <2>1. SUFFICES ASSUME ForwardObject PROVE FALSE
    OBVIOUS
  <2>2. proc.pc = "install" /\ proc.write.step = "none"
    BY <2>1 DEF ForwardObject, Doing, Running
  <2>3. InstallReceipt(Coming, proc.at) /\ Coming = Doc
    BY <1>1, <2>2, AtRest DEF Phase, InstallSound
  <2>4. QED BY <2>3 DEF InstallReceipt
<1>6. CASE Swap
  <2>1. UNCHANGED place /\ proc.write.file \in Files
    BY <1>6 DEF Swap, machine, Base, Typed, ProcTyped
  <2>2. proc.write.file # "active"
    <3>1. proc.write.step # "none"
      BY <1>6 DEF Swap
    <3>2. Busy("active") => Doc.status = "PREPARED"
      BY <1>1 DEF Base, OrderSound, SelectorWrite
    <3>3. QED BY <3>1, <3>2 DEF Busy
  <2>3. json'["active"] = json["active"]
    BY <1>2, <1>6, <2>1, <2>2 DEF Swap, Files
  <2>4. QED BY <2>1, <2>3
<1>7. CASE RestoreSelector
  <2>1. UNCHANGED place
    BY <1>7 DEF RestoreSelector
  <2>2. ~Mine => json["active"].live = PrevActive
    BY <1>1 DEF Shown, Mine
  <2>3. json'["active"].live \in {json["active"].live, PrevActive}
    <3>1. UNCHANGED json \/ json' = [json EXCEPT !["active"].live = PrevActive]
      BY <1>7 DEF RestoreSelector
    <3>2. PICK a, b : json["active"] = [live |-> a, temp |-> b]
      BY <1>2 DEF Files
    <3>3. PICK q : q = PrevActive
      OBVIOUS
    <3>4. [json["active"] EXCEPT !.live = q].live = q
      BY ONLY <3>2
    <3>5. QED BY <1>2, <3>1, <3>3, <3>4 DEF Files
  <2>4. QED BY <2>1, <2>2, <2>3
<1>8. CASE RestoreSemantic
  <2>1. /\ UNCHANGED json
        /\ \/ place' = place
           \/ Doc.acts["codex"].state = "SEMANTIC_STAGED" /\ place' = [place EXCEPT !["codex"].target = "merged"]
           \/ place' = [place EXCEPT !["codex"].recovery = "none"]
    BY <1>8 DEF RestoreSemantic
  <2>2. PICK a, b, c : place["codex"] = [target |-> a, stage |-> b, recovery |-> c]
    BY <1>2 DEF PlaceTypes, Kinds
  <2>3. Doc.acts["codex"].state = "SEMANTIC_STAGED" => a \in {"edit", "clash", "merged"}
    <3>1. Agrees("codex", Doc.acts["codex"])
      BY <1>1 DEF DocSound, Kinds
    <3>2. QED BY <2>2, <3>1 DEF Agrees, MergeRow, PlainRow, Begun
  <2>4. \A k \in Kinds \ {"codex"} : place'[k] = place[k]
    BY <1>2, <2>1
  <2>5. place["codex"].target \in {Pre("codex"), "merged"} => place'["codex"].target = place["codex"].target
    <3>1. CASE place' = place
      BY <3>1
    <3>2. CASE Doc.acts["codex"].state = "SEMANTIC_STAGED" /\ place' = [place EXCEPT !["codex"].target = "merged"]
      <4>1. place'["codex"] = [place["codex"] EXCEPT !.target = "merged"]
        BY <1>2, <3>2 DEF Kinds
      <4>2. QED BY <2>1, <2>2, <2>3, <3>2, <4>1 DEF Pre
    <3>3. CASE place' = [place EXCEPT !["codex"].recovery = "none"]
      <4>1. place'["codex"] = [place["codex"] EXCEPT !.recovery = "none"]
        BY <1>2, <3>3 DEF Kinds
      <4>2. QED BY <2>2, <4>1
    <3>4. QED BY <2>1, <3>1, <3>2, <3>3
  <2>6. QED BY <2>1, <2>4, <2>5
<1>9. ASSUME NEW k \in Kinds, RestoreObject(k)
      PROVE  /\ \A j \in Kinds : place[j].target \in {Pre(j), "merged"} => place'[j].target = place[j].target
             /\ ~Mine => json'["active"].live = json["active"].live
  <2>1. UNCHANGED json /\ \A j \in Kinds \ {k} : place'[j] = place[j]
    BY <1>2, <1>9 DEF RestoreObject, RestoreTo
  <2>2. PICK q, p : q = Pre(k) /\ p = Doc.acts[k].post
    OBVIOUS
  <2>3. \/ place' = [place EXCEPT ![k] = place[k]]
        \/ (At(k, q, p, "none") \/ (k \in had /\ At(k, p, q, "none")) \/ At(k, p, "none", q))
           /\ \E x, y : place' = [place EXCEPT ![k] = Row(q, x, y)]
        \/ At(k, q, "none", p) /\ place' = [place EXCEPT ![k].recovery = "rest"]
        \/ (At(k, q, "none", "rest") \/ At(k, q, "none", p)) /\ place' = [place EXCEPT ![k] = Row(q, "none", "none")]
    BY <1>9, <2>2 DEF RestoreObject, RestoreTo
  <2>4. p \in {"post", "part"}
    <3>1. Rolling /\ Live(k) /\ (k = "codex" => ~Semantic)
      BY <1>9 DEF RestoreObject, Restoring
    <3>2. Agrees(k, Doc.acts[k]) /\ ~Doc.acts[k].semantic
      BY <1>1, <3>1 DEF DocSound, Agrees, Semantic
    <3>3. QED BY <2>2, <3>1, <3>2 DEF Agrees, PlainRow, Live, Begun
  <2>5. place[k].target \in {q, "merged"} => place'[k].target = place[k].target
    <3>1. PICK a, b, c : place[k] = [target |-> a, stage |-> b, recovery |-> c]
      BY <1>2 DEF PlaceTypes
    <3>2. q \in {"pre", "none"}
      BY <2>2 DEF Pre
    <3>3. CASE place' = [place EXCEPT ![k] = place[k]]
      BY <1>2, <3>3
    <3>4. ASSUME NEW x, NEW y, place' = [place EXCEPT ![k] = Row(q, x, y)],
                 a \in {q, p}
          PROVE  place[k].target \in {q, "merged"} => place'[k].target = place[k].target
      <4>1. place'[k] = Row(q, x, y)
        BY <1>2, <3>4
      <4>2. QED BY <2>4, <3>1, <3>2, <3>4, <4>1 DEF Row
    <3>5. CASE place' = [place EXCEPT ![k].recovery = "rest"]
      <4>1. place'[k] = [place[k] EXCEPT !.recovery = "rest"]
        BY <1>2, <3>5
      <4>2. QED BY <3>1, <4>1
    <3>6. QED
      <4>1. \A x, y, z : At(k, x, y, z) => a = x
        BY <3>1 DEF At
      <4>2. QED BY <2>3, <3>3, <3>4, <3>5, <4>1
  <2>6. QED BY <2>1, <2>2, <2>5
<1>10. QED BY <1>3, <1>4, <1>5, <1>6, <1>7, <1>8, <1>9 DEF Mover

(* Once a rollback is journalled no object that is back leaves its place and *)
(* the old selector stays shown, through crashes and reruns, but for what    *)
(* the user edits (_rollback_receipt, resumed by recover_active).            *)
THEOREM RollbackAlwaysRestores == Spec => RollbackOnlyRestores
<1>1. ASSUME Base, Phase, [Next]_vars, Doc.status = "ROLLBACK_PENDING", had' = had, spent'.edits = spent.edits
      PROVE  /\ \A k \in Kinds :
                   place[k].target \in {Pre(k), "merged"} => place'[k].target = place[k].target
             /\ ~Mine => json'["active"].live = json["active"].live
  <2>1. CASE Mover
    BY <1>1, <2>1, MoverRestores
  <2>2. CASE ~Mover
    BY <1>1, <2>2, Movers DEF Untargeted, Unselected
  <2>3. QED BY <2>1, <2>2
<1>2. (Base /\ Phase) /\ [Next]_vars =>
        [Doc.status = "ROLLBACK_PENDING" /\ had' = had /\ spent'.edits = spent.edits =>
             /\ \A k \in Kinds :
                   place[k].target \in {Pre(k), "merged"} => place'[k].target = place[k].target
             /\ ~Mine => json'["active"].live = json["active"].live]_vars
  BY <1>1
<1>3. QED BY <1>2, AlwaysSound, PTL DEF Spec, RollbackOnlyRestores


-----------------------------------------------------------------------------
(* Why a command refuses.                                                   *)

\* A merge that the rollback put in the place of an edit is not taken for that edit.
EditedOnce == rstage = "edit" => place["codex"].target # "edit"
\* A rollback command has a receipt that the selectors show or once showed.
RollShown == proc.cmd = "rollback" => Parsed(Doc) /\ (Mine \/ "active" \in Doc.posts)
\* What a rerun must refuse, and how a refused install that recovers keeps its reason.
Why == TornTemp \/ UnlistedPair \/ Stuck(Pair.live) \/ Stuck(Pair.temp)
RefusingSound ==
    proc.cmd = "refusing" =>
        /\ proc.pc \in {"recover", "unchanged", "rolling", "recovered"}
        /\ proc.pc = "recover" =>
              IF Reversed \/ Mine THEN Waiting \/ (proc.write.step = "none" /\ RecoverConflict) ELSE Why
        /\ proc.pc = "unchanged" => Why
        /\ proc.pc \in {"rolling", "recovered"} => Waiting
RefusedSound == outcome = "refused" => Why
Reasons == EditedOnce /\ RollShown /\ RefusingSound /\ RefusedSound


\* A receipt that a command does not go on with is stuck.
LEMMA PlannedOf ==
    ASSUME NEW doc \in Receipts
    PROVE  /\ Planned(doc) = {k \in Kinds \cup {"bundle"} : doc.acts[k].state # "unplanned"} /\ Parsed(doc)
           /\ \A k \in Kinds \cup {"bundle"} : doc.acts[k] \in ActTypes
BY DEF Planned, Receipts, Parsed, ActTypes

\* A row that a rename table does not accept is one of the gaps between a rename and its journal.
LEMMA NativeOrStuck ==
    ASSUME Base, NEW doc, DocSound(doc), NEW k \in Kinds, doc.acts[k].state # "unplanned",
           ~(k = "codex" /\ (doc.acts[k].state = "COMPLETED" \/ doc.acts[k].semantic)),
           ~NativeRow(k, doc.acts[k])
    PROVE  Stuck(doc)
<1>1. doc \in Receipts /\ Agrees(k, doc.acts[k]) /\ k \in Planned(doc) /\ Parsed(doc) /\ k # "bundle"
  <2>1. doc \in Receipts /\ Agrees(k, doc.acts[k])
    BY DEF DocSound
  <2>2. QED BY <2>1, PlannedOf DEF Kinds
<1>2. PICK act : act = doc.acts[k]
  OBVIOUS
<1>3. PlainRow(k, act) /\ ~NativeRow(k, act)
  BY <1>1, <1>2 DEF Agrees
<1>4. CASE act.state = "PLANNED" /\ place[k].stage # "none"
  BY <1>1, <1>2, <1>4 DEF Stuck, UserEdits
<1>5. CASE k = "codex" /\ place[k].target \in {"edit", "clash"}
  <2>1. act.state \notin {"unplanned", "COMPLETED", "SEMANTIC_STAGED"}
    BY <1>2, <1>3, <1>5 DEF PlainRow, Begun
  <2>2. QED BY <1>1, <1>2, <1>5, <2>1 DEF Stuck, UserEdits
<1>6. CASE ~(act.state = "PLANNED" /\ place[k].stage # "none") /\ ~(k = "codex" /\ place[k].target \in {"edit", "clash"})
  <2>1. place[k] \in PlaceTypes
    BY DEF Base, Typed, MachineTyped
  <2>2. \A x, y, z : RowIs(k, x, y, z) => At(k, x, y, z)
    BY <1>6, <2>1 DEF RowIs, TargetIs, At, PlaceTypes
  <2>3. PICK q, p : q = Pre(k) /\ p = act.post
    OBVIOUS
  <2>4. CASE act.state = "PLANNED"
    <3>1. At(k, q, "none", "none")
      BY <1>3, <1>6, <2>2, <2>3, <2>4 DEF PlainRow
    <3>2. QED BY <1>3, <2>3, <2>4, <3>1 DEF NativeRow
  <2>5. CASE act.state = "RESTORED"
    <3>1. At(k, q, "none", "none")
      BY <1>3, <2>2, <2>3, <2>5 DEF PlainRow
    <3>2. QED BY <1>3, <2>3, <2>5, <3>1 DEF NativeRow
  <2>6. CASE act.state \in Begun
    <3>1. \/ At(k, q, "none", "none") \/ At(k, q, p, "none") \/ At(k, p, q, "none") \/ At(k, p, "none", q)
          \/ At(k, q, "none", p) \/ (k \in Trees /\ At(k, q, "none", "rest"))
      BY <1>3, <2>2, <2>3, <2>6 DEF PlainRow
    <3>2. act.state # "PLANNED"
      BY <2>6 DEF Begun
    <3>3. QED BY <1>3, <2>3, <3>1, <3>2 DEF NativeRow
  <2>7. QED BY <1>2, <1>3, <2>4, <2>5, <2>6 DEF PlainRow
<1>7. QED BY <1>4, <1>5, <1>6

\* A row that the semantic rollback does not accept is such a gap, or an edit that no merge is made for.
LEMMA SemanticOrStuck ==
    ASSUME Base, EditedOnce, NEW doc, DocSound(doc), NEW act, act = doc.acts["codex"],
           act.state = "COMPLETED" \/ act.semantic, ~SemanticRow(act)
    PROVE  Stuck(doc)
<1>1. doc \in Receipts /\ Agrees("codex", act) /\ Parsed(doc)
  <2>1. doc \in Receipts /\ Agrees("codex", act)
    BY DEF DocSound, Kinds
  <2>2. QED BY <2>1, PlannedOf
<1>2. PICK q, c : q = Pre("codex") /\ c = place["codex"]
  OBVIOUS
<1>3. q \in {"pre", "none"} /\ c \in PlaceTypes
  BY <1>2 DEF Pre, Base, Typed, MachineTyped, Kinds
<1>4. CASE ~act.semantic
  <2>1. PlainRow("codex", act) /\ act.state = "COMPLETED"
    BY <1>1, <1>4 DEF Agrees
  <2>2. act.post = "post" /\ (RowIs("codex", "post", "none", q) \/ RowIs("codex", q, "none", "post"))
    BY <1>2, <2>1 DEF PlainRow, Begun
  <2>3. c.stage = "none" /\ (c.target = "none" => q = "none")
    BY <1>2, <2>2 DEF RowIs, TargetIs
  <2>4. rstage # "none" \/ c.recovery # q \/ c.target = "clash"
    BY <1>2, <2>1, <2>3 DEF SemanticRow
  <2>5. QED BY <1>1, <1>2, <2>1, <2>4 DEF Stuck, UserEdits
<1>5. CASE act.semantic
  <2>1. /\ c.stage = "none" /\ c.target \in {"edit", "clash", "merged"}
        /\ act.state \in {"SEMANTIC_STAGED", "SEMANTIC_SWAPPED", "RESTORING", "RESTORED"}
        /\ act.state = "SEMANTIC_STAGED" =>
              c.recovery = q /\ (rstage = "edit" \/ (rstage = "merged" /\ c.target # "merged"))
        /\ act.state = "SEMANTIC_SWAPPED" => c.recovery = q /\ rstage \in {"edit", "none"}
        /\ act.state = "RESTORING" => c.recovery \in {q, "none"} /\ rstage = "none"
        /\ act.state = "RESTORED" => c.recovery = "none" /\ rstage = "none"
    BY <1>1, <1>2, <1>5 DEF Agrees, MergeRow
  <2>2. CASE c.target = "clash"
    BY <1>1, <1>2, <2>1, <2>2 DEF Stuck, UserEdits
  <2>3. CASE c.target = "edit" /\ act.state # "SEMANTIC_STAGED"
    BY <1>1, <1>2, <2>1, <2>3 DEF Stuck, UserEdits
  <2>4. CASE act.state = "SEMANTIC_STAGED" /\ c.target # "clash"
    <3>1. (c.target = "edit" /\ rstage = "merged") \/ (c.target = "merged" /\ rstage = "edit")
      BY <1>2, <2>1, <2>4 DEF EditedOnce
    <3>2. QED BY <1>2, <2>1, <2>4, <3>1 DEF SemanticRow
  <2>5. CASE act.state = "SEMANTIC_SWAPPED" /\ c.target = "merged"
    <3>1. CASE rstage = "none"
      BY <1>1, <2>5, <3>1 DEF Stuck, UserEdits
    <3>2. CASE rstage # "none"
      BY <1>2, <2>1, <2>5, <3>2 DEF SemanticRow
    <3>3. QED BY <3>1, <3>2
  <2>6. CASE act.state \in {"RESTORING", "RESTORED"} /\ c.target = "merged"
    BY <1>2, <2>1, <2>6 DEF SemanticRow
  <2>7. QED BY <2>1, <2>2, <2>3, <2>4, <2>5, <2>6
<1>6. QED BY <1>4, <1>5

\* A receipt that is not stuck passes _preflight_rollback.
LEMMA PreflightOrStuck ==
    ASSUME Base, EditedOnce, NEW doc, DocSound(doc), ~Stuck(doc)
    PROVE  Preflight(doc)
<1>1. /\ doc \in Receipts /\ Parsed(doc) /\ BundleAgrees(doc.acts["bundle"]) /\ SelectorSound(doc) /\ StatusSound(doc)
      /\ Planned(doc) = {k \in Kinds \cup {"bundle"} : doc.acts[k].state # "unplanned"}
      /\ \A k \in Kinds \cup {"bundle"} : doc.acts[k] \in ActTypes
  <2>1. doc \in Receipts /\ BundleAgrees(doc.acts["bundle"]) /\ SelectorSound(doc) /\ StatusSound(doc)
    BY DEF DocSound
  <2>2. QED BY <2>1, PlannedOf
<1>2. doc.status = "INSTALLED" => Planned(doc) = Kinds \cup {"bundle"}
  BY <1>1 DEF StatusSound
<1>3. (CASE doc.acts["bundle"].state = "STAGED" -> bundle \in {"whole", "none"}
         [] doc.acts["bundle"].state \in {"PLANNED", "CLEANED"} -> bundle = "none"
         [] OTHER -> TRUE)
  <2>1. bundle \in {"none", "part", "whole"}
    BY DEF Base, Typed, MachineTyped
  <2>2. doc.acts["bundle"].state = "STAGED" => bundle # "part"
    BY <1>1 DEF Stuck, UserEdits
  <2>3. doc.acts["bundle"].state = "PLANNED" => bundle = "none"
    BY <1>1 DEF Stuck, UserEdits
  <2>4. doc.acts["bundle"].state = "CLEANED" => bundle = "none"
    BY <1>1 DEF BundleAgrees
  <2>5. QED BY <2>1, <2>2, <2>3, <2>4
<1>4. ASSUME NEW k \in Planned(doc) \ {"bundle"}
      PROVE  IF k = "codex" /\ (doc.acts[k].state = "COMPLETED" \/ doc.acts[k].semantic)
             THEN SemanticRow(doc.acts[k]) ELSE NativeRow(k, doc.acts[k])
  <2>1. k \in Kinds /\ doc.acts[k].state # "unplanned"
    BY <1>1, <1>4
  <2>2. CASE k = "codex" /\ (doc.acts[k].state = "COMPLETED" \/ doc.acts[k].semantic)
    <3>1. PICK act : act = doc.acts["codex"]
      OBVIOUS
    <3>2. SemanticRow(act)
      BY <2>2, <3>1, SemanticOrStuck
    <3>3. QED BY <2>2, <3>1, <3>2
  <2>3. CASE ~(k = "codex" /\ (doc.acts[k].state = "COMPLETED" \/ doc.acts[k].semantic))
    <3>1. NativeRow(k, doc.acts[k])
      BY <2>1, <2>3, NativeOrStuck
    <3>2. QED BY <2>3, <3>1
  <2>4. QED BY <2>2, <2>3
<1>5. IF "active" \notin doc.posts THEN Shown = <<PrevActive, "none">>
      ELSE \/ Shown \in {<<"new", PrevActive>>, <<PrevActive, "new">>}
           \/ doc.status = "ROLLED_BACK" /\ Shown = <<PrevActive, "none">>
  <2>1. CASE "active" \notin doc.posts
    <3>1. ~Mine
      BY <1>1, <2>1 DEF Stuck, UserEdits
    <3>2. QED BY <1>1, <2>1, <3>1 DEF SelectorSound
  <2>2. CASE "active" \in doc.posts
    <3>1. doc.status \in {"PREPARED", "INSTALLED", "ROLLBACK_PENDING", "ROLLED_BACK"}
      BY <1>1 DEF Receipts
    <3>2. QED BY <1>1, <2>2, <3>1 DEF SelectorSound
  <2>3. QED BY <2>1, <2>2
<1>6. QED BY <1>2, <1>3, <1>4, <1>5 DEF Preflight, Shown


\* A receipt that is still announced and not stuck passes _validate_pending_receipt.
LEMMA ValidOrStuck ==
    ASSUME Base, NEW doc, DocSound(doc), Waiting, ~Stuck(doc)
    PROVE  ValidPending(doc)
<1>1. /\ doc \in Receipts /\ Parsed(doc) /\ BundleAgrees(doc.acts["bundle"]) /\ StatusSound(doc)
      /\ Planned(doc) = {k \in Kinds \cup {"bundle"} : doc.acts[k].state # "unplanned"}
  <2>1. doc \in Receipts /\ BundleAgrees(doc.acts["bundle"]) /\ StatusSound(doc)
    BY DEF DocSound
  <2>2. QED BY <2>1, PlannedOf
<1>2. doc.status = "PREPARED"
  <2>1. doc.status \in {"PREPARED", "INSTALLED", "ROLLBACK_PENDING", "ROLLED_BACK"}
    BY <1>1 DEF Receipts
  <2>2. doc.status \notin {"ROLLBACK_PENDING", "ROLLED_BACK"}
    BY <1>1 DEF Stuck, UserEdits
  <2>3. doc.status # "INSTALLED"
    BY <1>1 DEF StatusSound
  <2>4. QED BY <2>1, <2>2, <2>3
<1>3. doc.posts \subseteq {"active"} /\ \A k \in Kinds \cup {"bundle"} : doc.acts[k].state = "unplanned"
  BY <1>1, <1>2 DEF StatusSound
<1>4. ASSUME NEW k \in Kinds
      PROVE  RowIs(k, Pre(k), "none", "none") /\ place[k].target = Pre(k) /\ (k = "codex" => rstage = "none")
  <2>1. Agrees(k, doc.acts[k]) /\ doc.acts[k].state = "unplanned"
    BY <1>3 DEF DocSound
  <2>2. RowIs(k, Pre(k), "none", "none") /\ (k = "codex" => rstage = "none")
    BY <2>1 DEF Agrees, MergeRow, PlainRow
  <2>3. ~(k = "codex" /\ place["codex"].target \in {"edit", "clash"})
    <3>1. SUFFICES ASSUME k = "codex", place["codex"].target \in {"edit", "clash"} PROVE FALSE
      OBVIOUS
    <3>2. doc.acts["codex"].state = "unplanned"
      BY <2>1, <3>1
    <3>3. QED BY <1>1, <3>1, <3>2 DEF Stuck, UserEdits
  <2>4. QED BY <2>2, <2>3 DEF RowIs, TargetIs
<1>5. StagesAbsent
  <2>1. bundle = "none"
    BY <1>1, <1>3 DEF BundleAgrees
  <2>2. rstage = "none"
    BY <1>4 DEF Kinds
  <2>3. QED BY <1>4, <2>1, <2>2 DEF StagesAbsent, RowIs
<1>6. Planned(doc) = {}
  BY <1>1, <1>3
<1>7. QED BY <1>2, <1>3, <1>4, <1>5, <1>6 DEF ValidPending

\* The two copies of a receipt as they are typed.
LEMMA PairTyped ==
    ASSUME Base
    PROVE  /\ Parsed(Pair.live) => Pair.live \in Receipts /\ DocSound(Pair.live)
           /\ ~Parsed(Pair.live) => Pair.live = Absent["receipt"]
           /\ Parsed(Pair.temp) => DocSound(Pair.temp)
           /\ ~Bare("receipt") => Parsed(Pair.temp) \/ TornTemp
           /\ Doc = Pair.live
<1>1. Pair.live \in ReceiptValues /\ Pair.live.status # "torn" /\ Pair.temp \in ReceiptValues /\ Doc = Pair.live
  BY DEF Base, Typed, JsonTyped, Pair, Doc
<1>2. Parsed(Pair.live) => Pair.live \in Receipts /\ DocSound(Pair.live)
  BY <1>1, KnownDoc
<1>3. ~Parsed(Pair.live) => Pair.live = Absent["receipt"]
  BY <1>1, Empties DEF ReceiptValues, Parsed, Receipts
<1>4. Parsed(Pair.temp) => DocSound(Pair.temp)
  BY DEF Base, AllDocs, Docs
<1>5. ~Bare("receipt") => Parsed(Pair.temp) \/ TornTemp
  <2>1. Pair.temp \in Receipts => Parsed(Pair.temp)
    BY PlannedOf
  <2>2. Pair.temp = [status |-> "torn"] => TornTemp
    BY Empties DEF TornTemp, Pair, Files
  <2>3. Pair.temp = [status |-> "none"] => Bare("receipt")
    BY Empties DEF Bare, Pair
  <2>4. QED BY <1>1, <2>1, <2>2, <2>3 DEF ReceiptValues
<1>6. QED BY <1>1, <1>2, <1>3, <1>4, <1>5

\* A receipt and its copy settle unless a rerun must refuse them.
LEMMA PairOrWhy ==
    ASSUME Base, EditedOnce, ~Bare("receipt"), ~PairSettles,
           \/ Running("reconcile") /\ Waiting
           \/ Running("recover") /\ Parsed(Doc)
    PROVE  Why
<1>1. SUFFICES ASSUME ~TornTemp, ~UnlistedPair, ~Stuck(Pair.live), ~Stuck(Pair.temp) PROVE PairSettles
  BY DEF Why
<1>2. Parsed(Pair.temp) /\ DocSound(Pair.temp)
  BY <1>1, PairTyped
<1>3. LiveNewer \/ TempNewer
  <2>1. CASE Parsed(Pair.live)
    BY <1>1, <1>2, <2>1 DEF UnlistedPair, LiveNewer, TempNewer
  <2>2. CASE ~Parsed(Pair.live)
    BY <2>2, PairTyped DEF TempNewer
  <2>3. QED BY <2>1, <2>2
<1>4. DocSound(Newest) /\ ~Stuck(Newest)
  BY <1>1, <1>2, PairTyped DEF Newest, LiveNewer
<1>5. Preflight(Newest)
  BY <1>4, PreflightOrStuck
<1>6. Running("reconcile") => ValidPending(Newest)
  <2>1. Running("reconcile") => Waiting
    BY DEF Running
  <2>2. QED BY <1>4, <2>1, ValidOrStuck
<1>7. QED BY <1>2, <1>3, <1>5, <1>6 DEF PairSettles

\* A conflict that reconcile_selectors finds is something that a rerun must refuse.
LEMMA ReconcileWhy ==
    ASSUME Base, EditedOnce, Running("reconcile"), ReconcileConflict
    PROVE  Why
<1>1. (\A f \in Files : ~Busy(f)) /\ Known(Doc) \in Receipts /\ DocSound(Known(Doc))
  BY AtRest, KnownDoc DEF Running
<1>2. CASE PendingTemp # "none" /\ (PendingTemp = "torn" \/ Waiting)
  <2>1. CASE PendingTemp = "torn"
    BY <2>1, Empties DEF Why, TornTemp, PendingTemp, Files
  <2>2. CASE PendingTemp # "torn"
    <3>1. PendingTemp = "this" /\ Waiting
      BY <1>2, <2>2 DEF Base, Typed, JsonTyped, PendingTemp
    <3>2. FALSE
      BY <1>1, <3>1, Empties DEF Base, OrderSound, PendingOnce, PendingTemp, Waiting, Files
    <3>3. QED BY <3>2
  <2>3. QED BY <2>1, <2>2
<1>3. CASE Waiting /\ ~Bare("receipt")
  <2>1. CASE ~PairSettles
    BY <1>3, <2>1, PairOrWhy
  <2>2. CASE PairSettles
    BY <1>2, <1>3, <2>2 DEF ReconcileConflict
  <2>3. QED BY <2>1, <2>2
<1>4. CASE Waiting /\ Bare("receipt") /\ Doc = Absent["receipt"]
  <2>1. ~Parsed(Doc)
    BY <1>4, Empties DEF Parsed
  <2>2. json["active"] = [live |-> PrevActive, temp |-> "none"] /\ backup = "none"
    BY <2>1 DEF Base, OrderSound, SelectorAfter
  <2>3. StagesAbsent
    <3>1. DocSound(FreshReceipt)
      BY <1>1, <2>1, KnownDoc
    <3>2. PICK doc : doc = FreshReceipt
      OBVIOUS
    <3>3. \A k \in Kinds \cup {"bundle"} : doc.acts[k].state = "unplanned" /\ ~doc.acts[k].semantic
      BY <3>2, FreshTyped DEF Unplanned
    <3>4. \A k \in Kinds : RowIs(k, Pre(k), "none", "none") /\ (k = "codex" => rstage = "none")
      BY <3>1, <3>2, <3>3 DEF DocSound, Agrees, PlainRow
    <3>5. bundle = "none"
      BY <3>1, <3>2, <3>3 DEF DocSound, BundleAgrees
    <3>6. rstage = "none"
      BY <3>4 DEF Kinds
    <3>7. QED BY <3>4, <3>5, <3>6 DEF StagesAbsent, RowIs
  <2>4. QED BY <1>2, <1>4, <2>2, <2>3 DEF ReconcileConflict
<1>5. CASE Waiting /\ Bare("receipt") /\ Doc # Absent["receipt"]
  <2>1. Parsed(Doc) /\ DocSound(Doc)
    BY <1>5, PairTyped
  <2>2. ~ValidPending(Doc) => Stuck(Pair.live)
    BY <1>5, <2>1, ValidOrStuck, PairTyped
  <2>3. ~SelectorRow => TornTemp
    <3>1. SUFFICES ASSUME ~SelectorRow, ~TornTemp PROVE FALSE
      OBVIOUS
    <3>2. json["active"].temp # "torn"
      BY <3>1, Empties DEF TornTemp, Files
    <3>3. SelectorSound(Doc) /\ PrevActive \in {"none", "old"} /\ (~Stuck(Doc) => Doc.status = "PREPARED")
      <4>1. ~Stuck(Doc) => ValidPending(Doc)
        BY <1>5, <2>1, ValidOrStuck
      <4>2. QED BY <2>1, <4>1 DEF DocSound, PrevActive, ValidPending
    <3>4. CASE "active" \in Doc.posts
      <4>1. Bare("active") /\ (Mine => Shown = <<"new", PrevActive>>)
        <5>1. Doc.status \in {"PREPARED", "INSTALLED", "ROLLBACK_PENDING", "ROLLED_BACK"}
          BY <2>1 DEF DocSound, Receipts
        <5>2. QED BY <3>3, <3>4, <5>1 DEF SelectorSound, Shown, Mine
      <4>2. QED BY <3>1, <3>3, <4>1, Empties DEF SelectorRow, Bare, Shown, Mine
    <3>5. CASE "active" \notin Doc.posts
      BY <3>1, <3>2, <3>3, <3>5 DEF SelectorRow, SelectorSound, Mine
    <3>6. QED BY <3>4, <3>5
  <2>4. QED BY <1>2, <1>5, <2>2, <2>3 DEF ReconcileConflict, Why
<1>6. QED BY <1>2, <1>3, <1>4, <1>5 DEF ReconcileConflict

\* A conflict that recover_active finds is something that a rerun must refuse.
LEMMA RecoverWhy ==
    ASSUME Base, EditedOnce, Running("recover"), RecoverConflict
    PROVE  Why
<1>1. Reversed \/ Mine
  BY DEF RecoverConflict
<1>2. Parsed(Doc) /\ Doc = Pair.live
  <2>1. Reversed => Parsed(Doc)
    BY KnownDoc DEF Reversed
  <2>2. Mine => Parsed(Doc)
    BY DEF Base, OrderSound, SelectorAfter, Mine, PrevActive
  <2>3. QED BY <1>1, <2>1, <2>2, PairTyped
<1>3. DocSound(Doc)
  BY <1>2, KnownDoc
<1>4. CASE ~Bare("receipt")
  <2>1. ~PairSettles
    BY <1>4 DEF RecoverConflict
  <2>2. QED BY <1>2, <1>4, <2>1, PairOrWhy
<1>5. CASE Bare("receipt") /\ Unfinished /\ ~Preflight(Doc)
  BY <1>2, <1>3, <1>5, PreflightOrStuck DEF Why
<1>6. CASE Doc.status = "INSTALLED" /\ ~Uncleaned /\ bundle # "none"
  <2>1. Doc.acts["bundle"].state = "CLEANED"
    BY <1>3, <1>6 DEF DocSound, StatusSound, Uncleaned
  <2>2. QED BY <1>3, <1>6, <2>1 DEF DocSound, BundleAgrees
<1>7. QED BY <1>4, <1>5, <1>6 DEF RecoverConflict


\* Without the new selector the receipts have all published it, or none has.
LEMMA ShownTogether ==
    ASSUME Base, ~Mine, "active" \in Known(Doc).posts, NEW d \in Docs
    PROVE  "active" \in d.posts
<1>1. SUFFICES ASSUME "active" \notin d.posts PROVE FALSE
  OBVIOUS
<1>2. PICK k : k = Known(Doc)
  OBVIOUS
<1>3. DocSound(k) /\ DocSound(d) /\ k \in Receipts /\ k \in Docs
  BY <1>2, KnownDoc DEF Base, AllDocs
<1>4. backup = "none"
  BY <1>1, <1>3 DEF DocSound, SelectorSound, Shown
<1>5. k.status = "ROLLED_BACK"
  <2>1. k.status \in {"PREPARED", "INSTALLED", "ROLLBACK_PENDING", "ROLLED_BACK"}
    BY <1>3 DEF Receipts
  <2>2. k.status \in {"PREPARED", "INSTALLED", "ROLLBACK_PENDING"} =>
           json["active"].live = "new" \/ backup = "new"
    BY <1>2, <1>3 DEF DocSound, SelectorSound, Shown
  <2>3. QED BY <1>4, <2>1, <2>2 DEF Mine
<1>6. Bare("receipt") /\ ~Busy("receipt")
  BY <1>3, <1>4, <1>5 DEF Base, OrderSound, RolledBackLast
<1>7. Docs = {k}
  BY <1>2, <1>6, Empties DEF Docs, Bare, Pair, Parsed
<1>8. QED BY <1>1, <1>2, <1>7

\* Where the selectors are reversed every receipt is being rolled back.
LEMMA ReversedTogether ==
    ASSUME Base, json["active"].live = PrevActive, backup = "new"
    PROVE  Reversed
<1>1. Parsed(Doc)
  BY DEF Base, OrderSound, SelectorAfter
<1>2. Known(Doc) = Doc /\ DocSound(Doc) /\ Doc \in Receipts /\ PrevActive \in {"none", "old"}
  BY <1>1, KnownDoc DEF PrevActive
<1>3. Doc.status \in {"PREPARED", "INSTALLED", "ROLLBACK_PENDING", "ROLLED_BACK"}
  BY <1>2 DEF Receipts
<1>4. "active" \in Doc.posts
  BY <1>2 DEF DocSound, SelectorSound, Shown, Mine
<1>5. Doc.status \notin {"PREPARED", "INSTALLED"}
  BY <1>2, <1>4 DEF DocSound, SelectorSound, Shown
<1>6. QED BY <1>3, <1>5 DEF Reversed

\* Selectors that are reversed are seen to be.
LEMMA ReversedAgain == Base /\ json["active"].live = PrevActive /\ backup = "new" => Reversed
BY ReversedTogether

\* Where the process is after the updates that the actions are made of.
LEMMA ProcMoves ==
    ASSUME Base
    PROVE  /\ \A f, v, s, pc, n : Publish(f, v, s, pc, n) => proc'.cmd = proc.cmd /\ proc'.pc = pc
           /\ \A pc : Go(pc) => proc'.cmd = proc.cmd /\ proc'.pc = pc /\ proc'.write = proc.write
           /\ Next1 => proc'.cmd = proc.cmd /\ proc'.pc = proc.pc
           /\ \A w : proc' = [proc EXCEPT !.write = w] => proc'.cmd = proc.cmd /\ proc'.pc = proc.pc
           /\ \A pc, n : proc' = [proc EXCEPT !.pc = pc, !.at = n] => proc'.cmd = proc.cmd
<1>1. PICK a, b, c, d : proc = [cmd |-> a, pc |-> b, at |-> c, write |-> d]
  BY DEF Base, Typed, ProcTyped
<1>2. ASSUME NEW f, NEW v, NEW s, NEW pc, NEW n, Publish(f, v, s, pc, n) PROVE proc'.cmd = proc.cmd /\ proc'.pc = pc
  <2>1. proc' = [proc EXCEPT !.pc = pc, !.at = n, !.write = [step |-> s, file |-> f, value |-> v]]
    BY <1>2 DEF Publish
  <2>2. QED BY ONLY <1>1, <2>1
<1>3. ASSUME NEW pc, Go(pc) PROVE proc'.cmd = proc.cmd /\ proc'.pc = pc /\ proc'.write = proc.write
  <2>1. proc' = [proc EXCEPT !.pc = pc]
    BY <1>3 DEF Go
  <2>2. QED BY ONLY <1>1, <2>1
<1>4. ASSUME Next1 PROVE proc'.cmd = proc.cmd /\ proc'.pc = proc.pc
  <2>1. proc' = [proc EXCEPT !.at = @ + 1]
    BY <1>4 DEF Next1
  <2>2. QED BY ONLY <1>1, <2>1
<1>5. ASSUME NEW w, proc' = [proc EXCEPT !.write = w] PROVE proc'.cmd = proc.cmd /\ proc'.pc = proc.pc
  BY ONLY <1>1, <1>5
<1>6. ASSUME NEW pc, NEW n, proc' = [proc EXCEPT !.pc = pc, !.at = n] PROVE proc'.cmd = proc.cmd
  BY ONLY <1>1, <1>6
<1>7. QED BY <1>2, <1>3, <1>4, <1>5, <1>6

\* The steps in which a command goes on.
Onward ==
    \/ JsonStep \/ SettlePending \/ SettleReceipt \/ Reconcile \/ RemovePending \/ Recover
    \/ Begin \/ WriteSelectors \/ Record \/ Materialize
    \/ OpenStage \/ StageRuntime \/ StageCodex \/ StageBlender \/ ForwardObject
    \/ RollbackIntent \/ CleanBundle \/ RestoreSemantic \/ RestoreSelector \/ CleanSelector
    \/ \E k \in Kinds : RestoreObject(k)

\* A command that works on keeps its name and its outcome.
LEMMA OnwardKeeps ==
    ASSUME Base, Phase, Onward
    PROVE  proc'.cmd = proc.cmd /\ UNCHANGED outcome /\ proc.pc # "idle"
<1>1. CASE JsonStep
  <2>1. UNCHANGED outcome /\ proc' = [proc EXCEPT !.write = proc'.write] /\ proc.write.step # "none"
    BY <1>1, JsonStepKeepsBase DEF Writing
  <2>2. proc.pc # "idle"
    BY <2>1, Empties DEF Phase, PlaceSound, IdleSound
  <2>3. PICK w : w = proc'.write
    OBVIOUS
  <2>4. proc' = [proc EXCEPT !.write = w]
    BY <2>1, <2>3
  <2>5. QED BY <2>1, <2>2, <2>4, ProcMoves
<1>2. CASE SettlePending \/ SettleReceipt \/ Reconcile \/ RemovePending \/ Recover
  <2>1. UNCHANGED outcome /\ proc.pc # "idle"
    BY <1>2 DEF SettlePending, SettleReceipt, Reconcile, RemovePending, Recover, Reconcilable, Running, Doing
  <2>2. \/ \E f, v, s, pc, n : Publish(f, v, s, pc, n)
        \/ \E pc : Go(pc)
        \/ Next1
    BY <1>2 DEF SettlePending, SettleReceipt, Reconcile, RemovePending, Recover, Journal
  <2>3. QED BY <2>1, <2>2, ProcMoves
<1>3. CASE Begin
  <2>1. UNCHANGED outcome /\ proc.pc # "idle" /\ proc' = [proc EXCEPT !.pc = "install", !.at = 1]
    BY <1>3 DEF Begin, Running
  <2>2. QED BY <2>1, ProcMoves
<1>4. CASE WriteSelectors \/ Record
  <2>1. UNCHANGED outcome /\ proc.pc # "idle"
    BY <1>4 DEF WriteSelectors, Record, Doing, Running
  <2>2. \E f, v, s, pc, n : Publish(f, v, s, pc, n)
    BY <1>4 DEF WriteSelectors, Record, Write
  <2>3. QED BY <2>1, <2>2, ProcMoves
<1>5. CASE Materialize \/ OpenStage \/ StageRuntime \/ StageCodex \/ StageBlender
  <2>1. UNCHANGED outcome /\ proc.pc # "idle" /\ Next1
    BY <1>5 DEF Materialize, OpenStage, StageRuntime, StageCodex, StageBlender, Staged, DoingOn, Doing, Running
  <2>2. QED BY <2>1, ProcMoves
<1>6. CASE ForwardObject \/ RollbackIntent
  <2>1. UNCHANGED outcome /\ proc.pc # "idle" /\ \E d, pc, n : Journal(d, pc, n)
    BY <1>6 DEF ForwardObject, RollbackIntent, Doing, Running
  <2>2. QED BY <2>1, ProcMoves DEF Journal
<1>7. CASE CleanBundle
  <2>1. UNCHANGED outcome /\ proc.pc # "idle" /\ (UNCHANGED proc \/ \E d, pc, n : Journal(d, pc, n))
    BY <1>7 DEF CleanBundle, Doing, Rolling, Running
  <2>2. QED BY <2>1, ProcMoves DEF Journal
<1>8. CASE RestoreSemantic
  <2>1. Rolling /\ UNCHANGED outcome
    BY <1>8 DEF RestoreSemantic, Restoring
  <2>2. UNCHANGED proc \/ \E d, pc, n : Journal(d, pc, n)
    BY <1>8 DEF RestoreSemantic
  <2>3. QED BY <2>1, <2>2, ProcMoves DEF Journal, Rolling, Running
<1>9. CASE RestoreSelector \/ CleanSelector
  <2>1. UNCHANGED outcome /\ proc.pc # "idle" /\ (UNCHANGED proc \/ Go("recovered") \/ \E d, pc, n : Journal(d, pc, n))
    BY <1>9 DEF RestoreSelector, CleanSelector, Undone, Rolling, Running
  <2>2. QED BY <2>1, ProcMoves DEF Journal
<1>10. ASSUME NEW k \in Kinds, RestoreObject(k) PROVE proc'.cmd = proc.cmd /\ UNCHANGED outcome /\ proc.pc # "idle"
  <2>1. Rolling /\ UNCHANGED outcome /\ (UNCHANGED proc \/ \E d, pc, n : Journal(d, pc, n))
    BY <1>10 DEF RestoreObject, RestoreTo, Restoring
  <2>2. QED BY <2>1, ProcMoves DEF Journal, Rolling, Running
<1>11. QED BY <1>1, <1>2, <1>3, <1>4, <1>5, <1>6, <1>7, <1>8, <1>9, <1>10 DEF Onward


\* The user's edits and the rollback's merge.
LEMMA RstageMovers ==
    ASSUME Base, [Next]_vars, ~RestoreSemantic, ~Begin
    PROVE  rstage' = rstage
<1>1. CASE JsonStep
  BY <1>1, JsonStepKeepsBase DEF Writing
<1>2. CASE OpenStage \/ StageRuntime \/ StageCodex \/ StageBlender
  BY <1>2 DEF OpenStage, StageRuntime, StageCodex, StageBlender, Staged
<1>3. CASE SettlePending \/ SettleReceipt \/ Reconcile \/ Recover \/ AfterRecovery \/ Refusal \/ WriteSelectors \/ Record
  BY <1>3 DEF SettlePending, SettleReceipt, Reconcile, Recover, AfterRecovery, Refusal, WriteSelectors, Record, machine
<1>4. CASE Materialize \/ InstallDone \/ RollbackIntent \/ CleanBundle \/ CleanSelector \/ Start \/ StartRollback
  BY <1>4 DEF Materialize, InstallDone, RollbackIntent, CleanBundle, CleanSelector, Start, StartRollback, machine
<1>5. CASE Crash \/ Fail \/ MaterializeFails \/ StagingFails \/ UNCHANGED vars
  BY <1>5 DEF Crash, Fail, MaterializeFails, StagingFails, machine, vars
<1>6. CASE Edit \/ RemovePending \/ ForwardObject \/ RestoreSelector \/ \E k \in Kinds : RestoreObject(k)
  BY <1>6 DEF Edit, UserEdits, RemovePending, ForwardObject, RestoreSelector, RestoreObject, machine
<1>7. QED BY <1>1, <1>2, <1>3, <1>4, <1>5, <1>6 DEF Next, Step, JsonStep

\* No edit is in the copy of a merge that is not recorded.
LEMMA PlainStage ==
    ASSUME Base, ~Merging(Known(Doc))
    PROVE  rstage # "edit"
<1>1. Agrees("codex", Known(Doc).acts["codex"])
  BY KnownDoc DEF DocSound, Kinds
<1>2. PlainRow("codex", Known(Doc).acts["codex"])
  BY <1>1 DEF Agrees, Merging
<1>3. QED BY <1>2 DEF PlainRow

\* EditedOnce is inductive with Base and Phase.
LEMMA EditedOnceKept ==
    ASSUME Base, Phase, EditedOnce, [Next]_vars
    PROVE  EditedOnce'
<1>1. place \in [Kinds -> PlaceTypes] /\ "codex" \in Kinds
  BY DEF Base, Typed, MachineTyped, Kinds
<1>2. CASE Begin
  BY <1>2 DEF Begin, EditedOnce
<1>3. CASE RestoreSemantic
  <2>1. CASE rstage' = rstage /\ (place' = place \/ place' = [place EXCEPT !["codex"].recovery = "none"])
    <3>1. PICK a, b, c : place["codex"] = [target |-> a, stage |-> b, recovery |-> c]
      BY <1>1 DEF PlaceTypes
    <3>2. place'["codex"] = place["codex"] \/ place'["codex"] = [place["codex"] EXCEPT !.recovery = "none"]
      BY <1>1, <2>1
    <3>3. place'["codex"].target = place["codex"].target
      BY <3>1, <3>2
    <3>4. QED BY <2>1, <3>3 DEF EditedOnce
  <2>2. CASE rstage' \in {"part", "merged", "none"}
    BY <2>2 DEF EditedOnce
  <2>3. CASE place' = [place EXCEPT !["codex"].target = "merged"]
    <3>1. PICK a, b, c : place["codex"] = [target |-> a, stage |-> b, recovery |-> c]
      BY <1>1 DEF PlaceTypes
    <3>2. place'["codex"] = [place["codex"] EXCEPT !.target = "merged"]
      BY <1>1, <2>3
    <3>3. place'["codex"].target = "merged"
      BY <3>1, <3>2
    <3>4. QED BY <3>3 DEF EditedOnce
  <2>4. QED BY <1>3, <2>1, <2>2, <2>3 DEF RestoreSemantic
<1>4. CASE Edit
  <2>1. /\ UNCHANGED rstage
        /\ rstage # "merged" /\ Parsed(Doc) /\ Doc.acts["codex"].semantic => place' = [place EXCEPT !["codex"].target = "clash"]
    BY <1>4 DEF Edit, UserEdits
  <2>2. CASE rstage # "merged" /\ Parsed(Doc) /\ Doc.acts["codex"].semantic
    <3>1. PICK a, b, c : place["codex"] = [target |-> a, stage |-> b, recovery |-> c]
      BY <1>1 DEF PlaceTypes
    <3>2. place'["codex"] = [place["codex"] EXCEPT !.target = "clash"]
      BY <1>1, <2>1, <2>2
    <3>3. place'["codex"].target = "clash"
      BY <3>1, <3>2
    <3>4. QED BY <3>3 DEF EditedOnce
  <2>3. CASE ~(Parsed(Doc) /\ Doc.acts["codex"].semantic)
    <3>1. ~Merging(Known(Doc))
      BY <2>3, FreshTyped DEF Merging, Known, Unplanned, Kinds
    <3>2. QED BY <2>1, <3>1, PlainStage DEF EditedOnce
  <2>4. CASE rstage = "merged"
    BY <2>1, <2>4 DEF EditedOnce
  <2>5. QED BY <2>2, <2>3, <2>4
<1>5. CASE ForwardObject
  <2>1. proc.pc = "install"
    BY <1>5 DEF ForwardObject, Doing, Running
  <2>2. rstage = "none" /\ rstage' = rstage
    BY <1>5, <2>1 DEF Phase, InstallSound, ForwardObject
  <2>3. QED BY <2>2 DEF EditedOnce
<1>6. ASSUME NEW k \in Kinds, RestoreObject(k) PROVE EditedOnce'
  <2>1. rstage' = rstage /\ Rolling /\ (k = "codex" => ~Semantic)
    BY <1>6 DEF RestoreObject, Restoring
  <2>2. CASE k = "codex"
    <3>1. ~Merging(Known(Doc))
      BY <2>1, <2>2, UndoAt DEF Semantic, Merging
    <3>2. QED BY <2>1, <3>1, PlainStage DEF EditedOnce
  <2>3. CASE k # "codex"
    <3>1. place'["codex"] = place["codex"]
      BY <1>1, <1>6, <2>3 DEF RestoreObject, RestoreTo
    <3>2. QED BY <2>1, <3>1 DEF EditedOnce
  <2>4. QED BY <2>2, <2>3
<1>7. CASE Swap \/ RestoreSelector
  <2>1. UNCHANGED place
    BY <1>7 DEF Swap, RestoreSelector, machine
  <2>2. rstage' = rstage
    BY <1>7 DEF Swap, RestoreSelector, machine
  <2>3. QED BY <2>1, <2>2 DEF EditedOnce
<1>8. CASE ~Mover
  <2>1. Untargeted /\ rstage' = rstage
    BY <1>8, Movers, RstageMovers DEF Mover
  <2>2. QED BY <1>1, <2>1 DEF EditedOnce, Untargeted
<1>9. QED BY <1>2, <1>3, <1>4, <1>5, <1>6, <1>7, <1>8 DEF Mover

\* The steps that write no JSON state file.
LEMMA Wordless ==
    ASSUME [Next]_vars, ~JsonStep, ~RemovePending, ~Begin, ~RestoreSelector
    PROVE  UNCHANGED json
<1>1. CASE OpenStage \/ StageRuntime \/ StageCodex \/ StageBlender
  BY <1>1 DEF OpenStage, StageRuntime, StageCodex, StageBlender, Staged
<1>2. CASE SettlePending \/ SettleReceipt \/ Reconcile \/ Recover \/ AfterRecovery \/ Refusal \/ WriteSelectors \/ Record
  BY <1>2 DEF SettlePending, SettleReceipt, Reconcile, Recover, AfterRecovery, Refusal, WriteSelectors, Record, machine
<1>3. CASE Materialize \/ InstallDone \/ RollbackIntent \/ CleanBundle \/ CleanSelector \/ Start \/ StartRollback
  BY <1>3 DEF Materialize, InstallDone, RollbackIntent, CleanBundle, CleanSelector, Start, StartRollback, machine
<1>4. CASE Crash \/ Fail \/ MaterializeFails \/ StagingFails \/ UNCHANGED vars
  BY <1>4 DEF Crash, Fail, MaterializeFails, StagingFails, machine, vars
<1>5. CASE Edit \/ ForwardObject \/ RestoreSemantic \/ \E k \in Kinds : RestoreObject(k)
  BY <1>5 DEF Edit, UserEdits, ForwardObject, RestoreSemantic, RestoreObject, machine
<1>6. QED BY <1>1, <1>2, <1>3, <1>4, <1>5 DEF Next, Step, JsonStep

\* RollShown is inductive with Base and Phase.
LEMMA RollShownKept ==
    ASSUME Base, Phase, RollShown, [Next]_vars
    PROVE  RollShown'
<1>1. Base' /\ Phase'
  BY NextKeeps
<1>2. SUFFICES ASSUME proc'.cmd = "rollback" PROVE (Parsed(Doc) /\ (Mine \/ "active" \in Doc.posts))'
  BY DEF RollShown
<1>3. CASE StartRollback
  <2>1. UNCHANGED json /\ Parsed(Doc) /\ (Doc.status = "ROLLED_BACK" \/ Mine \/ Reversed)
    BY <1>3 DEF StartRollback
  <2>2. Mine \/ "active" \in Doc.posts
    <3>1. DocSound(Doc)
      BY <2>1, KnownDoc
    <3>2. QED BY <2>1, <3>1 DEF DocSound, SelectorSound, Reversed
  <2>3. QED BY <2>1, <2>2 DEF Parsed, Doc, Mine
<1>4. CASE ~StartRollback
  <2>1. proc.cmd = "rollback" /\ ~Begin
    <3>1. CASE Onward
      <4>1. proc'.cmd = proc.cmd
        BY <3>1, OnwardKeeps
      <4>2. QED BY <1>2, <4>1 DEF Begin
    <3>2. CASE AfterRecovery
      <4>1. proc' = Idle \/ \E pc : Go(pc)
        BY <3>2 DEF AfterRecovery, End
      <4>2. proc'.cmd = proc.cmd
        BY <1>2, <4>1, ProcMoves, Empties
      <4>3. QED BY <1>2, <3>2, <4>2 DEF AfterRecovery, Begin
    <3>3. CASE Refusal \/ InstallDone \/ Crash
      <4>1. proc' = Idle \/ proc' = [Idle EXCEPT !.cmd = "refusing", !.pc = "recover"]
        BY <3>3 DEF Refusal, InstallDone, Crash, Refuse, End
      <4>2. proc'.cmd # "rollback"
        BY <4>1, Empties
      <4>3. QED BY <1>2, <4>2
    <3>4. CASE Start
      <4>1. proc' = [Idle EXCEPT !.cmd = "install", !.pc = "reconcile"]
        BY <3>4 DEF Start
      <4>2. proc'.cmd = "install"
        BY <4>1, Empties
      <4>3. QED BY <1>2, <4>2
    <3>5. CASE Fail \/ MaterializeFails \/ StagingFails
      <4>1. PICK w : proc' = [Idle EXCEPT !.cmd = "failing", !.pc = "recover", !.write = w]
        BY <3>5 DEF Fail, MaterializeFails, StagingFails, Raises
      <4>2. proc'.cmd = "failing"
        BY <4>1, Empties
      <4>3. QED BY <1>2, <4>2
    <3>6. CASE Edit \/ UNCHANGED vars
      <4>1. UNCHANGED proc
        BY <3>6 DEF Edit, UserEdits, vars
      <4>2. proc.cmd = "rollback"
        BY <1>2, <4>1
      <4>3. QED BY <4>2 DEF Begin
    <3>7. QED BY <1>4, <3>1, <3>2, <3>3, <3>4, <3>5, <3>6 DEF Next, Step, Onward, JsonStep
  <2>2. Parsed(Doc) /\ (Mine \/ "active" \in Doc.posts) /\ Known(Doc) = Doc
    BY <2>1, KnownDoc DEF RollShown
  <2>3. CASE JsonStep
    <3>1. (Mine => Mine') /\ Docs' \subseteq Docs
      BY <2>3, JsonStepKeepsBase DEF Writing
    <3>2. Mine' => Parsed(Doc)'
      BY <1>1 DEF Base, OrderSound, SelectorAfter, Mine, PrevActive
    <3>3. CASE ~Mine
      <4>1. \A d \in Docs : "active" \in d.posts
        BY <2>2, <3>3, ShownTogether
      <4>2. Known(Doc)' \in Docs'
        BY DEF Docs
      <4>3. PICK d : d = Known(Doc)'
        OBVIOUS
      <4>4. "active" \in d.posts
        BY <3>1, <4>1, <4>2, <4>3
      <4>5. Parsed(Doc)' /\ Doc' = d
        BY <4>3, <4>4, FreshTyped DEF Known
      <4>6. QED BY <4>4, <4>5
    <3>4. QED BY <3>1, <3>2, <3>3
  <2>4. CASE RemovePending \/ RestoreSelector
    <3>1. /\ json = [f \in Files |-> [live |-> json[f].live, temp |-> json[f].temp]]
      BY DEF Base, Typed, JsonTyped
    <3>2. json'["receipt"] = json["receipt"]
      BY <2>4, <3>1 DEF RemovePending, RestoreSelector, Files
    <3>3. Doc' = Doc
      BY <3>2 DEF Doc
    <3>4. CASE RemovePending
      <4>1. json'["active"] = json["active"]
        BY <3>1, <3>4 DEF RemovePending, Files
      <4>2. QED BY <2>2, <3>3, <4>1 DEF Mine, Parsed
    <3>5. CASE RestoreSelector
      <4>1. "active" \in Doc.posts
        BY <3>5, UndoAt DEF RestoreSelector, Undone
      <4>2. QED BY <2>2, <3>3, <4>1 DEF Parsed
    <3>6. QED BY <2>4, <3>4, <3>5
  <2>5. CASE ~JsonStep /\ ~RemovePending /\ ~RestoreSelector
    <3>1. UNCHANGED json
      BY <2>1, <2>5, Wordless
    <3>2. QED BY <2>2, <3>1 DEF Doc, Parsed, Mine
  <2>6. QED BY <2>3, <2>4, <2>5
<1>5. QED BY <1>3, <1>4


\* What a step that leaves the machine and the files alone does not change.
LEMMA StuckSame ==
    ASSUME UNCHANGED <<had, place, rstage, bundle, json>>, NEW doc
    PROVE  Stuck(doc)' <=> Stuck(doc)
<1>1. \A k \in Kinds : Pre(k)' = Pre(k)
  BY DEF Pre
<1>2. (Mine' <=> Mine) /\ (Waiting' <=> Waiting)
  BY DEF Mine, Waiting
<1>3. Pre("codex")' = Pre("codex")
  BY <1>1 DEF Kinds
<1>4. QED BY <1>2, <1>3 DEF Stuck, UserEdits

\* A reason to refuse lasts as long as nothing moves.
LEMMA WhySame ==
    ASSUME UNCHANGED <<had, place, rstage, bundle, json>>, Why
    PROVE  Why'
<1>1. PICK x, y : x = Pair.live /\ y = Pair.temp
  OBVIOUS
<1>2. Pair.live' = x /\ Pair.temp' = y
  BY <1>1 DEF Pair
<1>3. (Stuck(x)' <=> Stuck(x)) /\ (Stuck(y)' <=> Stuck(y))
  BY StuckSame
<1>4. TornTemp' <=> TornTemp
  BY DEF TornTemp
<1>5. (Transition(x, y)' <=> Transition(x, y)) /\ (Transition(y, x)' <=> Transition(y, x))
  BY DEF Transition, Listed
<1>6. UnlistedPair' <=> UnlistedPair
  BY <1>1, <1>2, <1>5 DEF UnlistedPair, Bare
<1>7. QED BY <1>1, <1>2, <1>3, <1>4, <1>6 DEF Why

\* A preflight says the same as long as nothing moves.
LEMMA PreflightSame ==
    ASSUME UNCHANGED <<had, place, rstage, bundle, json, backup>>, NEW doc
    PROVE  Preflight(doc)' <=> Preflight(doc)
<1>1. (\A k : Pre(k)' = Pre(k)) /\ PrevActive' = PrevActive
  BY DEF Pre, PrevActive
<1>2. ASSUME NEW act, NEW k PROVE NativeRow(k, act)' <=> NativeRow(k, act)
  BY <1>1 DEF NativeRow, At
<1>3. ASSUME NEW act PROVE SemanticRow(act)' <=> SemanticRow(act)
  BY <1>1 DEF SemanticRow
<1>4. QED BY <1>1, <1>2, <1>3 DEF Preflight

\* The recovery finds the same conflict as long as nothing moves.
LEMMA RecoverConflictSame ==
    ASSUME UNCHANGED <<had, place, rstage, bundle, json, backup>>, ~Running("reconcile"), ~Running("reconcile")',
           RecoverConflict
    PROVE  RecoverConflict'
<1>1. PICK x, y : x = Pair.live /\ y = Pair.temp
  OBVIOUS
<1>2. Pair.live' = x /\ Pair.temp' = y /\ Pair' = Pair /\ Doc' = Doc
  BY <1>1 DEF Pair, Doc
<1>3. (Transition(x, y)' <=> Transition(x, y)) /\ (Transition(y, x)' <=> Transition(y, x))
  BY DEF Transition, Listed
<1>4. (LiveNewer' <=> LiveNewer) /\ (TempNewer' <=> TempNewer)
  BY <1>1, <1>2, <1>3 DEF LiveNewer, TempNewer
<1>5. PICK n, d : n = Newest /\ d = Doc
  OBVIOUS
<1>6. Newest' = n /\ Doc' = d
  BY <1>1, <1>2, <1>4, <1>5 DEF Newest
<1>7. (Preflight(n)' <=> Preflight(n)) /\ (Preflight(d)' <=> Preflight(d))
  BY PreflightSame
<1>8. PairSettles' => PairSettles
  BY <1>1, <1>2, <1>4, <1>5, <1>6, <1>7 DEF PairSettles
<1>9. Preflight(Doc)' <=> Preflight(Doc)
  BY <1>5, <1>6, <1>7
<1>10. (Mine' <=> Mine) /\ (Reversed' <=> Reversed) /\ (Bare("receipt")' <=> Bare("receipt"))
       /\ (Unfinished' <=> Unfinished) /\ (Uncleaned' <=> Uncleaned)
  BY <1>2 DEF Mine, Reversed, Bare, Unfinished, Uncleaned, PrevActive
<1>11. QED BY <1>2, <1>8, <1>9, <1>10 DEF RecoverConflict

\* A refused install that comes to recover.
LEMMA RefusalReason ==
    ASSUME Base, Phase, EditedOnce, RollShown, Refusal
    PROVE  /\ Why
           /\ proc.cmd # "install" \/ Running("reconcile") \/ (Running("recover") /\ RecoverConflict)
<1>1. CASE Running("reconcile") /\ ReconcileConflict
  BY <1>1, ReconcileWhy
<1>2. CASE Running("recover") /\ RecoverConflict
  BY <1>2, RecoverWhy
<1>3. CASE /\ proc.cmd = "rollback" /\ (Running("recovered") \/ Running("unchanged"))
           /\ Doc.status # "ROLLED_BACK" /\ ~(Mine /\ Preflight(Doc))
  <2>1. Parsed(Doc) /\ (Mine \/ "active" \in Doc.posts)
    BY <1>3 DEF RollShown
  <2>2. DocSound(Doc) /\ Known(Doc) = Doc /\ Doc \in Receipts /\ Coming = Doc /\ Doc = Pair.live
    BY <1>3, <2>1, KnownDoc, PairTyped DEF Running
  <2>3. Reversed \/ Mine
    <3>1. SUFFICES ASSUME ~Mine PROVE Reversed
      OBVIOUS
    <3>2. "active" \in Doc.posts /\ Doc.status \in {"PREPARED", "INSTALLED", "ROLLBACK_PENDING"}
      BY <1>3, <2>1, <2>2, <3>1 DEF Receipts
    <3>3. Shown = <<PrevActive, "new">>
      BY <2>2, <3>1, <3>2 DEF DocSound, SelectorSound, Shown, Mine
    <3>4. QED BY <3>3, ReversedTogether DEF Shown
  <2>4. Settled(Doc)
    <3>1. CASE Running("unchanged")
      BY <2>3, <3>1 DEF Phase, PlaceSound, RecoverySound, Running
    <3>2. CASE Running("recovered")
      BY <1>3, <2>2, <3>2 DEF Phase, PlaceSound, RecoverySound, Running
    <3>3. QED BY <1>3, <3>1, <3>2
  <2>5. Mine
    BY <2>2, <2>4 DEF Settled, DocSound, SelectorSound, StatusSound, Shown, Roles, Mine
  <2>6. Stuck(Doc)
    BY <1>3, <2>2, <2>5, PreflightOrStuck
  <2>7. QED BY <1>3, <2>2, <2>6 DEF Why
<1>4. QED BY <1>1, <1>2, <1>3 DEF Refusal

\* An install that refuses and has to recover first knows its reason when it begins to.
LEMMA RefusalRefusing ==
    ASSUME Base, Phase, EditedOnce, RollShown, Refusal, proc'.cmd = "refusing"
    PROVE  RefusingSound'
<1>1. UNCHANGED <<had, place, rstage, bundle, json, backup>> /\ Refuse
  BY DEF Refusal, machine
<1>2. proc.cmd = "install" /\ proc' = [Idle EXCEPT !.cmd = "refusing", !.pc = "recover"]
  BY <1>1, Empties DEF Refuse, End
<1>3. proc'.pc = "recover" /\ proc'.write = Quiet /\ proc'.write.step = "none"
  BY <1>2, Empties
<1>4. Why'
  BY <1>1, RefusalReason, WhySame
<1>5. (Reversed \/ Mine)' => Waiting' \/ RecoverConflict'
  <2>1. SUFFICES ASSUME (Reversed \/ Mine)' PROVE Waiting' \/ RecoverConflict'
    OBVIOUS
  <2>2. Reversed \/ Mine
    BY <1>1, <2>1 DEF Reversed, Mine, Doc, PrevActive
  <2>3. CASE Running("reconcile")
    <3>1. ReconcileConflict
      BY <1>2, <2>3 DEF Refusal, Running
    <3>2. json["pending"].temp = "none"
      BY <2>2, ShownIsParsed DEF Base, OrderSound, PendingFirst
    <3>3. Waiting
      BY <3>1, <3>2 DEF ReconcileConflict, PendingTemp
    <3>4. QED BY <1>1, <3>3 DEF Waiting
  <2>4. CASE Running("recover") /\ RecoverConflict
    <3>1. ~Running("reconcile") /\ ~Running("reconcile")'
      BY <1>3, <2>4 DEF Running
    <3>2. QED BY <1>1, <2>4, <3>1, RecoverConflictSame
  <2>5. QED BY <1>2, <2>3, <2>4, RefusalReason
<1>6. QED BY <1>3, <1>4, <1>5 DEF RefusingSound

\* Its recovery, step by step.
LEMMA RefusingGoes ==
    ASSUME Base, Phase, Base', Phase', RefusingSound, proc.cmd = "refusing", Onward
    PROVE  RefusingSound'
<1>1. /\ proc.pc \in {"recover", "unchanged", "rolling", "recovered"}
      /\ proc.pc = "recover" =>
            IF Reversed \/ Mine THEN Waiting \/ (proc.write.step = "none" /\ RecoverConflict) ELSE Why
      /\ proc.pc = "unchanged" => Why
      /\ proc.pc \in {"rolling", "recovered"} => Waiting
  BY DEF RefusingSound
<1>2. json = [f \in Files |-> [live |-> json[f].live, temp |-> json[f].temp]]
  BY DEF Base, Typed, JsonTyped
<1>3. CASE JsonStep
  <2>1. /\ proc' = [proc EXCEPT !.write = proc'.write] /\ proc.write.step # "none"
        /\ UNCHANGED had /\ (Mine => Mine')
        /\ proc.write.file \in {"pending", "receipt", "active"}
        /\ (\A g \in Files \ {proc.write.file} : json'[g] = json[g]) /\ (proc.write.file # "active" => backup' = backup)
    BY <1>3, JsonStepKeepsBase DEF Writing
  <2>2. proc'.pc = proc.pc
    <3>1. PICK w : w = proc'.write
      OBVIOUS
    <3>2. proc' = [proc EXCEPT !.write = w]
      BY <2>1, <3>1
    <3>3. QED BY <3>2, ProcMoves
  <2>3. proc.write.file = "receipt" /\ Busy("receipt")
    <3>1. ~Busy("active") /\ ~Busy("pending")
      BY <1>1 DEF Phase, PlaceSound, CursorSound
    <3>2. QED BY <2>1, <3>1 DEF Busy
  <2>4. json'["pending"] = json["pending"] /\ json'["active"] = json["active"] /\ backup' = backup
    BY <2>1, <2>3 DEF Files
  <2>5. Waiting' <=> Waiting
    BY <2>4 DEF Waiting
  <2>6. CASE proc.pc = "recover"
    <3>1. Mine \/ (backup = "new" /\ json["active"].live = PrevActive)
      BY <2>3, <2>6 DEF Phase, PlaceSound, RecoverySound
    <3>2. Reversed \/ Mine
      BY <3>1, ReversedTogether
    <3>3. Waiting
      BY <1>1, <2>1, <2>6, <3>2
    <3>4. (Reversed \/ Mine)'
      <4>1. (Mine \/ (backup = "new" /\ json["active"].live = PrevActive))'
        BY <2>1, <2>4, <3>1 DEF Mine, PrevActive
      <4>2. (backup = "new" /\ json["active"].live = PrevActive)' => Reversed'
        <5>1. Reversed' <=> (Doc.status \in {"ROLLBACK_PENDING", "ROLLED_BACK"}
                              /\ json["active"].live = PrevActive /\ backup = "new")'
          BY DEF Reversed
        <5>2. ASSUME (backup = "new")', (json["active"].live = PrevActive)' PROVE Reversed'
          <6>1. (Base /\ json["active"].live = PrevActive /\ backup = "new" => Reversed)'
            BY ReversedAgain, PTL
          <6>2. QED BY <5>2, <6>1
        <5>3. QED BY <5>2
      <4>3. QED BY <4>1, <4>2
    <3>5. QED BY <2>2, <2>5, <2>6, <3>3, <3>4 DEF RefusingSound
  <2>7. CASE proc.pc \in {"rolling", "recovered"}
    BY <1>1, <2>2, <2>5, <2>7 DEF RefusingSound
  <2>8. CASE proc.pc = "unchanged"
    BY <2>1, <2>8 DEF Phase, PlaceSound, CursorSound
  <2>9. QED BY <1>1, <2>6, <2>7, <2>8
<1>4. CASE SettleReceipt
  <2>1. /\ UNCHANGED <<had, place, rstage, bundle, json, backup>> /\ ~Bare("receipt")
        /\ Running("recover") /\ (Reversed \/ Mine) /\ PairSettles
    BY <1>1, <1>4 DEF SettleReceipt, Reconcilable, machine, Running
  <2>2. proc'.pc = "recover"
    <3>1. \E f, v, s, n : Publish(f, v, s, proc.pc, n)
      BY <1>4 DEF SettleReceipt
    <3>2. proc.pc = "recover"
      BY <2>1 DEF Running
    <3>3. QED BY <3>1, <3>2, ProcMoves
  <2>3. Waiting
    BY <1>1, <2>1 DEF RecoverConflict, Running
  <2>4. (Reversed \/ Mine)' /\ Waiting'
    BY <2>1, <2>3 DEF Reversed, Mine, Doc, PrevActive, Waiting
  <2>5. QED BY <2>2, <2>4 DEF RefusingSound
<1>5. CASE Recover
  <2>1. /\ UNCHANGED <<had, place, rstage, bundle, json, backup>> /\ proc.pc = "recover" /\ ~RecoverConflict
        /\ Go(CASE ~(Reversed \/ Mine) -> "unchanged" [] Doc.status = "INSTALLED" -> "unchanged" [] OTHER -> "rolling")
    BY <1>5 DEF Recover, Running, machine
  <2>2. CASE ~(Reversed \/ Mine)
    <3>1. Go("unchanged")
      BY <2>1, <2>2
    <3>2. proc'.pc = "unchanged"
      BY <3>1, ProcMoves
    <3>3. Why'
      BY <1>1, <2>1, <2>2, WhySame
    <3>4. QED BY <3>2, <3>3 DEF RefusingSound
  <2>3. CASE Reversed \/ Mine
    <3>1. Waiting /\ Waiting'
      BY <1>1, <2>1, <2>3 DEF Waiting
    <3>2. Doc.status # "INSTALLED"
      BY <2>3, <3>1, ShownIsParsed DEF DocSound, StatusSound
    <3>3. Go("rolling")
      BY <2>1, <2>3, <3>2
    <3>4. proc'.pc = "rolling"
      BY <3>3, ProcMoves
    <3>5. QED BY <3>1, <3>4 DEF RefusingSound
  <2>4. QED BY <2>2, <2>3
<1>6. CASE CleanBundle
  <2>1. UNCHANGED <<had, place, rstage, json, backup>> /\ proc.pc # "unchanged"
        /\ (proc.pc = "recover" => Running("recover") /\ Mine /\ Bare("receipt") /\ Uncleaned)
    BY <1>1, <1>6 DEF CleanBundle, Doing, Rolling, Running
  <2>2. Waiting /\ Waiting'
    BY <1>1, <2>1 DEF RecoverConflict, Unfinished, Uncleaned, Waiting
  <2>3. proc'.pc = proc.pc \/ proc'.pc = "recovered"
    <3>1. UNCHANGED proc \/ \E d, n : Journal(d, IF proc.pc = "recover" THEN "recovered" ELSE proc.pc, n)
      BY <1>6 DEF CleanBundle
    <3>2. QED BY <3>1, ProcMoves DEF Journal
  <2>4. proc.pc = "recover" => Mine'
    BY <2>1 DEF Mine
  <2>5. QED BY <1>1, <2>1, <2>2, <2>3, <2>4 DEF RefusingSound
<1>7. CASE RollbackIntent \/ RestoreSemantic \/ RestoreSelector \/ CleanSelector \/ \E k \in Kinds : RestoreObject(k)
  <2>1. proc.pc = "rolling"
    BY <1>7 DEF RollbackIntent, RestoreSemantic, RestoreSelector, CleanSelector, RestoreObject, Restoring, Undone, Rolling, Running
  <2>2. json'["pending"] = json["pending"]
    <3>1. UNCHANGED json \/ RestoreSelector
      BY <1>7 DEF RollbackIntent, RestoreSemantic, CleanSelector, RestoreObject
    <3>2. QED BY <1>2, <3>1 DEF RestoreSelector, Files
  <2>3. UNCHANGED proc \/ Go("recovered") \/ \E d, n : Journal(d, "rolling", n)
    BY <1>7 DEF RollbackIntent, RestoreSemantic, RestoreSelector, CleanSelector, RestoreObject, RestoreTo
  <2>4. proc'.pc \in {"rolling", "recovered"}
    BY <2>1, <2>3, ProcMoves DEF Journal
  <2>5. QED BY <1>1, <2>1, <2>2, <2>4 DEF RefusingSound, Waiting
<1>8. ~SettlePending /\ ~Reconcile /\ ~RemovePending /\ ~Begin
  BY <1>1 DEF SettlePending, Reconcile, Reconcilable, RemovePending, Begin, Running, Doing
<1>9. ~WriteSelectors /\ ~Record /\ ~Materialize /\ ~ForwardObject
      /\ ~OpenStage /\ ~StageRuntime /\ ~StageCodex /\ ~StageBlender
  BY <1>1 DEF WriteSelectors, Record, Materialize, ForwardObject, OpenStage, StageRuntime, StageCodex, StageBlender,
              DoingOn, Doing, Running
<1>10. QED BY <1>3, <1>4, <1>5, <1>6, <1>7, <1>8, <1>9 DEF Onward


\* RefusingSound is inductive with Base, Phase, EditedOnce and RollShown.
LEMMA RefusingSoundKept ==
    ASSUME Base, Phase, Base', Phase', EditedOnce, RollShown, RefusingSound, [Next]_vars
    PROVE  RefusingSound'
<1>1. SUFFICES ASSUME proc'.cmd = "refusing" PROVE RefusingSound'
  BY DEF RefusingSound
<1>2. CASE Onward
  <2>1. proc.cmd = "refusing"
    BY <1>1, <1>2, OnwardKeeps
  <2>2. QED BY <1>2, <2>1, RefusingGoes
<1>3. CASE Refusal
  BY <1>1, <1>3, RefusalRefusing
<1>4. CASE AfterRecovery
  <2>1. proc' # Idle
    BY <1>1, Empties
  <2>2. PICK pc \in {"rolling", "reconcile"} : Go(pc)
    BY <1>4, <2>1 DEF AfterRecovery, End
  <2>3. proc.cmd = "refusing"
    BY <1>1, <2>2, ProcMoves
  <2>4. End("refused")
    BY <1>4, <2>3 DEF AfterRecovery
  <2>5. QED BY <2>1, <2>4 DEF End
<1>5. CASE InstallDone \/ Crash
  <2>1. proc' = Idle
    BY <1>5 DEF InstallDone, Crash, End
  <2>2. QED BY <1>1, <2>1, Empties
<1>6. CASE Start
  <2>1. proc' = [Idle EXCEPT !.cmd = "install", !.pc = "reconcile"]
    BY <1>6 DEF Start
  <2>2. proc'.cmd = "install"
    BY <2>1, Empties
  <2>3. QED BY <1>1, <2>2
<1>7. CASE StartRollback
  <2>1. proc = Idle /\ (UNCHANGED proc \/ proc' = [Idle EXCEPT !.cmd = "rollback", !.pc = "reconcile"])
    BY <1>7 DEF StartRollback
  <2>2. proc'.cmd \in {"none", "rollback"}
    BY <2>1, Empties
  <2>3. QED BY <1>1, <2>2
<1>8. CASE Fail \/ MaterializeFails \/ StagingFails
  <2>1. PICK w : proc' = [Idle EXCEPT !.cmd = "failing", !.pc = "recover", !.write = w]
    BY <1>8 DEF Fail, MaterializeFails, StagingFails, Raises
  <2>2. proc'.cmd = "failing"
    BY <2>1, Empties
  <2>3. QED BY <1>1, <2>2
<1>9. CASE Edit
  <2>1. UNCHANGED proc /\ proc = Idle
    BY <1>9 DEF Edit, UserEdits
  <2>2. QED BY <1>1, <2>1, Empties
<1>10. CASE UNCHANGED vars
  <2>1. UNCHANGED <<had, place, rstage, bundle, json, backup>> /\ UNCHANGED proc
    BY <1>10 DEF vars
  <2>2. proc.cmd = "refusing" /\ (Waiting' <=> Waiting) /\ (Reversed' <=> Reversed) /\ (Mine' <=> Mine)
    BY <1>1, <2>1 DEF Waiting, Reversed, Mine, Doc, PrevActive
  <2>3. Why => Why'
    BY <2>1, WhySame
  <2>4. proc.pc = "recover" /\ RecoverConflict => RecoverConflict'
    <3>1. proc.pc = "recover" => ~Running("reconcile") /\ ~Running("reconcile")'
      BY <2>1 DEF Running
    <3>2. QED BY <2>1, <3>1, RecoverConflictSame
  <2>5. QED BY <2>1, <2>2, <2>3, <2>4 DEF RefusingSound
<1>11. QED BY <1>2, <1>3, <1>4, <1>5, <1>6, <1>7, <1>8, <1>9, <1>10 DEF Next, Step, Onward, JsonStep

\* A refused install that has recovered still has its reason.
LEMMA RefusingEndWhy ==
    ASSUME Base, Phase, RefusingSound, proc.cmd = "refusing", Running("recovered") \/ Running("unchanged")
    PROVE  Why
<1>1. CASE Running("unchanged")
  BY <1>1 DEF RefusingSound, Running
<1>2. CASE Running("recovered")
  <2>1. Waiting /\ Coming = Known(Doc)
    BY <1>2, KnownDoc DEF RefusingSound, Running
  <2>2. PICK d : d = Known(Doc)
    OBVIOUS
  <2>3. d.status = "ROLLED_BACK" \/ Settled(d)
    BY <1>2, <2>1, <2>2 DEF Phase, PlaceSound, RecoverySound, Running
  <2>4. DocSound(d) /\ d \in Receipts
    BY <2>2, KnownDoc
  <2>5. d.status = "ROLLED_BACK"
    BY <2>1, <2>3, <2>4 DEF Settled, DocSound, StatusSound
  <2>6. Parsed(Doc) /\ Doc = d /\ Doc = Pair.live
    BY <2>2, <2>5, KnownDoc, FreshTyped, PairTyped
  <2>7. QED BY <2>1, <2>5, <2>6 DEF Why, Stuck, UserEdits
<1>3. QED BY <1>1, <1>2

\* What was refused keeps its reason until the next command starts.
LEMMA RefusedSoundKept ==
    ASSUME Base, Phase, Base', Phase', Reasons, [Next]_vars
    PROVE  RefusedSound'
<1>1. EditedOnce /\ RollShown /\ RefusingSound /\ RefusedSound
  BY DEF Reasons
<1>2. SUFFICES ASSUME outcome' = "refused" PROVE Why'
  BY DEF RefusedSound
<1>3. CASE Onward
  <2>1. UNCHANGED outcome /\ proc.pc # "idle"
    BY <1>3, OnwardKeeps
  <2>2. Open
    BY <2>1 DEF Phase, PlaceSound, IdleSound, Open
  <2>3. FALSE
    BY <1>2, <2>1, <2>2 DEF Open
  <2>4. QED BY <2>3
<1>4. CASE Refusal
  <2>1. UNCHANGED <<had, place, rstage, bundle, json>>
    BY <1>4 DEF Refusal, machine
  <2>2. QED BY <1>1, <1>4, <2>1, RefusalReason, WhySame
<1>5. CASE AfterRecovery
  <2>1. UNCHANGED <<had, place, rstage, bundle, json>> /\ (Running("recovered") \/ Running("unchanged"))
    BY <1>5 DEF AfterRecovery, machine
  <2>2. Open
    BY <2>1 DEF Phase, PlaceSound, IdleSound, Open, Running
  <2>3. ~UNCHANGED outcome
    BY <1>2, <2>2 DEF Open
  <2>4. proc.cmd = "refusing"
    BY <1>2, <1>5, <2>3 DEF AfterRecovery, End
  <2>5. QED BY <1>1, <2>1, <2>4, RefusingEndWhy, WhySame
<1>6. CASE InstallDone \/ Crash
  BY <1>2, <1>6 DEF InstallDone, Crash, End
<1>7. CASE Start
  <2>1. Open'
    BY <1>7 DEF Start, Open
  <2>2. FALSE
    BY <1>2, <2>1 DEF Open
  <2>3. QED BY <2>2
<1>8. CASE StartRollback
  <2>1. UNCHANGED <<had, place, rstage, bundle, json>> /\ Parsed(Doc)
    BY <1>8 DEF StartRollback, machine
  <2>2. CASE ~Preflight(Doc)
    <3>1. DocSound(Doc) /\ Doc = Pair.live
      BY <2>1, KnownDoc, PairTyped
    <3>2. Stuck(Doc)
      BY <1>1, <2>2, <3>1, PreflightOrStuck
    <3>3. QED BY <2>1, <3>1, <3>2, WhySame DEF Why
  <2>3. CASE Preflight(Doc)
    <3>1. outcome' = "rolled_back" \/ Open'
      BY <1>8, <2>3 DEF StartRollback, Open
    <3>2. ~Open'
      BY <1>2 DEF Open
    <3>3. QED BY <1>2, <3>1, <3>2
  <2>4. QED BY <2>2, <2>3
<1>9. CASE Fail \/ MaterializeFails \/ StagingFails
  <2>1. UNCHANGED outcome /\ proc.pc # "idle"
    BY <1>9 DEF Fail, MaterializeFails, StagingFails, DoingOn, Doing, Running
  <2>2. Open
    BY <2>1 DEF Phase, PlaceSound, IdleSound, Open
  <2>3. FALSE
    BY <1>2, <2>1, <2>2 DEF Open
  <2>4. QED BY <2>3
<1>10. CASE Edit
  BY <1>2, <1>10 DEF Edit
<1>11. CASE UNCHANGED vars
  <2>1. UNCHANGED <<had, place, rstage, bundle, json>> /\ UNCHANGED outcome
    BY <1>11 DEF vars
  <2>2. Why
    BY <1>1, <1>2, <2>1 DEF RefusedSound
  <2>3. QED BY <2>1, <2>2, WhySame
<1>12. QED BY <1>3, <1>4, <1>5, <1>6, <1>7, <1>8, <1>9, <1>10, <1>11 DEF Next, Step, Onward, JsonStep

\* The reasons are inductive with Base and Phase.
LEMMA ReasonsKept ==
    ASSUME Base, Phase, Reasons, [Next]_vars
    PROVE  Reasons'
<1>1. Base' /\ Phase' /\ EditedOnce /\ RollShown /\ RefusingSound
  BY NextKeeps DEF Reasons
<1>2. QED BY <1>1, EditedOnceKept, RollShownKept, RefusingSoundKept, RefusedSoundKept DEF Reasons

(* The status and the outcome are truthful, and a command refuses only for a *)
(* reason that is on disk: a torn file, a receipt and copy that no rewrite   *)
(* explains, a gap between a rename and its journal or a user's edit         *)
(* (reconcile_selectors, recover_active and _preflight_rollback).            *)
THEOREM ReportsAlwaysTrue == Spec => []ReportsTrue
<1>1. Init => Reasons
  <2>1. SUFFICES ASSUME Init PROVE Reasons
    OBVIOUS
  <2>2. proc = Idle /\ rstage = "none"
    BY <2>1 DEF Init
  <2>3. Open
    BY <2>1 DEF Init, Open
  <2>4. EditedOnce /\ RollShown /\ RefusingSound
    BY <2>2, Empties DEF EditedOnce, RollShown, RefusingSound
  <2>5. RefusedSound
    BY <2>3 DEF RefusedSound, Open
  <2>6. QED BY <2>4, <2>5 DEF Reasons
<1>2. (Base /\ Phase) /\ Reasons /\ [Next]_vars => Reasons'
  BY ReasonsKept
<1>3. StatusTruthful /\ OutcomeWhole /\ Reasons => ReportsTrue
  BY DEF ReportsTrue, RefusalsExplained, Reasons, RefusedSound, Why
<1>4. QED BY <1>1, <1>2, <1>3, AlwaysSound, StatusAlwaysTruthful, PTL DEF Spec

=============================================================================
