------------------------ MODULE InstallerTransaction ------------------------
(***************************************************************************)
(* The transaction of the official-Blender-MCP installer: `install` and    *)
(* `rollback` over four managed objects, the receipt that journals every   *)
(* step, the selectors that publish a receipt, and what a later command    *)
(* does with whatever an interrupted one left behind.                      *)
(*                                                                         *)
(* One process runs at a time (the mutation locks); it may die between any *)
(* two system calls.  A file or tree is abstracted to which version of the *)
(* object it is; a JSON state file is the pair of the published document   *)
(* and the temporary copy beside it.  The lifecycle probes of Blender, the *)
(* upgrade workflow and the runtime lease are other components: here       *)
(* Blender is closed and no workflow retires a receipt.                    *)
(***************************************************************************)
EXTENDS Integers, FiniteSets, Sequences, SequencesExt

CONSTANTS Originals,    \* sets of what is on the machine before the first install
          MaxCrashes,   \* times the process is killed
          MaxFaults,    \* times a step of an install raises
          MaxEdits,     \* times the user edits the Codex configuration
          Tears         \* TRUE: a crash may leave a file or tree half written

Kinds == {"runtime", "extension", "userpref", "codex"}
Trees == {"bundle", "runtime", "extension"}
Objects == <<"bundle", "runtime", "extension", "userpref", "codex">>
Roles == Kinds \cup {"active"}
Files == {"pending", "receipt", "active"}

ASSUME InstallerAssumption ==
    /\ Originals # {} /\ Originals \subseteq SUBSET Roles
    /\ MaxCrashes \in Nat /\ MaxFaults \in Nat /\ MaxEdits \in Nat
    /\ Tears \in BOOLEAN

VARIABLES
    had,      \* what existed when the receipt in hand was written: its preimages
    place,    \* image at the target, stage and recovery path of each object
    rstage,   \* image at the Codex rollback stage
    bundle,   \* the staged release bundle: "none", "part" or "whole"
    json,     \* published document and temporary copy of each state file
    backup,   \* backups/<id>/previous-active.json: "none", "old" or "new"
    proc,     \* the running command: where it is and the JSON write it is in
    outcome,  \* how the last command ended
    spent     \* crashes, faults and edits so far

vars == <<had, place, rstage, bundle, json, backup, proc, outcome, spent>>
machine == <<had, place, rstage, bundle, backup>>

-----------------------------------------------------------------------------
(* Documents.                                                              *)

Pre(k) == IF k \in had THEN "pre" ELSE "none"
PrevActive == IF "active" \in had THEN "old" ELSE "none"

Absent == [f \in Files |-> IF f = "receipt" THEN [status |-> "none"] ELSE "none"]
Torn == [f \in Files |-> IF f = "receipt" THEN [status |-> "torn"] ELSE "torn"]
Bare(f) == json[f].temp = Absent[f]
Doc == json["receipt"].live
Parsed(doc) == doc.status \notin {"none", "torn"}

(* ReceiptAction: `post` is intended_post (actual_post equals it or is     *)
(* absent, by the state), `recovery` is recovery_image, "null" when None;  *)
(* `semantic` says that rollback_intended is recorded.                     *)
Unplanned == [state |-> "unplanned", post |-> "null", recovery |-> "null",
              semantic |-> FALSE]
FreshReceipt == [status |-> "PREPARED", posts |-> {},
                 acts |-> [k \in Kinds \cup {"bundle"} |-> Unplanned]]
Planned(doc) == {k \in DOMAIN doc.acts : doc.acts[k].state # "unplanned"}

(* The receipt rewrites that _receipt_transition recognises.               *)
Forward == {<<"STAGED", "SWAPPED">>, <<"STAGED", "PUBLISHED">>,
            <<"PARKED", "COMPLETED">>, <<"PUBLISHED", "COMPLETED">>,
            <<"unplanned", "PLANNED">>, <<"PLANNED", "STAGED">>}
SemanticSteps == {<<"COMPLETED", "SEMANTIC_STAGED">>,
                  <<"SEMANTIC_STAGED", "SEMANTIC_SWAPPED">>,
                  <<"SEMANTIC_SWAPPED", "RESTORING">>}
RestoreSteps ==
    {<<s, "RESTORING">> : s \in {"STAGED", "SWAPPED", "PARKED", "PUBLISHED", "COMPLETED"}}
        \cup {<<"STAGED", "RESTORED">>, <<"COMPLETED", "RESTORED">>}

Listed(k, before, after) ==
    LET step == <<before.state, after.state>>
        kept == after.recovery = before.recovery
    IN  IF k = "bundle"
        THEN step \in {<<"unplanned", "PLANNED">>, <<"PLANNED", "STAGED">>,
                       <<"STAGED", "CLEANED">>}
        ELSE \/ step \in Forward \cup SemanticSteps /\ kept
             \/ step \in RestoreSteps /\ after.semantic = before.semantic
             \/ step \in {<<"SWAPPED", "PARKED">>, <<"RESTORING", "RESTORING">>} /\ ~kept
             \/ /\ step = <<"RESTORING", "RESTORED">>
                /\ kept <=> (before.semantic /\ k \notin had)

StatusSteps == {<<"PREPARED", "INSTALLED">>, <<"PREPARED", "ROLLBACK_PENDING">>,
                <<"INSTALLED", "ROLLBACK_PENDING">>, <<"ROLLBACK_PENDING", "ROLLED_BACK">>}

Transition(old, new) ==
    \/ /\ old.acts = new.acts /\ old.posts = new.posts
       /\ <<old.status, new.status>> \in StatusSteps
    \/ /\ old.acts = new.acts /\ old.status = new.status
       /\ \E r \in Roles \ old.posts : new.posts = old.posts \cup {r}
    \/ /\ old.status = new.status /\ old.posts = new.posts
       /\ \E k \in Kinds \cup {"bundle"} :
             /\ old.acts[k] # new.acts[k]
             /\ new.acts = [old.acts EXCEPT ![k] = new.acts[k]]
             /\ Listed(k, old.acts[k], new.acts[k])

-----------------------------------------------------------------------------
(* What a command checks before it touches anything.                       *)

(* What the user made of config.toml: an edit out of which the rollback    *)
(* can take the managed values, or one for which it cannot, because such a *)
(* value was changed (managed_conflict), the file does not parse any more  *)
(* or a merge of something else is staged already.                         *)
UserEdits == {"edit", "clash"}

At(k, target, stage, recovery) ==
    place[k] = [target |-> target, stage |-> stage, recovery |-> recovery]

NativeRow(k, act) ==
    LET pre == Pre(k)
        post == act.post
    IN  IF act.state = "PLANNED" THEN At(k, pre, "none", "none")
        ELSE \/ At(k, pre, "none", "none") \/ At(k, pre, post, "none")
             \/ At(k, post, pre, "none")   \/ At(k, post, "none", pre)
             \/ At(k, pre, "none", post)
             \/ k \in Trees /\ At(k, pre, "none", "rest")

SemanticRow(act) ==
    LET c == place["codex"]
        pre == Pre("codex")
    IN  /\ c.stage = "none"
        /\ CASE act.state = "COMPLETED" ->
                  /\ rstage = "none" /\ c.recovery = pre
                  /\ c.target = "none" => pre = "none"
                  /\ c.target # "clash"  \* _preflight_merge
             [] act.state = "SEMANTIC_STAGED" ->
                  /\ c.recovery = pre
                  /\ \/ c.target = "edit" /\ rstage = "merged"
                     \/ c.target = "merged" /\ rstage = "edit"
             [] act.state = "SEMANTIC_SWAPPED" ->
                  c.target = "merged" /\ rstage = "edit" /\ c.recovery = pre
             [] act.state = "RESTORING" ->
                  c.target = "merged" /\ rstage = "none" /\ c.recovery \in {pre, "none"}
             [] act.state = "RESTORED" ->
                  c.target = "merged" /\ rstage = "none" /\ c.recovery = "none"

Preflight(doc) ==
    /\ doc.status = "INSTALLED" => Planned(doc) = Kinds \cup {"bundle"}
    /\ CASE doc.acts["bundle"].state = "STAGED" -> bundle \in {"whole", "none"}
         [] doc.acts["bundle"].state \in {"PLANNED", "CLEANED"} -> bundle = "none"
         [] OTHER -> TRUE
    /\ \A k \in Planned(doc) \ {"bundle"} :
          LET act == doc.acts[k]
          IN  IF k = "codex" /\ (act.state = "COMPLETED" \/ act.semantic)
              THEN SemanticRow(act) ELSE NativeRow(k, act)
    /\ LET shown == <<json["active"].live, backup>>
       IN  IF "active" \notin doc.posts THEN shown = <<PrevActive, "none">>
           ELSE \/ shown \in {<<"new", PrevActive>>, <<PrevActive, "new">>}
                \/ doc.status = "ROLLED_BACK" /\ shown = <<PrevActive, "none">>

StagesAbsent ==
    /\ bundle = "none" /\ rstage = "none"
    /\ \A k \in Kinds : place[k].stage = "none" /\ place[k].recovery = "none"

ValidPending(doc) ==
    /\ doc.status = "PREPARED" /\ Planned(doc) = {} /\ doc.posts \subseteq {"active"}
    /\ StagesAbsent
    /\ \A k \in Kinds : place[k].target = Pre(k)

Reversed ==
    /\ Doc.status \in {"ROLLBACK_PENDING", "ROLLED_BACK"}
    /\ json["active"].live = PrevActive /\ backup = "new"
Mine == json["active"].live = "new"

-----------------------------------------------------------------------------
(* The process and its JSON writes.                                        *)

Quiet == [step |-> "none", file |-> "receipt", value |-> Absent["receipt"]]
Idle == [cmd |-> "none", pc |-> "idle", at |-> 0, write |-> Quiet]

Op(op, k) == [op |-> op, on |-> k]
(* _changed_install_locked after the receipt is built, in program order.   *)
Program ==
    << Op("pending", "active"), Op("receipt", "active"), Op("active", "active"),
       Op("post", "active"), Op("unpend", "active"),
       Op("plan", "bundle"), Op("open", "bundle"), Op("fill", "bundle"), Op("record", "bundle"),
       Op("plan", "runtime"), Op("open", "runtime"), Op("fill", "runtime"),
       Op("record", "runtime"), Op("forward", "runtime"), Op("post", "runtime"),
       Op("plan", "extension"), Op("plan", "userpref"),
       Op("move", "extension"), Op("move", "userpref"),
       Op("record", "extension"), Op("record", "userpref"),
       Op("forward", "extension"), Op("forward", "userpref"),
       Op("post", "extension"), Op("post", "userpref"),
       Op("plan", "codex"), Op("open", "codex"), Op("fill", "codex"),
       Op("record", "codex"), Op("forward", "codex"), Op("post", "codex"),
       Op("verified", "active"), Op("clean", "bundle"), Op("done", "active") >>

Running(pc) == proc.pc = pc /\ proc.write.step = "none"
Doing(op) == Running("install") /\ Program[proc.at].op = op
Subject == Program[proc.at].on
DoingOn(op, k) == Doing(op) /\ Subject = k

Go(pc) == proc' = [proc EXCEPT !.pc = pc]
Next1 == proc' = [proc EXCEPT !.at = @ + 1]
End(how) == proc' = Idle /\ outcome' = how

(* write_atomic_json from its first system call, or (step "finish") from   *)
(* the retry that only has the displaced document left to put away.        *)
Publish(file, value, step, pc, at) ==
    proc' = [proc EXCEPT !.pc = pc, !.at = at,
                         !.write = [step |-> step, file |-> file, value |-> value]]
Journal(doc, pc, at) == Publish("receipt", doc, "create", pc, at)
WithAct(k, act) == [Doc EXCEPT !.acts[k] = act]

(* A command of a failed or refused install still runs recover_active.     *)
Refuse ==
    IF proc.cmd = "install"
    THEN /\ proc' = [Idle EXCEPT !.cmd = "refusing", !.pc = "recover"]
         /\ UNCHANGED outcome
    ELSE End("refused")

Create ==
    LET f == proc.write.file IN
    /\ proc.write.step = "create"
    /\ IF json[f].temp = Absent[f]
       THEN /\ json' = [json EXCEPT ![f].temp = Torn[f]]
            /\ proc' = [proc EXCEPT !.write.step = "fill"]
            /\ UNCHANGED outcome
       ELSE IF json[f].temp = proc.write.value
       THEN json' = [json EXCEPT ![f].temp = Absent[f]] /\ UNCHANGED <<proc, outcome>>
       ELSE Refuse /\ UNCHANGED json
    /\ UNCHANGED <<machine, spent>>

Fill ==
    /\ proc.write.step = "fill"
    /\ json' = [json EXCEPT ![proc.write.file].temp = proc.write.value]
    /\ proc' = [proc EXCEPT !.write.step = "swap"]
    /\ UNCHANGED <<machine, outcome, spent>>

Swap ==
    LET f == proc.write.file IN
    /\ proc.write.step = "swap"
    /\ json' = [json EXCEPT ![f] = [live |-> @.temp, temp |-> @.live]]
    /\ proc' = IF json[f].live = Absent[f]
               THEN [proc EXCEPT !.write = Quiet]
               ELSE [proc EXCEPT !.write.step = "finish"]
    /\ UNCHANGED <<machine, outcome, spent>>

(* The displaced document is unlinked; the displaced selector is kept.     *)
Finish ==
    LET f == proc.write.file IN
    /\ proc.write.step = "finish"
    /\ json' = [json EXCEPT ![f].temp = Absent[f]]
    /\ backup' = IF f = "active" THEN json[f].temp ELSE backup
    /\ proc' = [proc EXCEPT !.write = Quiet]
    /\ UNCHANGED <<had, place, rstage, bundle, outcome, spent>>

-----------------------------------------------------------------------------
(* Commands.                                                               *)

Start ==
    /\ proc = Idle
    /\ proc' = [Idle EXCEPT !.cmd = "install", !.pc = "reconcile"]
    /\ outcome' = ""
    /\ UNCHANGED <<machine, json, spent>>

(* rollback of the receipt in hand, by direct or reversed authority.       *)
StartRollback ==
    /\ proc = Idle
    /\ Parsed(Doc) /\ (Doc.status = "ROLLED_BACK" \/ Mine \/ Reversed)
    /\ IF ~Preflight(Doc) THEN outcome' = "refused" /\ UNCHANGED proc
       ELSE IF Doc.status = "ROLLED_BACK" /\ backup = "none"
       THEN outcome' = "rolled_back" /\ UNCHANGED proc
       ELSE /\ proc' = [Idle EXCEPT !.cmd = "rollback", !.pc = "reconcile"]
            /\ outcome' = ""
    /\ UNCHANGED <<machine, json, spent>>

(* The user edits config.toml between commands, which may also take the    *)
(* reason of an earlier refusal away. Once the merge of an edit has been   *)
(* exchanged into its place, every further edit is one it does not fit.    *)
Edit ==
    /\ proc = Idle /\ spent.edits < MaxEdits
    /\ spent' = [spent EXCEPT !.edits = @ + 1]
    /\ \E image \in IF rstage # "merged" /\ Parsed(Doc) /\ Doc.acts["codex"].semantic
                     THEN {"clash"} ELSE UserEdits :
          place' = [place EXCEPT !["codex"].target = image]
    /\ outcome' = IF outcome = "refused" THEN "" ELSE outcome
    /\ UNCHANGED <<had, rstage, bundle, json, backup, proc>>

HalfWritten ==
    \/ bundle = "part" \/ rstage = "part"
    \/ \E k \in Kinds : {place[k].stage, place[k].recovery} \cap {"part", "rest"} # {}
    \/ \E f \in Files : json[f].temp = Torn[f]

Crash ==
    /\ proc # Idle /\ spent.crashes < MaxCrashes
    /\ Tears \/ ~HalfWritten
    /\ spent' = [spent EXCEPT !.crashes = @ + 1]
    /\ End("killed")
    /\ UNCHANGED <<machine, json>>

(* A step of an install raises: install() recovers in the same process,    *)
(* once the step's own handler has written what it writes.                 *)
Raises(write) ==
    /\ spent.faults < MaxFaults
    /\ spent' = [spent EXCEPT !.faults = @ + 1]
    /\ proc' = [Idle EXCEPT !.cmd = "failing", !.pc = "recover", !.write = write]

Fail ==
    /\ proc.pc = "install"
    /\ ~DoingOn("fill", "bundle") /\ ~DoingOn("fill", "runtime")
    /\ Raises(Quiet)
    /\ UNCHANGED <<machine, json, outcome>>

-----------------------------------------------------------------------------
(* reconcile_selectors: finish publishing the receipt that pending names.  *)

Waiting == json["pending"].live # Absent["pending"]
PendingTemp == json["pending"].temp

(* Which of a receipt and its temporary copy is the newer; live may be     *)
(* missing only for the receipt that pending names.                        *)
Pair == json["receipt"]
LiveNewer == Parsed(Pair.live) /\ Transition(Pair.temp, Pair.live)
TempNewer == \/ Waiting /\ Running("reconcile") /\ Pair.live = Absent["receipt"]
             \/ Parsed(Pair.live) /\ Transition(Pair.live, Pair.temp)
Newest == IF LiveNewer THEN Pair.live ELSE Pair.temp
PairSettles ==
    /\ Parsed(Pair.temp) /\ (LiveNewer \/ TempNewer)
    /\ Running("reconcile") => ValidPending(Newest)
    /\ Preflight(Newest)

SelectorRow ==
    LET s == json["active"] IN
    IF s.live = "new"
    THEN IF PrevActive = "none" THEN backup = "none" /\ s.temp = "none"
         ELSE <<backup, s.temp>> \in {<<"old", "none">>, <<"none", "old">>}
    ELSE s.temp \in {"none", "new"}

ReconcileConflict ==
    \/ PendingTemp # "none" /\ (PendingTemp = "torn" \/ Waiting)
    \/ PendingTemp = "none" /\ Waiting /\
        IF ~Bare("receipt") THEN ~PairSettles
        ELSE IF Doc = Absent["receipt"]
        THEN ~(json["active"] = [live |-> PrevActive, temp |-> "none"]
               /\ backup = "none" /\ StagesAbsent)
        ELSE ~(ValidPending(Doc) /\ SelectorRow)

Reconcilable == Running("reconcile") /\ ~ReconcileConflict

SettlePending ==
    /\ Reconcilable /\ PendingTemp # "none"
    /\ Publish("pending", PendingTemp, "create", "reconcile", 0)
    /\ UNCHANGED <<machine, json, outcome, spent>>

SettleReceipt ==
    /\ \/ Reconcilable /\ PendingTemp = "none" /\ Waiting
       \/ Running("recover") /\ (Reversed \/ Mine) /\ PairSettles
    /\ ~Bare("receipt")
    /\ Publish("receipt", Newest, IF LiveNewer THEN "finish" ELSE "create", proc.pc, 0)
    /\ UNCHANGED <<machine, json, outcome, spent>>

Reconcile ==
    /\ Reconcilable /\ PendingTemp = "none"
    /\ \/ ~Waiting /\ Go("recover")
       \/ Waiting /\ Bare("receipt") /\ Doc = Absent["receipt"] /\ Go("unpend")
       \/ /\ Waiting /\ Bare("receipt") /\ Parsed(Doc)
          /\ IF Mine /\ Bare("active")
             THEN Journal([Doc EXCEPT !.posts = @ \cup {"active"}], "unpend", 0)
             ELSE Publish("active", "new", IF Mine THEN "finish" ELSE "create", "reconcile", 0)
    /\ UNCHANGED <<machine, json, outcome, spent>>

(* _remove_pending, here and in the install.                               *)
RemovePending ==
    /\ \/ Running("unpend") /\ Go("recover")
       \/ Doing("unpend") /\ Next1
    /\ json' = [json EXCEPT !["pending"].live = Absent["pending"]]
    /\ UNCHANGED <<machine, outcome, spent>>

-----------------------------------------------------------------------------
(* recover_active and what the command does after it.                      *)

Unfinished == Doc.status \in {"PREPARED", "ROLLBACK_PENDING"}
Uncleaned == Doc.status = "INSTALLED" /\ Doc.acts["bundle"].state = "STAGED"

RecoverConflict ==
    /\ Reversed \/ Mine
    /\ IF ~Bare("receipt") THEN ~PairSettles
       ELSE \/ Unfinished /\ ~Preflight(Doc)
            \/ Doc.status = "INSTALLED" /\ ~Uncleaned /\ bundle # "none"

Recover ==
    /\ Running("recover") /\ ~RecoverConflict
    /\ (Reversed \/ Mine) => Bare("receipt") /\ ~Uncleaned
    /\ Go(CASE ~(Reversed \/ Mine) -> "unchanged"
            [] Doc.status = "INSTALLED" -> "unchanged"
            [] OTHER -> "rolling")
    /\ UNCHANGED <<machine, json, outcome, spent>>

(* The exact installation: an edit of the user may or may not touch the    *)
(* values the inspection compares.                                         *)
Exactness ==
    IF Mine /\ Doc.status = "INSTALLED" /\ \A k \in Kinds \ {"codex"} : place[k].target = "post"
    THEN IF place["codex"].target = "post" THEN {TRUE} ELSE BOOLEAN
    ELSE {FALSE}

AfterRecovery ==
    /\ Running("recovered") \/ Running("unchanged")
    /\ CASE proc.cmd = "failing" -> End("failed")
         [] proc.cmd = "refusing" -> End("refused")
         [] proc.cmd = "rollback" ->
              IF Doc.status = "ROLLED_BACK" THEN End("rolled_back")
              ELSE Mine /\ Preflight(Doc) /\ Go("rolling") /\ UNCHANGED outcome
         [] OTHER ->
              \E exact \in Exactness :
                 \/ exact /\ End("installed")
                 \/ ~exact /\ proc.pc = "recovered" /\ Go("reconcile") /\ UNCHANGED outcome
    /\ UNCHANGED <<machine, json, spent>>

(* A new installation id: what is at the targets becomes the preimage.     *)
Begin ==
    /\ Running("unchanged") /\ proc.cmd = "install" /\ FALSE \in Exactness
    /\ had' = {k \in Kinds : place[k].target # "none"}
                \cup (IF json["active"].live = "none" THEN {} ELSE {"active"})
    /\ place' = [k \in Kinds |->
                   [target |-> IF place[k].target = "none" THEN "none" ELSE "pre",
                    stage |-> "none", recovery |-> "none"]]
    /\ rstage' = "none" /\ bundle' = "none" /\ backup' = "none"
    /\ json' = [f \in Files |->
                  [live |-> IF f = "active" /\ json[f].live # "none" THEN "old" ELSE Absent[f],
                   temp |-> Absent[f]]]
    /\ proc' = [proc EXCEPT !.pc = "install", !.at = 1]
    /\ UNCHANGED <<outcome, spent>>

Refusal ==
    /\ \/ Running("reconcile") /\ ReconcileConflict
       \/ Running("recover") /\ RecoverConflict
       \/ /\ proc.cmd = "rollback" /\ (Running("recovered") \/ Running("unchanged"))
          /\ Doc.status # "ROLLED_BACK" /\ ~(Mine /\ Preflight(Doc))
    /\ Refuse
    /\ UNCHANGED <<machine, json, spent>>

-----------------------------------------------------------------------------
(* _changed_install_locked, from the pending selector on.                  *)

Write(file, value) == Publish(file, value, "create", "install", proc.at + 1)

WriteSelectors ==
    /\ \/ Doing("pending") /\ Write("pending", "this")
       \/ Doing("receipt") /\ Write("receipt", FreshReceipt)
       \/ Doing("active") /\ Write("active", "new")
    /\ UNCHANGED <<machine, json, outcome, spent>>

(* Receipt writes of the install that no rename goes with.                 *)
Record ==
    /\ \/ Doing("plan") /\ Write("receipt", WithAct(Subject, [Unplanned EXCEPT !.state = "PLANNED"]))
       \/ Doing("record") /\
            Write("receipt", WithAct(Subject, [Unplanned EXCEPT !.state = "STAGED", !.post = "post"]))
       \/ Doing("post") /\ Write("receipt", [Doc EXCEPT !.posts = @ \cup {Subject}])
       \/ Doing("verified") /\ Write("receipt", [Doc EXCEPT !.status = "INSTALLED"])
    /\ UNCHANGED <<machine, json, outcome, spent>>

(* The bundle is copied into a directory made for it, which goes again     *)
(* when a copy fails.                                                      *)
Materialize ==
    /\ \/ DoingOn("open", "bundle") /\ bundle' = "part"
       \/ DoingOn("fill", "bundle") /\ bundle' = "whole"
    /\ Next1
    /\ UNCHANGED <<had, place, rstage, json, backup, outcome, spent>>

MaterializeFails ==
    /\ DoingOn("fill", "bundle") /\ Raises(Quiet)
    /\ bundle' = "none"
    /\ UNCHANGED <<had, place, rstage, json, backup, outcome>>

Staged(image) ==
    /\ place' = [place EXCEPT ![Subject].stage = image]
    /\ Next1
    /\ UNCHANGED <<had, rstage, bundle, json, backup, outcome, spent>>

(* create_deterministic_stage: an empty tree or file at the stage path.    *)
OpenStage == Doing("open") /\ Subject # "bundle" /\ Staged("part")

(* The environment, its packages, the launcher and, last, the marker.      *)
StageRuntime == DoingOn("fill", "runtime") /\ Staged("post")

(* stage_runtime raises: what is there is recorded as the staged runtime.  *)
StagingFails ==
    /\ DoingOn("fill", "runtime")
    /\ Raises([step |-> "create", file |-> "receipt",
               value |-> WithAct("runtime", [Unplanned EXCEPT !.state = "STAGED",
                                                              !.post = "part"])])
    /\ UNCHANGED <<machine, json, outcome>>

(* The merge of the managed values into what config.toml holds; a file     *)
(* that it cannot read makes it raise (Fail).                              *)
StageCodex == DoingOn("fill", "codex") /\ Staged("post")

(* Blender fills a work tree of the install's own.  Only when that has     *)
(* been verified are its two objects renamed to their stage paths.         *)
StageBlender == Doing("move") /\ Staged("post")

(* Mutant: the displaced original is removed instead of parked.            *)
ForwardRowsLossy(k) ==
    IF k \in had
    THEN {<<"pre", "post", "none", "post", "pre", "none", "SWAPPED">>,
          <<"post", "pre", "none", "post", "none", "none", "PARKED">>,
          <<"post", "none", "none", "post", "none", "none", "COMPLETED">>}
    ELSE {<<"none", "post", "none", "post", "none", "none", "PUBLISHED">>,
          <<"post", "none", "none", "post", "none", "none", "COMPLETED">>}

(* _forward: the row found, the row renamed to and the state to journal.   *)
ForwardRows(k) ==
    IF k \in had
    THEN {<<"pre", "post", "none", "post", "pre", "none", "SWAPPED">>,
          <<"post", "pre", "none", "post", "none", "pre", "PARKED">>,
          <<"post", "none", "pre", "post", "none", "pre", "COMPLETED">>}
    ELSE {<<"none", "post", "none", "post", "none", "none", "PUBLISHED">>,
          <<"post", "none", "none", "post", "none", "none", "COMPLETED">>}

ForwardObject ==
    /\ Doing("forward")
    /\ LET k == Subject IN
       \E row \in ForwardRows(k) :
          /\ At(k, row[1], row[2], row[3])
          /\ place' = [place EXCEPT ![k] = [target |-> row[4], stage |-> row[5],
                                            recovery |-> row[6]]]
          /\ Journal(WithAct(k, [Doc.acts[k] EXCEPT
                         !.state = row[7],
                         !.recovery = IF k \in had /\ row[7] \in {"PARKED", "COMPLETED"}
                                      THEN "pre" ELSE "null"]),
                     "install", IF row[7] = "COMPLETED" THEN proc.at + 1 ELSE proc.at)
    /\ UNCHANGED <<had, rstage, bundle, json, backup, outcome, spent>>

InstallDone ==
    /\ Doing("done")
    /\ End("installed")
    /\ UNCHANGED <<machine, json, spent>>

-----------------------------------------------------------------------------
(* _rollback_receipt: every step is found again from the receipt and the   *)
(* objects, so that a rerun takes it up where the last run stopped.        *)

Rolling == Running("rolling") /\ Doc.status = "ROLLBACK_PENDING"

RollbackIntent ==
    /\ Running("rolling") /\ Doc.status \in {"PREPARED", "INSTALLED"}
    /\ Journal([Doc EXCEPT !.status = "ROLLBACK_PENDING"], "rolling", 0)
    /\ UNCHANGED <<machine, json, outcome, spent>>

(* _cleanup_bundle: after an install, in its rerun, or in a rollback.      *)
CleanBundle ==
    /\ \/ Doing("clean") \/ Rolling
       \/ Running("recover") /\ Mine /\ Bare("receipt") /\ Uncleaned
    /\ Doc.acts["bundle"].state = "STAGED"
    /\ IF bundle = "whole" THEN bundle' = "part" /\ UNCHANGED proc
       ELSE /\ bundle' = "none"
            /\ Journal(WithAct("bundle", [Doc.acts["bundle"] EXCEPT !.state = "CLEANED"]),
                       IF proc.pc = "recover" THEN "recovered" ELSE proc.pc, proc.at + 1)
    /\ UNCHANGED <<had, place, rstage, json, backup, outcome, spent>>

Cleaned == Doc.acts["bundle"].state # "STAGED"

(* Mutant: an action that was only staged is taken to need no undoing.     *)
LiveOnceShown(k) == Doc.acts[k].state \notin {"unplanned", "PLANNED", "STAGED", "RESTORED"}

Live(k) == Doc.acts[k].state \notin {"unplanned", "PLANNED", "RESTORED"}
(* Actions are undone in reverse order: k is the last one still in effect. *)
Restoring(k) ==
    /\ Rolling /\ Cleaned /\ Live(k)
    /\ \A i, j \in DOMAIN Objects : Objects[i] = k /\ j > i => ~Live(Objects[j])

Semantic ==
    \/ Doc.acts["codex"].semantic
    \/ Doc.acts["codex"].state = "COMPLETED" /\ place["codex"].target \notin {"post", "none"}

(* _restore: one row of the (target, stage, recovery) table, journalled.   *)
RestoreTo(k, row, state) ==
    /\ place' = [place EXCEPT ![k] = row]
    /\ Journal(WithAct(k, [Doc.acts[k] EXCEPT
                   !.state = state,
                   !.recovery = IF state = "RESTORING" /\ k \in had /\ row.recovery = "none"
                                THEN "null" ELSE row.recovery]),
               "rolling", 0)

Row(target, stage, recovery) == [target |-> target, stage |-> stage, recovery |-> recovery]

(* Mutant: the swap is chosen by the stage being occupied, not by which of *)
(* the two images is at the target.                                        *)
RestoreObjectBlind(k) ==
    LET pre == Pre(k)
        post == Doc.acts[k].post
    IN
    /\ Restoring(k) /\ (k = "codex" => ~Semantic)
    /\ \/ At(k, pre, "none", "none") /\ RestoreTo(k, place[k], "RESTORED")
       \/ /\ place[k].stage # "none"
          /\ RestoreTo(k, Row(place[k].stage, place[k].target, "none"), "RESTORING")
       \/ At(k, post, "none", pre) /\ RestoreTo(k, Row(pre, "none", post), "RESTORING")
       \/ /\ At(k, pre, "none", post)
          /\ RestoreTo(k, Row(pre, "none", "none"), "RESTORED")
    /\ UNCHANGED <<had, rstage, bundle, json, backup, outcome, spent>>

RestoreObject(k) ==
    LET pre == Pre(k)
        post == Doc.acts[k].post
    IN
    /\ Restoring(k) /\ (k = "codex" => ~Semantic)
    /\ \/ At(k, pre, "none", "none") /\ RestoreTo(k, place[k], "RESTORED")
       \/ At(k, pre, post, "none") /\ RestoreTo(k, Row(pre, "none", post), "RESTORING")
       \/ /\ k \in had /\ At(k, post, pre, "none")
          /\ RestoreTo(k, Row(pre, post, "none"), "RESTORING")
       \/ At(k, post, "none", pre) /\ RestoreTo(k, Row(pre, "none", post), "RESTORING")
       \/ /\ k \in Trees /\ At(k, pre, "none", post)
          /\ place' = [place EXCEPT ![k].recovery = "rest"] /\ UNCHANGED proc
       \/ /\ \/ k \in Trees /\ At(k, pre, "none", "rest")
             \/ k \notin Trees /\ At(k, pre, "none", post)
          /\ RestoreTo(k, Row(pre, "none", "none"), "RESTORED")
    /\ UNCHANGED <<had, rstage, bundle, json, backup, outcome, spent>>

(* rollback_codex for a configuration edited since: C0 to C4.              *)
RestoreSemantic ==
    LET c == place["codex"]
        act == Doc.acts["codex"]
        As(state) == Journal(WithAct("codex", [act EXCEPT
                                 !.state = state, !.semantic = TRUE,
                                 !.recovery = place'["codex"].recovery]), "rolling", 0)
    IN
    /\ Restoring("codex") /\ Semantic
    /\ \/ /\ act.state = "COMPLETED" /\ rstage = "none"
          /\ rstage' = "part" /\ UNCHANGED <<place, proc>>
       \/ /\ act.state = "COMPLETED" /\ rstage = "part"
          /\ rstage' = "merged" /\ UNCHANGED place /\ As("SEMANTIC_STAGED")
       \/ /\ act.state = "SEMANTIC_STAGED" /\ rstage = "merged"
          /\ rstage' = c.target /\ place' = [place EXCEPT !["codex"].target = "merged"]
          /\ As("SEMANTIC_SWAPPED")
       \/ /\ act.state = "SEMANTIC_STAGED" /\ c.target = "merged"
          /\ UNCHANGED <<place, rstage>> /\ As("SEMANTIC_SWAPPED")
       \/ /\ act.state = "SEMANTIC_SWAPPED"
          /\ rstage' = "none" /\ UNCHANGED place /\ As("RESTORING")
       \/ /\ act.state = "RESTORING"
          /\ place' = [place EXCEPT !["codex"].recovery = "none"]
          /\ UNCHANGED rstage /\ As("RESTORED")
    /\ UNCHANGED <<had, bundle, json, backup, outcome, spent>>

Undone == Rolling /\ Cleaned /\ \A k \in Kinds : ~Live(k)

RestoreSelector ==
    /\ Undone
    /\ IF backup = "new"
       THEN /\ Journal([Doc EXCEPT !.status = "ROLLED_BACK"], "rolling", 0)
            /\ UNCHANGED <<json, backup>>
       ELSE /\ json' = [json EXCEPT !["active"].live = PrevActive]
            /\ backup' = "new" /\ UNCHANGED proc
    /\ UNCHANGED <<had, place, rstage, bundle, outcome, spent>>

(* Mutant: the selector that the rollback parked is left in the backups.   *)
CleanSelectorForgotten ==
    /\ Running("rolling") /\ Doc.status = "ROLLED_BACK"
    /\ Go("recovered")
    /\ UNCHANGED <<machine, json, outcome, spent>>

CleanSelector ==
    /\ Running("rolling") /\ Doc.status = "ROLLED_BACK"
    /\ backup' = "none"
    /\ Go("recovered")
    /\ UNCHANGED <<had, place, rstage, bundle, json, outcome, spent>>

-----------------------------------------------------------------------------
Init ==
    /\ had \in Originals
    /\ place = [k \in Kinds |-> Row(Pre(k), "none", "none")]
    /\ rstage = "none" /\ bundle = "none" /\ backup = "none"
    /\ json = [f \in Files |->
                 [live |-> IF f = "active" THEN PrevActive ELSE Absent[f], temp |-> Absent[f]]]
    /\ proc = Idle /\ outcome = ""
    /\ spent = [crashes |-> 0, faults |-> 0, edits |-> 0]

Step ==
    \/ Create \/ Fill \/ Swap \/ Finish
    \/ SettlePending \/ SettleReceipt \/ Reconcile \/ RemovePending
    \/ Recover \/ AfterRecovery \/ Begin \/ Refusal
    \/ WriteSelectors \/ Record \/ Materialize \/ OpenStage \/ StageRuntime \/ StageCodex
    \/ StageBlender \/ ForwardObject \/ InstallDone
    \/ RollbackIntent \/ CleanBundle \/ RestoreSemantic
    \/ \E k \in Kinds : RestoreObject(k)
    \/ RestoreSelector \/ CleanSelector

Next == Step \/ Start \/ StartRollback \/ Edit \/ Crash \/ Fail \/ MaterializeFails \/ StagingFails

(* A command runs on until it ends, and somebody tries again in the end.   *)
Spec == Init /\ [][Next]_vars /\ WF_vars(Step) /\ WF_vars(Start)

-----------------------------------------------------------------------------
(* Properties.                                                             *)

Images == {"none", "pre", "post", "part", "rest", "merged"} \cup UserEdits
Receipts ==
    [status : {"PREPARED", "INSTALLED", "ROLLBACK_PENDING", "ROLLED_BACK"},
     posts : SUBSET Roles,
     acts : [Kinds \cup {"bundle"} ->
               [state : {"unplanned", "PLANNED", "STAGED", "SWAPPED", "PARKED", "PUBLISHED",
                         "COMPLETED", "SEMANTIC_STAGED", "SEMANTIC_SWAPPED", "RESTORING",
                         "RESTORED", "CLEANED"},
                post : {"null", "post", "part"},
                recovery : {"null", "none", "pre", "post", "part"},
                semantic : BOOLEAN]]]

(* Every variable, and every document a write may leave, has its type.     *)
TypeOK ==
    /\ had \subseteq Roles
    /\ place \in [Kinds -> [target : Images, stage : Images, recovery : Images]]
    /\ rstage \in {"none", "part", "merged", "edit"}
    /\ bundle \in {"none", "part", "whole"} /\ backup \in {"none", "old", "new"}
    /\ DOMAIN json = Files
    /\ {json["pending"].live, json["pending"].temp} \subseteq {"none", "torn", "this"}
    /\ {json["active"].live, json["active"].temp} \subseteq {"none", "torn", "old", "new"}
    /\ \A doc \in {Pair.live, Pair.temp} : Parsed(doc) => doc \in Receipts
    /\ proc.cmd \in {"none", "install", "rollback", "failing", "refusing"}
    /\ proc.pc \in {"idle", "reconcile", "unpend", "recover", "recovered", "unchanged",
                    "install", "rolling"}
    /\ proc.at \in 0..Len(Program)
    /\ proc.write.step \in {"none", "create", "fill", "swap", "finish"}
    /\ outcome \in {"", "installed", "rolled_back", "failed", "refused", "killed"}
    /\ spent.crashes \in 0..MaxCrashes /\ spent.faults \in 0..MaxFaults
    /\ spent.edits \in 0..MaxEdits

(* The original of every managed object is on disk exactly once, under one *)
(* of its three names, until a rollback put it back: no interruption of    *)
(* the renames loses or doubles it.  A Codex file the user edited or the   *)
(* rollback merged stands for its own original.                            *)
OriginalKept ==
    /\ TypeOK
    /\ \A k \in had \cap Kinds :
        \/ k = "codex" /\ place[k].target \in UserEdits \cup {"merged"}
        \/ Cardinality({n \in DOMAIN place[k] : place[k][n] = "pre"}) = 1

(* What the receipt's status says is so on disk, whatever interrupted the  *)
(* command that wrote it: an installed receipt has all four objects in     *)
(* place and their originals kept aside, a rolled-back one has restored    *)
(* every original and left nothing of its own but the parked selector.     *)
Customised(k) == k = "codex" /\ place[k].target \in UserEdits \cup {"merged"}
StatusTruthful ==
    /\ Doc.status = "INSTALLED" =>
          /\ Mine /\ ~Waiting /\ Doc.posts = Roles
          /\ \A k \in Kinds : /\ place[k].target = "post" \/ Customised(k)
                              /\ place[k].stage = "none" /\ place[k].recovery = Pre(k)
    /\ Doc.status = "ROLLED_BACK" =>
          /\ json["active"].live = PrevActive /\ StagesAbsent
          /\ \A k \in Kinds : place[k].target = Pre(k) \/ Customised(k)

(* A command that reports installed, rolled back or a failure it recovered *)
(* from leaves one whole version of the four objects, never a mixture; a   *)
(* reported install or rollback leaves no unfinished JSON write and no     *)
(* staged bundle behind.                                                   *)
OutcomeWhole ==
    /\ outcome \in {"installed", "rolled_back", "failed"} =>
          \/ \A k \in Kinds : place[k].target = "post" \/ Customised(k)
          \/ \A k \in Kinds : place[k].target = Pre(k) \/ Customised(k)
    /\ outcome \in {"installed", "rolled_back"} =>
          /\ \A f \in Files : Bare(f)
          /\ bundle = "none" /\ (Waiting => outcome = "rolled_back")

(* Once a rollback is journalled no object that is back to its original    *)
(* leaves it again, and the old selector, once shown, stays shown.         *)
RollbackOnlyRestores ==
    [][Doc.status = "ROLLBACK_PENDING" /\ had' = had /\ spent'.edits = spent.edits =>
         /\ \A k \in Kinds :
               place[k].target \in {Pre(k), "merged"} => place'[k].target = place[k].target
         /\ ~Mine => json'["active"].live = json["active"].live]_vars

(* The states an interruption may leave that a rerun refuses.              *)
Stuck(doc) ==
    /\ Parsed(doc)
    /\ \/ \* an object staged under an action still PLANNED
          \E k \in Planned(doc) :
             /\ doc.acts[k].state = "PLANNED"
             /\ IF k = "bundle" THEN bundle # "none" ELSE place[k].stage # "none"
       \/ \* a bundle half removed
          doc.acts["bundle"].state = "STAGED" /\ bundle = "part"
       \/ \* a Codex restore that ran ahead of its journal
          LET act == doc.acts["codex"] IN
          \/ act.state = "COMPLETED" /\ (rstage # "none" \/ place["codex"].recovery # Pre("codex"))
          \/ act.state = "SEMANTIC_SWAPPED" /\ rstage = "none"
       \/ \* a published selector the receipt does not record yet
          Mine /\ "active" \notin doc.posts
       \/ \* a pending selector that outlived the install it announced
          Waiting /\ doc.status \in {"ROLLBACK_PENDING", "ROLLED_BACK"}
       \/ \* a user's edit that no merge is made for, or that refuses the merge
          /\ place["codex"].target \in UserEdits
          /\ CASE doc.acts["codex"].state = "unplanned" -> Waiting
               [] doc.acts["codex"].state \in {"COMPLETED", "SEMANTIC_STAGED"} ->
                    place["codex"].target = "clash"
               [] OTHER -> TRUE

TornTemp == \E f \in Files : json[f].temp = Torn[f]
UnlistedPair == ~Bare("receipt") /\ Parsed(Pair.temp) /\ Parsed(Pair.live)
                /\ ~Transition(Pair.live, Pair.temp) /\ ~Transition(Pair.temp, Pair.live)

(* A command refuses only for a reason it must: a JSON file cut off while  *)
(* it was written, a receipt and copy that no single rewrite explains, one *)
(* of the gaps between a rename and its journal, or an edit of the user.   *)
RefusalsExplained ==
    outcome = "refused" =>
        TornTemp \/ UnlistedPair \/ Stuck(Pair.live) \/ Stuck(Pair.temp)

(* Statuses, reports and refusals tell the truth: see the three parts.     *)
ReportsTrue == StatusTruthful /\ OutcomeWhole /\ RefusalsExplained

(* Every command ends, and reruns settle what crashes left: again and      *)
(* again a command reports installed, rolled back or refused.              *)
RerunSettles == []<>(outcome \in {"installed", "rolled_back", "refused"})

(* The installer resumes its own recorded intent: a journalled rollback is *)
(* never refused by the command that comes to finish it.                   *)
RollbackResumes == ~(outcome = "refused" /\ Doc.status = "ROLLBACK_PENDING")
=============================================================================
