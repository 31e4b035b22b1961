------------------------- MODULE RegistrationPublish -------------------------
(***************************************************************************)
(* One registration of a plugin release (project_marketplace._register and *)
(* _isolated_registration): the Codex program registers the release in a   *)
(* private copy of its home, and what it made there is published, first    *)
(* the plugin cache, then config.toml, by exchanges that a rerun finds     *)
(* again after a crash.  The user may edit config.toml at any time.        *)
(*                                                                         *)
(* A file is [base, others, by, reg]: the edit of the user it goes back to, *)
(* the last edit that changed the tables of the other marketplaces, who    *)
(* made it (the user, the Codex program in attempt n, or the copy that is  *)
(* needed when the two directories are on different volumes), and whether  *)
(* it registers the release.                                               *)
(***************************************************************************)
EXTENDS Naturals

CONSTANTS
    MaxEdits,     \* bound: edits of config.toml by the user
    MaxCrashes    \* bound: deaths of the command

ASSUME PublishAssumption == {MaxEdits, MaxCrashes} \subseteq Nat

VARIABLES
    cross,       \* CODEX_HOME and the state are on different volumes
    config,      \* config.toml of the user
    stage, backup, transfer,  \* its private neighbours
    cache,       \* the plugin cache: "absent" or "whole"
    cachestage,  \* its private neighbour: "absent", "part" or "whole"
    native,      \* the private copy of the home, or Absent
    record,      \* native-stage.json: the attempt it names, or 0
    before,      \* what the evidence directory remembers, Part without its files
    intent,      \* config-stage.json, or NoDoc
    publication, \* publication.json, or NoDoc
    pc,          \* the next step of the command, or how the last one ended
    mem,         \* what the running command holds in memory
    edits, crashes, tries

vars == <<cross, config, stage, backup, transfer, cache, cachestage, native, record,
          before, intent, publication, pc, mem, edits, crashes, tries>>
neighbours == <<stage, backup, transfer>>
caches == <<cache, cachestage>>
counts == <<cross, edits, crashes, tries>>

File(base, others, by, reg) == [base |-> base, others |-> others, by |-> by, reg |-> reg]
User == <<"user", 0>>
Absent == File(0, 0, <<"absent", 0>>, FALSE)
Part == File(0, 0, <<"part", 0>>, FALSE)
None == File(0, 0, <<"none", 0>>, FALSE)      \* no evidence directory yet
NoDoc == [some |-> FALSE, pre |-> Absent, post |-> Absent, native |-> 0,
          transfer |-> Absent, complete |-> FALSE]
Ended == {"idle", "registered", "refused"}

Goto(l) == pc' = l
Refuse == pc' = "refused"

-----------------------------------------------------------------------------
(* _register: evidence of what was there before                            *)

\* A rerun looks at the tables of the other marketplaces only.
Start ==
    /\ pc \in {"idle", "refused"}
    /\ tries <= MaxCrashes \/ intent.some \/ publication.some
    /\ IF before = None
       THEN before' = Part /\ Goto("evidence") /\ mem' = [NoDoc EXCEPT !.pre = config]
       ELSE /\ UNCHANGED before
            /\ mem' = NoDoc
            /\ IF before = Part \/ config.others # before.others
               THEN Refuse ELSE Goto("enter")
    /\ UNCHANGED <<config, neighbours, caches, native, record, intent,
                   publication, counts>>

Evidence ==
    /\ pc = "evidence"
    /\ before' = mem.pre
    /\ mem' = NoDoc
    /\ Goto("enter")
    /\ UNCHANGED <<config, neighbours, caches, native, record, intent,
                   publication, counts>>

\* A rerun goes on from the published or the intended exchange.
Enter ==
    /\ pc = "enter"
    /\ CASE publication.some -> mem' = publication /\ Goto("sweep")
         [] ~publication.some /\ intent.some -> mem' = intent /\ Goto("check")
         [] OTHER -> UNCHANGED mem /\ Goto("clean")
    /\ UNCHANGED <<config, neighbours, caches, native, record, before, intent,
                   publication, counts>>

\* _cleanup_native_stage, after a crash that left no intent.
CleanNative ==
    /\ pc = "clean"
    /\ native' = IF record = 0 THEN native ELSE Absent
    /\ IF stage # Absent \/ transfer # Absent THEN Refuse ELSE Goto("native")
    /\ UNCHANGED <<config, neighbours, caches, record, before, intent,
                   publication, mem, counts>>

\* mkdtemp, native-stage.json, the copy of config.toml, plugin add.
Stage ==
    /\ pc = "native"
    /\ tries' = tries + 1
    /\ record' = tries'
    /\ native' = config
    /\ mem' = [NoDoc EXCEPT !.some = TRUE, !.pre = config, !.native = tries']
    /\ Goto("add")
    /\ UNCHANGED <<config, neighbours, caches, before, intent, publication,
                   cross, edits, crashes>>

PluginAdd ==
    /\ pc = "add"
    /\ native' = File(native.base, native.others, <<"native", record>>, TRUE)
    /\ mem' = [mem EXCEPT !.post = native']
    /\ IF config # mem.pre THEN Refuse
       ELSE IF cache = "whole" THEN Goto("intent") ELSE Goto("copy")
    /\ UNCHANGED <<config, neighbours, caches, record, before, intent,
                   publication, counts>>

\* copytree to a private sibling of the cache, or what is left of an earlier one
CopyCache ==
    /\ pc = "copy"
    /\ cachestage' = IF cachestage = "absent" THEN "part" ELSE cachestage
    /\ CASE cachestage = "absent" -> Goto("copying")
         [] cachestage = "part" -> Refuse
         [] OTHER -> Goto("cache")
    /\ UNCHANGED <<config, neighbours, cache, native, record, before, intent,
                   publication, mem, counts>>

CopyRest ==
    /\ pc = "copying"
    /\ cachestage' = "whole"
    /\ Goto("cache")
    /\ UNCHANGED <<config, neighbours, cache, native, record, before, intent,
                   publication, mem, counts>>

\* forward_tree: one rename, there was no cache.
PublishCache ==
    /\ pc = "cache"
    /\ cache' = "whole"
    /\ cachestage' = "absent"
    /\ Goto("intent")
    /\ UNCHANGED <<config, neighbours, native, record, before, intent,
                   publication, mem, counts>>

\* config-stage.json, before the native file is moved to its public name
WriteIntent ==
    /\ pc = "intent"
    /\ intent' = mem
    /\ Goto("check")
    /\ UNCHANGED <<config, neighbours, caches, native, record, before,
                   publication, mem, counts>>

\* What must still be true before the file that will be published is moved.
CheckIntent ==
    /\ pc = "check"
    /\ IF record # mem.native \/ config # mem.pre \/ cache # "whole"
       THEN Refuse
       ELSE IF mem.transfer # Absent THEN Goto("move")
       ELSE IF cross THEN Goto("transfer") ELSE Goto("move")
    /\ UNCHANGED <<config, neighbours, caches, native, record, before, intent,
                   publication, mem, counts>>

\* _transfer_config_stage: an exclusive copy on the other volume.
Transfer ==
    /\ pc = "transfer"
    /\ CASE transfer = Absent -> transfer' = Part /\ Goto("fill")
         [] transfer = Part -> UNCHANGED transfer /\ Refuse
         [] OTHER -> UNCHANGED transfer /\ Goto("bind")
    /\ UNCHANGED <<config, stage, backup, caches, native, record, before,
                   intent, publication, mem, counts>>

FillTransfer ==
    /\ pc = "fill"
    /\ transfer' = File(native.base, native.others, <<"copy", record>>, TRUE)
    /\ Goto("bind")
    /\ UNCHANGED <<config, stage, backup, caches, native, record, before,
                   intent, publication, mem, counts>>

BindTransfer ==
    /\ pc = "bind"
    /\ mem' = [mem EXCEPT !.transfer = transfer]
    /\ intent' = mem'
    /\ Goto("move")
    /\ UNCHANGED <<config, neighbours, caches, native, record, before,
                   publication, counts>>

Source == IF mem.transfer = Absent THEN native ELSE transfer
Wanted == IF mem.transfer = Absent THEN mem.post ELSE mem.transfer

ForgetfulMoveStage ==
    /\ pc = "move"
    /\ IF stage = Absent /\ Source = Wanted
       THEN /\ stage' = Wanted
            /\ IF mem.transfer = Absent
               THEN native' = Absent /\ UNCHANGED transfer
               ELSE transfer' = Absent /\ UNCHANGED native
            /\ Goto("publish")
       ELSE Refuse /\ UNCHANGED <<stage, transfer, native>>
    /\ UNCHANGED <<config, backup, caches, record, before, intent, publication,
                   mem, counts>>

\* forward_file to the stage name: the rename, or what it left behind.
MoveStage ==
    /\ pc = "move"
    /\ \/ /\ stage = Absent /\ Source = Wanted
          /\ stage' = Wanted
          /\ IF mem.transfer = Absent
             THEN native' = Absent /\ UNCHANGED transfer
             ELSE transfer' = Absent /\ UNCHANGED native
          /\ UNCHANGED pc
       \/ /\ stage = Wanted /\ Source # Wanted
          /\ Goto("publish")
          /\ UNCHANGED <<stage, transfer, native>>
       \/ /\ ~(stage = Absent /\ Source = Wanted)
          /\ ~(stage = Wanted /\ Source # Wanted)
          /\ Refuse
          /\ UNCHANGED <<stage, transfer, native>>
    /\ UNCHANGED <<config, backup, caches, record, before, intent, publication,
                   mem, counts>>

WritePublication ==
    /\ pc = "publish"
    /\ mem' = [mem EXCEPT !.post = Wanted]
    /\ publication' = mem'
    /\ Goto("sweep")
    /\ UNCHANGED <<config, neighbours, caches, native, record, before, intent,
                   counts>>

\* The private home goes before the configuration is exchanged.
SweepNative ==
    /\ pc = "sweep"
    /\ native' = Absent
    /\ IF record # mem.native THEN Refuse
       ELSE IF mem.complete
       THEN IF config = mem.post THEN Goto("backup") ELSE Refuse
       ELSE Goto("forward")
    /\ UNCHANGED <<config, neighbours, caches, record, before, intent,
                   publication, mem, counts>>

BlindRows == [swap |-> <<mem.pre, mem.post, Absent>>,
              park |-> <<mem.post, stage, Absent>>,
              done |-> <<mem.post, Absent, mem.pre>>]

\* forward_file of config.toml: exchange, park the old one, done.
Rows == [swap |-> <<mem.pre, mem.post, Absent>>,
         park |-> <<mem.post, mem.pre, Absent>>,
         done |-> <<mem.post, Absent, mem.pre>>]
Now == <<config, stage, backup>>

\* It looks at the three names, then renames, then looks again.
Forward ==
    /\ pc = "forward"
    /\ \/ Now = Rows.swap /\ Goto("swap")
       \/ Now = Rows.park /\ mem.pre # Absent /\ Goto("park")
       \/ Now = Rows.done /\ Goto("complete")
       \/ Now \notin {Rows.swap, Rows.park, Rows.done} /\ Refuse
    /\ UNCHANGED <<config, neighbours, caches, native, record, before, intent,
                   publication, mem, counts>>

\* _conditional_swap takes whatever is there by now; where there was no
\* config.toml, _conditional_excl replaces none.
Swap ==
    /\ pc = "swap"
    /\ IF mem.pre = Absent /\ config # Absent
       THEN Refuse /\ UNCHANGED <<config, stage>>
       ELSE Goto("look") /\ config' = stage /\ stage' = config
    /\ UNCHANGED <<backup, transfer, caches, native, record, before, intent,
                   publication, mem, counts>>

\* Only what is half as expected is put back.
LookAgain ==
    /\ pc = "look"
    /\ CASE Now = Rows.park -> Goto("forward")
         [] Now # Rows.park /\ (stage = mem.pre \/ config = mem.post) -> Goto("undo")
         [] OTHER -> Refuse
    /\ UNCHANGED <<config, neighbours, caches, native, record, before, intent,
                   publication, mem, counts>>

Undo ==
    /\ pc = "undo"
    /\ config' = stage /\ stage' = config
    /\ Refuse
    /\ UNCHANGED <<backup, transfer, caches, native, record, before, intent,
                   publication, mem, counts>>

\* _conditional_excl between the two private names, and back if config.toml
\* is another one by then.
Park ==
    /\ pc = "park"
    /\ backup' = stage /\ stage' = Absent
    /\ Goto("parked")
    /\ UNCHANGED <<config, transfer, caches, native, record, before, intent,
                   publication, mem, counts>>

Parked ==
    /\ pc = "parked"
    /\ IF Now = Rows.done
       THEN Goto("forward") /\ UNCHANGED <<stage, backup>>
       ELSE Refuse /\ stage' = backup /\ backup' = Absent
    /\ UNCHANGED <<config, transfer, caches, native, record, before, intent,
                   publication, mem, counts>>

Complete ==
    /\ pc = "complete"
    /\ mem' = [mem EXCEPT !.complete = TRUE]
    /\ publication' = mem'
    /\ Goto("backup")
    /\ UNCHANGED <<config, neighbours, caches, native, record, before, intent,
                   counts>>

\* The old file is removed, and the tables of the other marketplaces are
\* compared with the evidence.
DropBackup ==
    /\ pc = "backup"
    /\ backup' = IF backup = mem.pre THEN Absent ELSE backup
    /\ IF config.others = before.others /\ config.reg
          /\ backup \in {Absent, mem.pre}
       THEN Goto("registered") ELSE Refuse
    /\ UNCHANGED <<config, stage, transfer, caches, native, record, before,
                   intent, publication, mem, counts>>

-----------------------------------------------------------------------------
Crash ==
    /\ pc \notin Ended
    /\ crashes < MaxCrashes
    /\ crashes' = crashes + 1
    /\ pc' = "idle"
    /\ mem' = NoDoc
    /\ UNCHANGED <<config, neighbours, caches, native, record, before, intent,
                   publication, cross, edits, tries>>

\* The user saves config.toml, with or without a change to the tables of other
\* marketplaces; what it registers stays as it is.
Edit ==
    /\ edits < MaxEdits
    /\ edits' = edits + 1
    /\ \E others \in {config.others, edits'} :
            config' = File(edits', others, User, config.reg)
    /\ UNCHANGED <<neighbours, caches, native, record, before, intent,
                   publication, pc, mem, cross, crashes, tries>>

Init ==
    /\ cross \in BOOLEAN
    /\ config \in {File(0, 0, User, FALSE), Absent}
    /\ stage = Absent /\ backup = Absent /\ transfer = Absent
    /\ cache \in {"absent", "whole"} /\ cachestage = "absent"
    /\ native = Absent /\ record = 0
    /\ before = None
    /\ intent = NoDoc /\ publication = NoDoc
    /\ pc = "idle" /\ mem = NoDoc
    /\ edits = 0 /\ crashes = 0 /\ tries = 0

Step ==
    \/ Start \/ Evidence \/ Enter \/ CleanNative \/ Stage \/ PluginAdd \/ CopyCache
    \/ CopyRest \/ PublishCache \/ WriteIntent \/ CheckIntent \/ Transfer
    \/ FillTransfer \/ BindTransfer \/ MoveStage \/ WritePublication
    \/ SweepNative \/ Forward \/ Swap \/ LookAgain \/ Undo \/ Park \/ Parked \/ Complete \/ DropBackup
Next == Step \/ Crash \/ Edit
Spec == Init /\ [][Next]_vars /\ WF_vars(Step)

-----------------------------------------------------------------------------
(* Properties                                                              *)

\* No edit of the user is ever replaced by a file made from an older one: the
\* newest is what config.toml goes back to, or lies unchanged at the stage name
\* because it was saved while the exchange was under way, and then the registration
\* is not complete.  config.toml registers the release only when its cache is there.
EditsKept ==
    /\ \/ config.base = edits
       \/ /\ stage.base = edits /\ stage.by = User
          /\ publication.some /\ ~publication.complete
    /\ config.reg => cache = "whole"

\* A registration that reports success leaves no other copy of config.toml,
\* which may hold secrets, and no half-made cache behind.
NothingLeft ==
    pc = "registered" =>
        /\ {native, stage, backup, transfer} = {Absent}
        /\ cachestage = "absent"

\* A registration keeps its hands off the user's file and cleans up: see the two parts.
RegistrationSafe == EditsKept /\ NothingLeft

\* What reruns come to: rerun often enough, the registration succeeds whatever crashes came before,
\* except where the user edited config.toml, a crash cut off a copy, or one
\* came between the making of the evidence directory and its files.
Registered ==
    \/ pc = "registered"
    \/ edits > 0
    \/ pc = "refused" /\ (cachestage = "part" \/ Part \in {transfer, before})
==============================================================================
