--------------------------- MODULE UpgradeCleanup ---------------------------
(***************************************************************************)
(* Upgrading the installer plugin itself: project_marketplace.py registers *)
(* a reviewed release with Codex, journals what it does under upgrades/,   *)
(* and deletes the plugin caches of older releases once nobody runs them.  *)
(*                                                                         *)
(* One command at a time holds the two mutation locks (cmd).  Beside it    *)
(* run the cached entry scripts, which only know the usage leases, and     *)
(* restores, which look at the journals once before they take the locks.   *)
(* A journal is written through a temporary copy; a command may die before *)
(* or after the exchange of the two, or in the middle of the copy.         *)
(*                                                                         *)
(* Releases stand for the commit, the projection and the plugin version;   *)
(* registration g is the directory marketplace-recovery/registration.g,    *)
(* and number 0 is one that is older than any journal.                     *)
(***************************************************************************)
EXTENDS Naturals, FiniteSets

CONSTANTS
    Releases,    \* reviewed releases of the plugin
    Legacy,      \* those whose tree has no lease marker
    Entries,     \* processes that start from a cached script
    None,        \* no release, no journal, no directory
    Missing,     \* an evidence file that a crash kept from being written
    Torn,        \* a temporary copy that a crash left half written
    MaxWork,     \* bound: upgrade workflows ever created
    MaxIno,      \* bound: directories ever created for one cache version
    MaxFaults    \* bound: commands that die and changes of config.toml by
                 \* others, together

ASSUME CleanupAssumption ==
    /\ IsFiniteSet(Releases) /\ Legacy \subseteq Releases
    /\ {None, Missing, Torn} \cap Releases = {} /\ None # Missing
    /\ {MaxWork, MaxIno, MaxFaults} \subseteq Nat /\ MaxIno # 0

Work == 1..MaxWork
Registrations == 0..MaxWork

VARIABLES
    config,     \* the release that config.toml registers, or None
    cache,      \* plugin cache of each release: "absent", "whole" or "part"
    ino,        \* the inode of that directory, as a count of its creations
    lease,      \* the lease files that exist, named by <<release, inode>>
    entry,      \* each entry script: its step and the directory it opened
    journal,    \* upgrades/<id>.json, or None
    temp,       \* its temporary copy: None, "torn", or a document
    evidence,   \* registration directories: before.json and after.json
    cmd,        \* the command holding the mutation locks
    restorer,   \* the registration whose restore passed the check without locks
    lost,       \* registrations whose earlier release cleanup deleted
    faults      \* commands that died and changes by others

vars == <<config, cache, ino, lease, entry, journal, temp, evidence, cmd,
          restorer, lost, faults>>
world == <<lease, entry, evidence, restorer>>
trees == <<cache, ino, lost>>

\* A cleanup candidate: its progress, the directory it recorded, the
\* registration that proves it, and whether the proof has been rewritten.
Row == [st : {"pending", "deferred", "conflict", "removed"},
        ino : 0..MaxIno, by : Registrations, stale : BOOLEAN]
Doc == [rel : Releases,
        status : {"awaiting", "cleanup", "complete"},
        reg : {"none", "prepared", "registered", "failed"},
        rows : [Releases -> Row \cup {None}],
        retired : SUBSET Registrations]

\* A temporary copy beside a journal, and what before.json and after.json name.
Copy == [newer : BOOLEAN, doc : Doc \cup {Torn}]
Evidenced == [before : Releases \cup {None, Missing}, after : Releases \cup {None, Missing}]

ASSUME DistinctAssumption ==
    None \notin Row \cup Doc \cup Copy \cup Evidenced /\ Torn \notin Doc

NoRows == [r \in Releases |-> None]
Idle == [pc |-> "idle", w |-> 0, rel |-> None, row |-> None,
         todo |-> {}, st |-> "pending"]

-----------------------------------------------------------------------------
(* Journals                                                                *)

\* A pair of copies names one transition; the newer copy is what a load with
\* recover=True publishes and returns.  A torn copy makes every load fail.
Unsettled(w) == temp[w] # None
Newer(w) == Unsettled(w) /\ temp[w].newer
Newest(w) == IF Newer(w) THEN temp[w].doc ELSE journal[w]
Unreadable(w) == Unsettled(w) /\ temp[w].doc = Torn

\* New journal files replace those of the workflows in W, and every proof
\* taken from the old files is stale.
Put(W, docs) ==
    [v \in Work |->
        LET doc == IF v \in W THEN docs[v] ELSE journal[v]
        IN IF doc = None THEN None
           ELSE [doc EXCEPT !.rows = [r \in Releases |->
                   IF @[r] # None /\ @[r].by \in W
                   THEN [@[r] EXCEPT !.stale = TRUE] ELSE @[r]]]]

\* update_record and save_record: the journal is replaced and the command
\* goes on at next, or it dies with the temporary copy torn, complete but
\* not yet exchanged, or exchanged and not yet removed.
Commit(w, doc, next) ==
    \/ /\ journal' = Put({w}, [v \in {w} |-> doc])
       /\ cmd' = next
       /\ UNCHANGED <<temp, faults>>
    \/ /\ faults < MaxFaults
       /\ faults' = faults + 1
       /\ cmd' = Idle
       /\ \/ /\ \E copy \in {doc, Torn} :
                  temp' = [temp EXCEPT ![w] = [newer |-> copy # Torn, doc |-> copy]]
             /\ UNCHANGED journal
          \/ /\ journal[w] # None
             /\ temp' = [temp EXCEPT ![w] = [newer |-> FALSE, doc |-> journal[w]]]
             /\ journal' = Put({w}, [v \in {w} |-> doc])

\* record_ids: journals that exist, if only as a temporary copy.
Known == {w \in Work : journal[w] # None \/ temp[w] # None}

-----------------------------------------------------------------------------
(* What the journals and the evidence say                                  *)

InCleanup(doc) == doc # None /\ doc.status \in {"cleanup", "complete"}
Awaiting(doc) == doc # None /\ doc.status = "awaiting"

\* assert_rollback_available: registrations some cleanup has retired.
Retired == UNION {journal[w].retired : w \in {v \in Work : InCleanup(journal[v])}}

\* inspect_registration: the release is registered and its cache is intact.
Registered(r) == config = r /\ cache[r] = "whole"

BadProtected(w) ==
    {journal[v].rel : v \in {u \in Work \ {w} :
        Awaiting(journal[u]) /\ u \notin Retired}}
\* other_references: caches that an unfinished workflow or a registration
\* nobody retired may still need.
Protected(w) ==
    {journal[v].rel : v \in {u \in Work \ {w} :
        Awaiting(journal[u]) /\ u \notin Retired}}
    \cup {evidence[g].before : g \in {h \in Registrations \ Retired :
        evidence[h] # None}}

\* discover_candidates: pending rows of other journals are carried with
\* their baselines; other caches need a finished registration that
\* published exactly this release.
Carried(w, r) ==
    {[journal[v].rows[r] EXCEPT !.st = "pending"] :
        v \in {u \in Work \ {w} :
            /\ journal[u] # None
            /\ journal[u].status = "cleanup"
            /\ journal[u].rows[r] # None
            /\ journal[u].rows[r].st # "removed"}}
Proved(w, r) ==
    IF cache[r] # "whole" THEN {}
    ELSE {[st |-> "pending", ino |-> ino[r], by |-> g, stale |-> FALSE] :
            g \in {h \in Registrations \ {w} :
                /\ evidence[h] # None
                /\ evidence[h].after = r
                /\ h \in Work =>
                     ~(Awaiting(journal[h]) /\ h \notin Retired)}}
Options(w, rel, r) ==
    IF r = rel THEN {None}
    ELSE IF Carried(w, r) # {} THEN Carried(w, r)
    ELSE IF Proved(w, r) # {} THEN Proved(w, r)
    ELSE {None}
Discovered(w, rel) ==
    {f \in [Releases -> UNION {Options(w, rel, r) : r \in Releases}] :
        \A r \in Releases : f[r] \in Options(w, rel, r)}

-----------------------------------------------------------------------------
(* Usage leases                                                            *)

\* exclusive_usage: the lease file exists and no entry holds it.
Holders(r, i) ==
    {e \in Entries : entry[e].pc \in {"locked", "running"}
                     /\ entry[e].rel = r /\ entry[e].ino = i}
Exclusive(r, i) ==
    cmd.pc \in {"remove", "rest"} /\ cmd.row = r /\ journal[cmd.w].rows[r].ino = i
BadLeaseFree(r, i) == <<r, i>> \in lease
LeaseFree(r, i) == <<r, i>> \in lease /\ Holders(r, i) = {}

\* _acquire_entry_lease: open the version directory and the lease its inode
\* names, lock it shared without waiting, and look at the directory again.
EntryOpen(e, r) ==
    /\ entry[e].pc = "idle"
    /\ cache[r] # "absent"
    /\ <<r, ino[r]>> \in lease
    /\ entry' = [entry EXCEPT ![e] = [pc |-> "opened", rel |-> r, ino |-> ino[r]]]
    /\ UNCHANGED <<config, trees, lease, journal, temp, evidence, cmd,
                   restorer, faults>>

EntryDone(e) == entry' = [entry EXCEPT ![e] = [pc |-> "idle", rel |-> None, ino |-> 0]]

EntryLock(e) ==
    /\ entry[e].pc = "opened"
    /\ IF Exclusive(entry[e].rel, entry[e].ino)
       THEN EntryDone(e)
       ELSE entry' = [entry EXCEPT ![e].pc = "locked"]
    /\ UNCHANGED <<config, trees, lease, journal, temp, evidence, cmd,
                   restorer, faults>>

SameDirectory(e) ==
    cache[entry[e].rel] # "absent" /\ ino[entry[e].rel] = entry[e].ino

\* A partly deleted directory may or may not still hold the script.
EntryRecheck(e) ==
    /\ entry[e].pc = "locked"
    /\ \/ SameDirectory(e) /\ entry' = [entry EXCEPT ![e].pc = "running"]
       \/ cache[entry[e].rel] # "whole" /\ EntryDone(e)
       \/ ~SameDirectory(e) /\ EntryDone(e)
    /\ UNCHANGED <<config, trees, lease, journal, temp, evidence, cmd,
                   restorer, faults>>

EntryExit(e) ==
    /\ entry[e].pc = "running"
    /\ EntryDone(e)
    /\ UNCHANGED <<config, trees, lease, journal, temp, evidence, cmd,
                   restorer, faults>>

-----------------------------------------------------------------------------
(* prepare: select or create the workflow of a release, and register it    *)

At(pc) == cmd.pc = pc
Goto(pc) == cmd' = [cmd EXCEPT !.pc = pc]
End == cmd' = Idle
MyDoc == journal[cmd.w]

StartPrepare(r) ==
    /\ At("idle")
    /\ cmd' = [Idle EXCEPT !.pc = "select", !.rel = r]
    /\ UNCHANGED <<config, trees, world, journal, temp, faults>>

BadMatching(r) ==
    {w \in Work : Newest(w) # None /\ Newest(w).rel = r
                  /\ Newest(w).status = "awaiting"}
Matching(r) ==
    {w \in Work : Newest(w) # None /\ Newest(w).rel = r
                  /\ Newest(w).status \in {"awaiting", "cleanup"}}

\* Every journal is loaded and recovered; an unreadable copy stops all.
Recover ==
    /\ At("select")
    /\ IF \E w \in Work : Unreadable(w)
       THEN End /\ UNCHANGED <<journal, temp>>
       ELSE /\ Goto("choose")
            /\ temp' = [w \in Work |-> None]
            /\ LET W == {w \in Work : Newer(w)}
               IN journal' = Put(W, [w \in W |-> temp[w].doc])
    /\ UNCHANGED <<config, trees, world, faults>>

\* _ensure_current_cache_lease
Leased(r) == IF r \in Legacy THEN lease ELSE lease \cup {<<r, ino[r]>>}

Fresh == {w \in Work : w \notin Known /\ \A v \in Work : v < w => v \in Known}

Select ==
    /\ At("choose")
    /\ LET r == cmd.rel
           exact == Registered(r)
       IN /\ lease' = IF exact THEN Leased(r) ELSE lease
          /\ \/ /\ Cardinality(Matching(r)) > 1
                /\ End
             \/ /\ Cardinality(Matching(r)) = 1
                /\ \E w \in Matching(r) :
                     cmd' = [cmd EXCEPT !.w = w, !.pc =
                        IF journal[w].status = "awaiting"
                           /\ journal[w].reg # "registered"
                        THEN "prepared" ELSE "load"]
             \/ /\ Matching(r) = {}
                /\ IF exact /\ Discovered(None, r) = {NoRows}
                   THEN End
                   ELSE \E w \in Fresh : cmd' = [cmd EXCEPT !.w = w, !.pc = "create"]
    /\ UNCHANGED <<config, trees, entry, journal, temp, evidence, restorer,
                   faults>>

Create ==
    /\ At("create")
    /\ Commit(cmd.w, [rel |-> cmd.rel, status |-> "awaiting", reg |-> "none",
                      rows |-> NoRows, retired |-> {}],
              [cmd EXCEPT !.pc = "prepared"])
    /\ UNCHANGED <<config, trees, world>>

Prepared ==
    /\ At("prepared")
    /\ Commit(cmd.w, [MyDoc EXCEPT !.reg = "prepared"], [cmd EXCEPT !.pc = "evidence"])
    /\ UNCHANGED <<config, trees, world>>

\* _register: the prior registration is recorded once; a retry must find it
\* and must not find a third registration.
Evidence ==
    /\ At("evidence")
    /\ LET old == evidence[cmd.w]
       IN IF old = None
          THEN /\ evidence' = [evidence EXCEPT ![cmd.w] =
                                 [before |-> Missing, after |-> Missing]]
               /\ Goto("before")
          ELSE /\ IF old.before # Missing /\ config \in {old.before, cmd.rel}
                  THEN Goto("cache") ELSE Goto("failed")
               /\ UNCHANGED evidence
    /\ UNCHANGED <<config, trees, lease, entry, journal, temp, restorer,
                   faults>>

Before ==
    /\ At("before")
    /\ evidence' = [evidence EXCEPT ![cmd.w].before = config]
    /\ Goto("cache")
    /\ UNCHANGED <<config, trees, lease, entry, journal, temp, restorer,
                   faults>>

\* The cache is published before the configuration and never replaced.
PublishCache ==
    /\ At("cache")
    /\ LET r == cmd.rel
       IN \/ /\ cache[r] = "absent"
             /\ ino[r] < MaxIno
             /\ cache' = [cache EXCEPT ![r] = "whole"]
             /\ ino' = [ino EXCEPT ![r] = @ + 1]
             /\ UNCHANGED lost
             /\ Goto("config")
          \/ cache[r] = "whole" /\ Goto("config") /\ UNCHANGED trees
          \/ cache[r] = "part" /\ Goto("failed") /\ UNCHANGED trees
    /\ UNCHANGED <<config, world, journal, temp, faults>>

PublishConfig ==
    /\ At("config")
    /\ IF config \in {evidence[cmd.w].before, cmd.rel} /\ cache[cmd.rel] = "whole"
       THEN config' = cmd.rel /\ Goto("after")
       ELSE UNCHANGED config /\ Goto("failed")
    /\ UNCHANGED <<trees, world, journal, temp, faults>>

After ==
    /\ At("after")
    /\ evidence' = [evidence EXCEPT ![cmd.w].after = config]
    /\ IF Registered(cmd.rel)
       THEN lease' = Leased(cmd.rel) /\ Goto("registered")
       ELSE UNCHANGED lease /\ Goto("failed")
    /\ UNCHANGED <<config, trees, entry, journal, temp, restorer, faults>>

Outcome(reg, pc) ==
    /\ At(reg)
    /\ Commit(cmd.w, [MyDoc EXCEPT !.reg = reg],
              IF pc = "idle" THEN Idle ELSE [cmd EXCEPT !.pc = pc])
    /\ UNCHANGED <<config, trees, world>>

-----------------------------------------------------------------------------
(* finalize: validate, journal the intent, delete, journal each result     *)

StartFinalize(w) ==
    /\ At("idle")
    /\ w \in Known
    /\ cmd' = [Idle EXCEPT !.pc = "load", !.w = w]
    /\ UNCHANGED <<config, trees, world, journal, temp, faults>>

Valid(doc) == doc.reg = "registered" /\ Registered(doc.rel)
Rest(doc) == {r \in Releases : doc.rows[r] # None /\ doc.rows[r].st # "removed"}

Load ==
    /\ At("load")
    /\ IF Unreadable(cmd.w) \/ Newest(cmd.w) = None
       THEN End /\ UNCHANGED <<journal, temp>>
       ELSE LET doc == Newest(cmd.w)
                W == {w \in {cmd.w} : Newer(w)}
            IN /\ temp' = [temp EXCEPT ![cmd.w] = None]
               /\ journal' = Put(W, [w \in W |-> doc])
               /\ IF ~Valid(doc) THEN End
                  ELSE cmd' = [cmd EXCEPT !.rel = doc.rel, !.todo = Rest(doc), !.pc =
                         CASE doc.status = "complete" -> "retire"
                           [] doc.status = "awaiting" -> "intent"
                           [] OTHER -> "rows"]
    /\ UNCHANGED <<config, trees, world, faults>>

\* Before the first deletion the journal says what will be deleted and which
\* registrations can no longer be restored.
Intent ==
    /\ At("intent")
    /\ IF \E v \in Work : Unsettled(v)
       THEN End /\ UNCHANGED <<journal, temp, faults>>
       ELSE \E rows \in Discovered(cmd.w, cmd.rel) :
              LET proofs == {rows[r].by : r \in {s \in Releases : rows[s] # None}}
                  doc == [MyDoc EXCEPT !.status = "cleanup", !.rows = rows,
                            !.retired = IF proofs = {} THEN {}
                                        ELSE proofs \cup {cmd.w}]
              IN Commit(cmd.w, doc, [cmd EXCEPT !.pc = "rows", !.todo = Rest(doc)])
    /\ UNCHANGED <<config, trees, world>>

\* What becomes of a candidate before anything is touched.
Verdict(r, row) ==
    CASE r \in Protected(cmd.w) -> "deferred"
      [] row.stale -> "conflict"
      [] cache[r] = "absent" -> "removed"
      [] r \in Legacy -> "deferred"
      [] ~LeaseFree(r, row.ino) -> "deferred"
      [] ino[r] # row.ino -> "conflict"
      [] OTHER -> "idle"

Candidate(r) ==
    /\ At("rows")
    /\ r \in cmd.todo
    /\ IF ~Valid(MyDoc) \/ (\E v \in Work : Unsettled(v))
       THEN End
       ELSE LET verdict == Verdict(r, MyDoc.rows[r])
            IN cmd' = [cmd EXCEPT !.row = r, !.st = verdict,
                         !.pc = IF verdict = "idle" THEN "remove" ELSE "record"]
    /\ UNCHANGED <<config, trees, world, journal, temp, faults>>

\* conditional_remove_tree, with the lease held exclusively: the tree goes
\* piece by piece, the directory last.
Remove ==
    /\ At("remove")
    /\ IF Valid(MyDoc)
       THEN cache' = [cache EXCEPT ![cmd.row] = "part"] /\ Goto("rest")
       ELSE UNCHANGED cache /\ cmd' = [cmd EXCEPT !.pc = "record", !.st = "conflict"]
    /\ lost' = IF Valid(MyDoc)
              THEN lost \cup {g \in Registrations :
                                evidence[g] # None /\ evidence[g].before = cmd.row}
              ELSE lost
    /\ UNCHANGED <<config, ino, world, journal, temp, faults>>

RemoveRest ==
    /\ At("rest")
    /\ cache' = [cache EXCEPT ![cmd.row] = "absent"]
    /\ cmd' = [cmd EXCEPT !.pc = "record",
                 !.st = IF Valid(MyDoc) THEN "removed" ELSE "conflict"]
    /\ UNCHANGED <<config, ino, lost, world, journal, temp, faults>>

Record ==
    /\ At("record")
    /\ Commit(cmd.w, [MyDoc EXCEPT !.rows[cmd.row].st = cmd.st],
              [cmd EXCEPT !.pc = "rows", !.todo = @ \ {cmd.row}, !.row = None,
                          !.st = "pending"])
    /\ UNCHANGED <<config, trees, world>>

Finish ==
    /\ At("rows")
    /\ cmd.todo = {}
    /\ IF Rest(MyDoc) # {}
       THEN Goto("retire") /\ UNCHANGED <<journal, temp, faults>>
       ELSE IF ~Valid(MyDoc)
       THEN End /\ UNCHANGED <<journal, temp, faults>>
       ELSE Commit(cmd.w, [MyDoc EXCEPT !.status = "complete"],
                   [cmd EXCEPT !.pc = "retire"])
    /\ UNCHANGED <<config, trees, world>>

Superseded ==
    {v \in Work \ {cmd.w} :
        /\ journal[v] # None
        /\ ~Unsettled(v)
        /\ journal[v].status = "cleanup"
        /\ journal[v].rel # MyDoc.rel
        /\ \A r \in Rest(journal[v]) : cache[r] = "absent"}
AllRemoved(doc) ==
    [doc EXCEPT !.status = "complete",
                !.rows = [r \in Releases |->
                    IF @[r] = None THEN None ELSE [@[r] EXCEPT !.st = "removed"]]]
Retire ==
    /\ At("retire")
    /\ \/ \E v \in Superseded : Commit(v, AllRemoved(journal[v]), cmd)
       \/ Superseded = {} /\ End /\ UNCHANGED <<journal, temp, faults>>
    /\ UNCHANGED <<config, trees, world>>

-----------------------------------------------------------------------------
(* restore: only the source of the marketplace goes back                   *)

\* _validate_restore_scope and assert_rollback_available, read from journals
\* that must all be settled.
Restorable(g) ==
    /\ evidence[g] # None
    /\ evidence[g].before # Missing
    /\ \A v \in Work : ~Unsettled(v)
    /\ g \notin Retired

RestoreCheck(g) ==
    /\ Restorable(g)
    /\ restorer = None
    /\ restorer' = g
    /\ UNCHANGED <<config, trees, lease, entry, journal, temp, evidence, cmd,
                   faults>>

RestoreLocked(g) ==
    /\ At("idle")
    /\ restorer = g
    /\ restorer' = None
    /\ cmd' = IF Restorable(g) THEN [Idle EXCEPT !.pc = "unset", !.w = g] ELSE Idle
    /\ UNCHANGED <<config, trees, lease, entry, journal, temp, evidence,
                   faults>>

RestoreRemove ==
    /\ At("unset")
    /\ config' = None
    /\ Goto("set")
    /\ UNCHANGED <<trees, world, journal, temp, faults>>

RestoreAdd ==
    /\ At("set")
    /\ config' = evidence[cmd.w].before
    /\ End
    /\ UNCHANGED <<trees, world, journal, temp, faults>>

-----------------------------------------------------------------------------
(* The environment                                                         *)

Crash ==
    /\ ~At("idle")
    /\ faults < MaxFaults
    /\ faults' = faults + 1
    /\ End
    /\ UNCHANGED <<config, trees, world, journal, temp>>

\* Somebody registers another release with Codex itself, or removes it.
Drift(r) ==
    /\ faults < MaxFaults
    /\ r # config
    /\ faults' = faults + 1
    /\ config' = r
    /\ UNCHANGED <<trees, lease, entry, journal, temp, evidence, cmd, restorer>>

Init ==
    \E r \in Releases :
        /\ config = r
        /\ cache = [s \in Releases |-> IF s = r THEN "whole" ELSE "absent"]
        /\ ino = [s \in Releases |-> IF s = r THEN 1 ELSE 0]
        /\ lease = (IF r \in Legacy THEN {} ELSE {<<r, 1>>})
        /\ entry = [e \in Entries |-> [pc |-> "idle", rel |-> None, ino |-> 0]]
        /\ journal = [w \in Work |-> None]
        /\ temp = [w \in Work |-> None]
        /\ evidence = [g \in Registrations |->
                         IF g = 0 THEN [before |-> None, after |-> r] ELSE None]
        /\ cmd = Idle
        /\ restorer = None
        /\ lost = {}
        /\ faults = 0

EntryStep(e) == EntryLock(e) \/ EntryRecheck(e) \/ EntryExit(e)

Step ==
    \/ Recover \/ Select \/ Create \/ Prepared \/ Evidence \/ Before
    \/ PublishCache \/ PublishConfig \/ After
    \/ Outcome("registered", "load") \/ Outcome("failed", "idle")
    \/ Load \/ Intent \/ (\E r \in Releases : Candidate(r))
    \/ Remove \/ RemoveRest \/ Record \/ Finish \/ Retire
    \/ RestoreRemove \/ RestoreAdd

Next ==
    \/ Step
    \/ \E r \in Releases : StartPrepare(r)
    \/ \E w \in Work : StartFinalize(w)
    \/ \E g \in Registrations : RestoreCheck(g) \/ RestoreLocked(g)
    \/ \E e \in Entries : EntryStep(e) \/ \E r \in Releases : EntryOpen(e, r)
    \/ Crash
    \/ \E r \in Releases \cup {None} : Drift(r)

Spec == Init /\ [][Next]_vars

-----------------------------------------------------------------------------
(* Properties                                                              *)

\* Two unfinished workflows for one release would make every later prepare
\* of that release fail as ambiguous.
OneLive ==
    \A v, w \in Work :
        /\ v # w
        /\ Newest(v) # None /\ Newest(v).status \in {"awaiting", "cleanup"}
        /\ Newest(w) # None /\ Newest(w).status \in {"awaiting", "cleanup"}
        => Newest(v).rel # Newest(w).rel

\* A journal that says removed says so of a directory that is gone.
RemovedIsGone ==
    \A w \in Work : journal[w] # None =>
        \A r \in Releases :
            /\ journal[w].rows[r] # None
            /\ journal[w].rows[r].st = "removed"
            => cache[r] = "absent" \/ ino[r] # journal[w].rows[r].ino

\* Journals can be relied on: see the two parts.
JournalsTrue == OneLive /\ RemovedIsGone

\* A registration that a restore still accepts names a release that cleanup
\* has not deleted.
RestoreNeverLost ==
    /\ \A g \in Registrations : Restorable(g) => g \notin lost
    /\ At("set") => cmd.w \notin lost

\* No step takes the tree of a running entry away from under it.
EntryKeepsTree ==
    [][\A e \in Entries :
        entry[e].pc = "running" /\ entry'[e] = entry[e]
        => /\ cache'[entry[e].rel] = cache[entry[e].rel]
           /\ ino'[entry[e].rel] = entry[e].ino]_vars

\* follows: what save_record accepts as the next revision of a journal.
Follows(old, new) ==
    IF old = None THEN new.status = "awaiting"
    ELSE /\ new.rel = old.rel
         /\ <<old.status, new.status>> \in
              {<<"awaiting", "awaiting">>, <<"awaiting", "cleanup">>,
               <<"cleanup", "cleanup">>, <<"cleanup", "complete">>,
               <<"complete", "complete">>}
         /\ old.status # "awaiting" =>
              /\ new.reg = old.reg /\ new.retired = old.retired
              /\ \A r \in Releases :
                    IF old.rows[r] = None THEN new.rows[r] = None
                    ELSE /\ new.rows[r] # None
                         /\ new.rows[r].ino = old.rows[r].ino
                         /\ new.rows[r].by = old.rows[r].by
                         /\ old.rows[r].st = "removed" => new.rows[r].st = "removed"
         /\ new.status = "complete" => Rest(new) = {}

\* Whatever crashes and recoveries come between, no command ever asks for a
\* journal that save_record would refuse as an invalid transition.
JournalFollows ==
    [][\A w \in Work :
        journal'[w] # journal[w] => Follows(journal[w], journal'[w])]_vars

\* What no step of an upgrade may do: see the two parts.
StepsAllowed == EntryKeepsTree /\ JournalFollows
=============================================================================
