------------------------- MODULE UpgradeCleanupProofs -------------------------
(***************************************************************************)
(* Proofs about UpgradeCleanup for any workflows, releases, inodes, faults *)
(* and scripts, with a death after any step.  A journal is two files while *)
(* it is written: what is proved of it is proved of a temporary copy that  *)
(* is newer, too, for a recovery may publish it.  What prepare and         *)
(* finalize know of journals, caches and evidence at each place is part of *)
(* the invariant, because only the mutation lock keeps it true.            *)
(***************************************************************************)
EXTENDS UpgradeCleanup, TLAPS

Live(doc) == doc # None /\ doc.status \in {"awaiting", "cleanup"}

\* The steps of prepare that follow the recovery of all journals, those of them that have a
\* workflow, and the places of finalize.
Preparing == {"prepared", "evidence", "before", "cache", "config", "after", "registered", "failed"}
Removing == {"remove", "rest"}
Deleting == {"record"} \cup Removing
Restoring == {"unset", "set"}
Places == {"idle", "select", "choose", "create", "load", "intent", "rows", "retire"}
            \cup Preparing \cup Deleting \cup Restoring

Typed ==
    /\ config \in Releases \cup {None}
    /\ cache \in [Releases -> {"absent", "whole", "part"}]
    /\ ino \in [Releases -> 0..MaxIno]
    /\ entry \in [Entries -> [pc : {"idle", "opened", "locked", "running"},
                              rel : Releases \cup {None}, ino : 0..MaxIno]]
    /\ \A e \in Entries : entry[e].pc # "idle" => entry[e].rel \in Releases
    /\ journal \in [Work -> Doc \cup {None}]
    /\ temp \in [Work -> Copy \cup {None}]
    /\ evidence \in [Registrations -> Evidenced \cup {None}]
    /\ cmd \in [pc : Places, w : Registrations, rel : Releases \cup {None},
                row : Releases \cup {None}, todo : SUBSET Releases,
                st : {"pending", "deferred", "conflict", "removed", "idle"}]
    /\ restorer \in Registrations \cup {None}
    /\ lost \subseteq Registrations

\* What a journal says of a cache it has had removed stays true, and a complete one has
\* nothing left to do.
Sound(doc, held, made) ==
    /\ \A r \in Releases : doc.rows[r] # None =>
          /\ doc.rows[r].ino <= made[r]
          /\ doc.rows[r].st = "removed" => held[r] = "absent" \/ doc.rows[r].ino < made[r]
    /\ doc.status = "complete" => Rest(doc) = {}

DocSound(doc) == Sound(doc, cache, ino)

\* A copy that is newer than its journal is what save_record accepts after it.
JournalSound(w) ==
    /\ journal[w] # None => DocSound(journal[w])
    /\ temp[w] # None /\ temp[w].newer =>
          /\ temp[w].doc # Torn /\ DocSound(temp[w].doc) /\ Follows(journal[w], temp[w].doc)

\* What the command with the locks knows at its place.
PlaceSound ==
    /\ cmd.pc \in {"choose", "create"} \cup Preparing \cup Deleting => \A v \in Work : temp[v] = None
    /\ cmd.pc \in {"select", "choose", "create", "intent"} \cup Preparing => cmd.rel \in Releases
    /\ cmd.pc = "create" => /\ cmd.w \in Work /\ journal[cmd.w] = None
                            /\ \A v \in Work : Live(journal[v]) => journal[v].rel # cmd.rel
    /\ cmd.pc \in Preparing => cmd.w \in Work /\ Awaiting(journal[cmd.w])
    /\ cmd.pc = "load" => cmd.w \in Work
    /\ cmd.pc \in {"intent", "rows", "retire"} => cmd.w \in Work /\ temp[cmd.w] = None /\ journal[cmd.w] # None
    /\ cmd.pc = "intent" => Awaiting(journal[cmd.w])
    /\ cmd.pc \in {"rows"} \cup Deleting =>
          cmd.w \in Work /\ journal[cmd.w] # None /\ journal[cmd.w].status = "cleanup" /\ cmd.todo \subseteq Rest(journal[cmd.w])
    /\ cmd.pc \in Deleting => cmd.row \in cmd.todo
    /\ cmd.pc = "record" => cmd.st \in {"deferred", "conflict", "removed"}
    /\ cmd.pc = "record" /\ cmd.st = "removed" => cache[cmd.row] = "absent"
    /\ cmd.pc \in {"before", "cache", "config", "after"} => evidence[cmd.w] # None
    /\ cmd.pc \in Restoring =>
          cmd.w \notin Retired /\ evidence[cmd.w] # None /\ evidence[cmd.w].before # Missing

\* While a tree is deleted it is the one that was to be, and no script holds it.
RemovalSound ==
    cmd.pc \in Removing =>
        /\ cache[cmd.row] # "absent"
        /\ ino[cmd.row] = journal[cmd.w].rows[cmd.row].ino
        /\ Holders(cmd.row, ino[cmd.row]) = {}
        /\ cmd.pc = "remove" =>
             \A g \in Registrations : evidence[g] # None /\ evidence[g].before = cmd.row => g \in Retired

ScriptsSound ==
    \A e \in Entries : entry[e].pc = "running" =>
        cache[entry[e].rel] # "absent" /\ ino[entry[e].rel] = entry[e].ino

UpgradeInv ==
    /\ Typed /\ (\A w \in Work : JournalSound(w)) /\ OneLive /\ PlaceSound /\ RemovalSound
    /\ ScriptsSound /\ lost \subseteq Retired

-----------------------------------------------------------------------------
(* Journals.                                                               *)

\* Two documents that differ in nothing but which proofs are stale.
Alike(old, new) ==
    IF old = None THEN new = None
    ELSE /\ new \in Doc /\ old \in Doc
         /\ new.rel = old.rel /\ new.status = old.status
         /\ new.reg = old.reg /\ new.retired = old.retired
         /\ \A r \in Releases :
               IF old.rows[r] = None THEN new.rows[r] = None
               ELSE /\ new.rows[r] # None /\ new.rows[r].ino = old.rows[r].ino
                    /\ new.rows[r].by = old.rows[r].by /\ new.rows[r].st = old.rows[r].st

LEMMA PutAlike ==
  ASSUME NEW W \in SUBSET Work, NEW docs, \A v \in W : docs[v] \in Doc,
         journal \in [Work -> Doc \cup {None}]
  PROVE  /\ Put(W, docs) \in [Work -> Doc \cup {None}]
         /\ \A v \in Work : Alike(IF v \in W THEN docs[v] ELSE journal[v], Put(W, docs)[v])
<1> USE DistinctAssumption
<1> SUFFICES ASSUME NEW v \in Work
             PROVE  /\ Put(W, docs)[v] \in Doc \cup {None}
                    /\ Alike(IF v \in W THEN docs[v] ELSE journal[v], Put(W, docs)[v])
  BY DEF Put
<1> DEFINE doc == IF v \in W THEN docs[v] ELSE journal[v]
           row(r) == IF doc.rows[r] # None /\ doc.rows[r].by \in W
                     THEN [doc.rows[r] EXCEPT !.stale = TRUE] ELSE doc.rows[r]
<1>1. doc \in Doc \cup {None}
  OBVIOUS
<1>2. Put(W, docs)[v] = IF doc = None THEN None ELSE [doc EXCEPT !.rows = [r \in Releases |-> row(r)]]
  BY DEF Put
<1> HIDE DEF doc
<1>3. CASE doc = None
  BY <1>2, <1>3 DEF Alike, doc
<1>4. CASE doc # None
  <2>1. doc \in Doc
    BY <1>1, <1>4
  <2>2. ASSUME NEW r \in Releases
        PROVE  /\ row(r) \in Row \cup {None}
               /\ doc.rows[r] = None => row(r) = None
               /\ doc.rows[r] # None => /\ row(r) # None /\ row(r).ino = doc.rows[r].ino
                                        /\ row(r).by = doc.rows[r].by /\ row(r).st = doc.rows[r].st
    <3>1. doc.rows[r] \in Row \cup {None}
      BY <2>1 DEF Doc
    <3>2. ASSUME doc.rows[r] # None PROVE [doc.rows[r] EXCEPT !.stale = TRUE] \in Row
      BY <3>1, <3>2 DEF Row
    <3>3. QED BY <3>1, <3>2 DEF Row
  <2> DEFINE new == [doc EXCEPT !.rows = [r \in Releases |-> row(r)]]
  <2>3. /\ new \in Doc /\ new.rel = doc.rel /\ new.status = doc.status /\ new.reg = doc.reg
        /\ new.retired = doc.retired /\ \A r \in Releases : new.rows[r] = row(r)
    <3> HIDE DEF row
    <3>1. [r \in Releases |-> row(r)] \in [Releases -> Row \cup {None}]
      BY <2>2
    <3>2. QED BY <2>1, <3>1 DEF Doc
  <2> HIDE DEF row, new
  <2>4. Put(W, docs)[v] = new
    BY <1>2, <1>4 DEF new
  <2>5. Alike(doc, new)
    BY <1>4, <2>1, <2>2, <2>3 DEF Alike
  <2>6. QED BY <2>3, <2>4, <2>5 DEF doc
<1>5. QED BY <1>3, <1>4

LEMMA AlikeFacts ==
  ASSUME NEW a \in Doc, NEW b, Alike(a, b)
  PROVE  /\ b \in Doc /\ b # None /\ Rest(b) = Rest(a) /\ (\A held, made : Sound(a, held, made) => Sound(b, held, made))
         /\ b.rel = a.rel /\ b.status = a.status /\ b.reg = a.reg /\ b.retired = a.retired
         /\ (a.status = "complete" => Rest(a) = {}) => Follows(a, b)
<1> USE DistinctAssumption
<1>1. /\ b \in Doc /\ b # None /\ a # None /\ b.rel = a.rel /\ b.status = a.status /\ b.reg = a.reg
      /\ b.retired = a.retired
      /\ \A r \in Releases :
            IF a.rows[r] = None THEN b.rows[r] = None
            ELSE /\ b.rows[r] # None /\ b.rows[r].ino = a.rows[r].ino
                 /\ b.rows[r].by = a.rows[r].by /\ b.rows[r].st = a.rows[r].st
  BY DEF Alike
<1>2. Rest(b) = Rest(a)
  BY <1>1 DEF Rest
<1>3. \A held, made : Sound(a, held, made) => Sound(b, held, made)
  BY <1>1, <1>2 DEF Sound
<1>4. a.status \in {"awaiting", "cleanup", "complete"}
  BY DEF Doc
<1>5. (a.status = "complete" => Rest(a) = {}) => Follows(a, b)
  BY <1>1, <1>2, <1>4 DEF Follows
<1>6. QED BY <1>1, <1>2, <1>3, <1>5

LEMMA AlikeFollows ==
  ASSUME NEW a \in Doc \cup {None}, NEW b, NEW c \in Doc, NEW d,
         Alike(a, b), Alike(c, d), Follows(a, c)
  PROVE  Follows(b, d)
<1> USE DistinctAssumption
<1>1. d \in Doc /\ d.rel = c.rel /\ d.status = c.status /\ d.reg = c.reg /\ d.retired = c.retired /\ Rest(d) = Rest(c)
  BY AlikeFacts
<1>2. CASE a = None
  BY <1>1, <1>2 DEF Follows, Alike
<1>3. CASE a # None
  <2>1. /\ b # None /\ b.rel = a.rel /\ b.status = a.status /\ b.reg = a.reg /\ b.retired = a.retired
    BY <1>3, AlikeFacts
  <2>2. \A r \in Releases : /\ a.rows[r] = None => b.rows[r] = None
                            /\ a.rows[r] # None => b.rows[r] # None /\ b.rows[r].ino = a.rows[r].ino
                                                   /\ b.rows[r].by = a.rows[r].by /\ b.rows[r].st = a.rows[r].st
    BY <1>3 DEF Alike
  <2>3. \A r \in Releases : /\ c.rows[r] = None => d.rows[r] = None
                            /\ c.rows[r] # None => d.rows[r] # None /\ d.rows[r].ino = c.rows[r].ino
                                                   /\ d.rows[r].by = c.rows[r].by /\ d.rows[r].st = c.rows[r].st
    BY DEF Alike
  <2>4. QED BY <1>1, <1>3, <2>1, <2>2, <2>3 DEF Follows
<1>4. QED BY <1>2, <1>3

\* What one step does to the journal of a workflow and to its temporary copy.
Kept(v) == Alike(journal[v], journal'[v]) /\ temp'[v] = temp[v]
Dropped(v) == ~Newer(v) /\ Alike(journal[v], journal'[v]) /\ temp'[v] = None
Published(v) == Newer(v) /\ Alike(temp[v].doc, journal'[v]) /\ temp'[v] = None
Written(v, doc) ==
    /\ temp[v] = None /\ doc \in Doc /\ DocSound(doc) /\ Follows(journal[v], doc)
    /\ journal[v] = None /\ Live(doc) =>
          \A u \in Work \ {v} : Live(Newest(u)) => Newest(u).rel # doc.rel
    /\ \/ Alike(doc, journal'[v]) /\ (temp'[v] = None \/ (temp'[v] \in Copy /\ ~temp'[v].newer))
       \/ /\ Alike(journal[v], journal'[v]) /\ temp'[v] \in Copy
          /\ temp'[v].newer => temp'[v].doc = doc
JournalsMove ==
    /\ journal' \in [Work -> Doc \cup {None}] /\ temp' \in [Work -> Copy \cup {None}]
    /\ \/ \A v \in Work : Kept(v) \/ Dropped(v) \/ Published(v)
       \/ \E w \in Work, doc \in Doc : Written(w, doc) /\ \A v \in Work \ {w} : Kept(v)

TreesMove == \A doc \in Doc : Sound(doc, cache, ino) => Sound(doc, cache', ino')

LEMMA NewestTyped ==
  ASSUME Typed, \A w \in Work : JournalSound(w)
  PROVE  \A w \in Work : /\ Newest(w) \in Doc \cup {None} /\ (Newest(w) # None => DocSound(Newest(w)))
                         /\ Newer(w) => temp[w].doc \in Doc
<1> USE DistinctAssumption
<1> SUFFICES ASSUME NEW w \in Work
             PROVE  /\ Newest(w) \in Doc \cup {None} /\ (Newest(w) # None => DocSound(Newest(w)))
                    /\ Newer(w) => temp[w].doc \in Doc
  OBVIOUS
<1>1. Newer(w) => temp[w].doc \in Doc /\ DocSound(temp[w].doc)
  BY DEF Newer, Unsettled, Typed, Copy, JournalSound
<1>2. QED BY <1>1 DEF Newest, Typed, JournalSound

\* No workflow comes back to life, and none that lives changes its release.
LivesOn(v) == Live(Newest(v))' => Live(Newest(v)) /\ Newest(v)'.rel = Newest(v).rel

LEMMA JournalsGoOn ==
  ASSUME Typed, \A w \in Work : JournalSound(w), OneLive, JournalsMove, TreesMove
  PROVE  /\ (\A w \in Work : JournalSound(w))' /\ OneLive' /\ Retired \subseteq Retired'
         /\ \A w \in Work : journal'[w] # journal[w] => Follows(journal[w], journal'[w])
<1> USE DistinctAssumption
<1>1. \A w \in Work : /\ Newest(w) \in Doc \cup {None} /\ (Newest(w) # None => DocSound(Newest(w)))
                      /\ journal[w] \in Doc \cup {None} /\ (journal[w] # None => DocSound(journal[w]))
                      /\ Newer(w) => temp[w].doc \in Doc /\ DocSound(temp[w].doc) /\ Follows(journal[w], temp[w].doc)
  BY NewestTyped DEF Typed, JournalSound, Newer, Unsettled
<1>2. ASSUME NEW v \in Work, Alike(journal[v], journal'[v])
      PROVE  /\ journal'[v] # None => Sound(journal'[v], cache', ino') /\ journal'[v] \in Doc
             /\ journal'[v] # None <=> journal[v] # None
             /\ journal[v] # None => /\ journal'[v].rel = journal[v].rel /\ journal'[v].status = journal[v].status
                                     /\ journal'[v].retired = journal[v].retired
             /\ journal[v] # journal'[v] => Follows(journal[v], journal'[v])
  <2>1. CASE journal[v] = None
    BY <1>2, <2>1 DEF Alike
  <2>2. CASE journal[v] # None
    <3>1. journal[v] \in Doc /\ DocSound(journal[v])
      BY <1>1, <2>2
    <3>2. Sound(journal[v], cache', ino') /\ (journal[v].status = "complete" => Rest(journal[v]) = {})
      BY <3>1 DEF DocSound, Sound, TreesMove
    <3>3. QED BY <1>2, <2>2, <3>1, <3>2, AlikeFacts
  <2>3. QED BY <2>1, <2>2
<1>3. ASSUME NEW v \in Work, NEW doc \in Doc, DocSound(doc), Follows(journal[v], doc), Alike(doc, journal'[v])
      PROVE  /\ Sound(journal'[v], cache', ino') /\ journal'[v] # None /\ journal'[v] \in Doc
             /\ journal'[v].rel = doc.rel /\ journal'[v].status = doc.status /\ journal'[v].retired = doc.retired
             /\ Follows(journal[v], journal'[v])
  <2>1. Alike(journal[v], journal[v])
    BY <1>1 DEF Alike
  <2>2. Follows(journal[v], journal'[v])
    BY <1>1, <1>3, <2>1, AlikeFollows
  <2>3. Sound(doc, cache', ino')
    BY <1>3 DEF DocSound, TreesMove
  <2>4. QED BY <1>3, <2>2, <2>3, AlikeFacts
<1> DEFINE Goes(v) == /\ JournalSound(v)' /\ (journal'[v] # journal[v] => Follows(journal[v], journal'[v]))
                      /\ InCleanup(journal[v]) => InCleanup(journal'[v]) /\ journal'[v].retired = journal[v].retired
<1>4. \A v \in Work : Newest(v)' = IF temp'[v] # None /\ temp'[v].newer THEN temp'[v].doc ELSE journal'[v]
  BY DEF Newest, Newer, Unsettled
<1>5. ASSUME NEW v \in Work, Kept(v) PROVE Goes(v) /\ LivesOn(v)
  <2>1. Alike(journal[v], journal'[v]) /\ temp'[v] = temp[v]
    BY <1>5 DEF Kept
  <2>2. Newer(v) => /\ temp'[v].doc = temp[v].doc /\ temp[v].doc \in Doc /\ Sound(temp[v].doc, cache', ino')
                    /\ Follows(journal'[v], temp[v].doc)
    <3> SUFFICES ASSUME Newer(v) PROVE Sound(temp[v].doc, cache', ino') /\ Follows(journal'[v], temp[v].doc)
      BY <1>1, <2>1
    <3>1. Alike(temp[v].doc, temp[v].doc)
      BY <1>1 DEF Alike
    <3>2. QED BY <1>1, <2>1, <3>1, AlikeFollows DEF TreesMove, DocSound
  <2>3. JournalSound(v)'
    BY <1>2, <2>1, <2>2 DEF JournalSound, DocSound, Newer, Unsettled
  <2>4. LivesOn(v)
    BY <1>2, <1>4, <2>1, <2>2 DEF LivesOn, Newest, Newer, Unsettled, Live
  <2>5. QED BY <1>2, <2>1, <2>3, <2>4 DEF InCleanup
<1>6. ASSUME NEW v \in Work, Dropped(v) PROVE Goes(v) /\ LivesOn(v)
  <2>1. ~Newer(v) /\ Alike(journal[v], journal'[v]) /\ temp'[v] = None
    BY <1>6 DEF Dropped
  <2>2. JournalSound(v)'
    BY <1>2, <2>1 DEF JournalSound, DocSound
  <2>3. LivesOn(v)
    BY <1>2, <1>4, <2>1 DEF LivesOn, Newest, Live
  <2>4. QED BY <1>2, <2>1, <2>2, <2>3 DEF InCleanup
<1>7. ASSUME NEW v \in Work, Published(v) PROVE Goes(v) /\ LivesOn(v)
  <2>1. Newer(v) /\ Alike(temp[v].doc, journal'[v]) /\ temp'[v] = None
    BY <1>7 DEF Published
  <2>2. /\ Sound(journal'[v], cache', ino') /\ journal'[v] # None /\ journal'[v] \in Doc
        /\ journal'[v].rel = temp[v].doc.rel /\ journal'[v].status = temp[v].doc.status
        /\ Follows(journal[v], journal'[v])
    BY <1>1, <1>3, <2>1
  <2>3. JournalSound(v)'
    BY <2>1, <2>2 DEF JournalSound, DocSound
  <2>4. LivesOn(v)
    BY <1>1, <1>4, <2>1, <2>2 DEF LivesOn, Newest, Live
  <2>5. QED BY <2>2, <2>3, <2>4 DEF InCleanup, Follows
<1>8. ASSUME NEW v \in Work, NEW doc \in Doc, Written(v, doc)
      PROVE  /\ Goes(v) /\ (Live(Newest(v))' => Newest(v)'.rel = doc.rel \/ LivesOn(v))
             /\ journal[v] # None \/ ~Live(doc) => LivesOn(v)
  <2>1. DocSound(doc) /\ Follows(journal[v], doc) /\ Newest(v) = journal[v]
    BY <1>8 DEF Written, Newest, Newer, Unsettled
  <2>2. journal[v] # None /\ Live(doc) => Live(journal[v]) /\ doc.rel = journal[v].rel
    BY <2>1 DEF Follows, Live
  <2>3. CASE Alike(doc, journal'[v]) /\ (temp'[v] = None \/ (temp'[v] \in Copy /\ ~temp'[v].newer))
    <3>1. /\ Sound(journal'[v], cache', ino') /\ journal'[v] # None /\ journal'[v] \in Doc
          /\ journal'[v].rel = doc.rel /\ journal'[v].status = doc.status
          /\ Follows(journal[v], journal'[v])
      BY <1>3, <2>1, <2>3
    <3>2. JournalSound(v)'
      BY <2>3, <3>1 DEF JournalSound, DocSound
    <3>3. Newest(v)' = journal'[v]
      BY <1>4, <2>3
    <3>4. QED BY <2>1, <2>2, <3>1, <3>2, <3>3 DEF InCleanup, Follows, LivesOn, Live
  <2>4. CASE Alike(journal[v], journal'[v]) /\ temp'[v] \in Copy /\ (temp'[v].newer => temp'[v].doc = doc)
    <3>1. temp'[v].newer => Follows(journal'[v], doc)
      <4>1. Alike(doc, doc)
        BY DEF Alike
      <4>2. QED BY <1>1, <2>1, <2>4, <4>1, AlikeFollows
    <3>2. JournalSound(v)'
      BY <1>2, <2>1, <2>4, <3>1 DEF JournalSound, DocSound, TreesMove
    <3>3. Newest(v)' = IF temp'[v].newer THEN doc ELSE journal'[v]
      BY <1>4, <2>4
    <3>4. QED BY <1>2, <2>1, <2>2, <2>4, <3>2, <3>3 DEF InCleanup, LivesOn, Live
  <2>5. QED BY <1>8, <2>3, <2>4 DEF Written
<1>9. \A v \in Work : Goes(v)
  BY <1>5, <1>6, <1>7, <1>8 DEF JournalsMove
<1>10. OneLive'
  <2>1. OneLive' <=> \A v, w \in Work : v # w /\ Live(Newest(v))' /\ Live(Newest(w))' => Newest(v)'.rel # Newest(w)'.rel
    BY DEF OneLive, Live
  <2>2. \A v, w \in Work : v # w /\ Live(Newest(v)) /\ Live(Newest(w)) => Newest(v).rel # Newest(w).rel
    BY DEF OneLive, Live
  <2>3. CASE \A v \in Work : LivesOn(v)
    BY <2>1, <2>2, <2>3 DEF LivesOn
  <2>4. CASE \E v \in Work : ~LivesOn(v)
    <3>1. PICK w \in Work, doc \in Doc : Written(w, doc) /\ \A v \in Work \ {w} : Kept(v)
      BY <1>5, <1>6, <1>7, <2>4 DEF JournalsMove
    <3>2. ~LivesOn(w) /\ \A v \in Work \ {w} : LivesOn(v)
      BY <1>5, <2>4, <3>1
    <3>3. journal[w] = None /\ Live(doc) /\ Newest(w)'.rel = doc.rel
      BY <1>8, <3>1, <3>2 DEF LivesOn
    <3>4. \A u \in Work \ {w} : Live(Newest(u)) => Newest(u).rel # doc.rel
      BY <3>1, <3>3 DEF Written
    <3>5. QED BY <2>1, <2>2, <3>2, <3>3, <3>4 DEF LivesOn
  <2>5. QED BY <2>3, <2>4
<1>11. Retired \subseteq Retired'
  BY <1>9 DEF Retired
<1>12. QED BY <1>9, <1>10, <1>11

\* update_record, done or cut short: the copy and the exchange of it concern one journal only.
LEMMA CommitMoves ==
  ASSUME Typed, NEW w \in Work, NEW doc \in Doc, NEW next, Commit(w, doc, next)
  PROVE  /\ journal' \in [Work -> Doc \cup {None}] /\ temp' \in [Work -> Copy \cup {None}]
         /\ \A v \in Work \ {w} : Kept(v)
         /\ temp[w] = None =>
               \/ Alike(doc, journal'[w]) /\ (temp'[w] = None \/ (temp'[w] \in Copy /\ ~temp'[w].newer))
               \/ Alike(journal[w], journal'[w]) /\ temp'[w] \in Copy /\ (temp'[w].newer => temp'[w].doc = doc)
         /\ \/ cmd' = next /\ temp' = temp /\ Alike(doc, journal'[w]) /\ faults' = faults
            \/ cmd' = Idle
<1> USE DistinctAssumption
<1> DEFINE put == Put({w}, [v \in {w} |-> doc])
<1>1. put \in [Work -> Doc \cup {None}] /\ \A v \in Work : Alike(IF v \in {w} THEN doc ELSE journal[v], put[v])
  <2> DEFINE docs == [v \in {w} |-> doc]
  <2>1. {w} \in SUBSET Work /\ \A v \in {w} : docs[v] = doc /\ docs[v] \in Doc
    OBVIOUS
  <2>2. journal \in [Work -> Doc \cup {None}]
    BY DEF Typed
  <2> HIDE DEF docs
  <2>3. /\ Put({w}, docs) \in [Work -> Doc \cup {None}]
        /\ \A v \in Work : Alike(IF v \in {w} THEN docs[v] ELSE journal[v], Put({w}, docs)[v])
    BY <2>1, <2>2, PutAlike
  <2>4. QED BY <2>1, <2>3 DEF docs
<1>2. \A v \in Work : Alike(journal[v], journal[v])
  BY DEF Typed, Alike
<1> HIDE DEF put
<1>3. CASE journal' = put /\ cmd' = next /\ UNCHANGED <<temp, faults>>
  BY <1>1, <1>3 DEF Typed, Kept
<1>4. ASSUME cmd' = Idle, UNCHANGED journal, NEW copy \in {doc, Torn},
             temp' = [temp EXCEPT ![w] = [newer |-> copy # Torn, doc |-> copy]]
      PROVE  /\ journal' \in [Work -> Doc \cup {None}] /\ temp' \in [Work -> Copy \cup {None}]
             /\ \A v \in Work \ {w} : Kept(v)
             /\ Alike(journal[w], journal'[w]) /\ temp'[w] \in Copy /\ (temp'[w].newer => temp'[w].doc = doc)
  <2>1. [newer |-> copy # Torn, doc |-> copy] \in Copy
    BY DEF Copy
  <2>2. temp'[w] = [newer |-> copy # Torn, doc |-> copy] /\ \A v \in Work \ {w} : temp'[v] = temp[v]
    BY <1>4 DEF Typed
  <2>3. temp' \in [Work -> Copy \cup {None}]
    BY <1>4, <2>1 DEF Typed
  <2>4. QED BY <1>2, <1>4, <2>1, <2>2, <2>3 DEF Typed, Kept
<1>5. ASSUME cmd' = Idle, journal[w] # None, journal' = put,
             temp' = [temp EXCEPT ![w] = [newer |-> FALSE, doc |-> journal[w]]]
      PROVE  /\ journal' \in [Work -> Doc \cup {None}] /\ temp' \in [Work -> Copy \cup {None}]
             /\ \A v \in Work \ {w} : Kept(v)
             /\ Alike(doc, journal'[w]) /\ temp'[w] \in Copy /\ ~temp'[w].newer
  <2>1. [newer |-> FALSE, doc |-> journal[w]] \in Copy
    BY <1>5 DEF Typed, Copy
  <2>2. temp'[w] = [newer |-> FALSE, doc |-> journal[w]] /\ \A v \in Work \ {w} : temp'[v] = temp[v]
    BY <1>5 DEF Typed
  <2>3. temp' \in [Work -> Copy \cup {None}]
    BY <1>5, <2>1 DEF Typed
  <2>4. QED BY <1>1, <1>5, <2>1, <2>2, <2>3 DEF Kept
<1>6. QED
  BY <1>3, <1>4, <1>5 DEF Commit, put

\* The documents that the commands ask for: each is what save_record accepts after the journal.
LEMMA CommitAllowed ==
  ASSUME UpgradeInv, NEW w \in Work, NEW doc \in Doc, NEW next, Commit(w, doc, next),
         temp[w] = None, DocSound(doc), Follows(journal[w], doc),
         journal[w] # None \/ \A u \in Work \ {w} : Live(Newest(u)) => Newest(u).rel # doc.rel
  PROVE  JournalsMove
BY CommitMoves DEF UpgradeInv, JournalsMove, Written

\* Documents stay sound: a cache is made again with another inode, and one that is taken
\* away was there.
LEMMA TreesGoOn ==
  ASSUME UpgradeInv, Next PROVE TreesMove
<1> USE DEF UpgradeInv, Typed
<1>1. CASE UNCHANGED <<cache, ino>>
  BY <1>1 DEF TreesMove
<1>2. ASSUME NEW r \in Releases, cache[r] = "absent", cache' = [cache EXCEPT ![r] = "whole"],
             ino' = [ino EXCEPT ![r] = @ + 1]
      PROVE  TreesMove
  BY <1>2 DEF TreesMove, Sound, Doc, Row
<1>3. ASSUME UNCHANGED ino, NEW r \in Releases, cache[r] # "absent" \/ cache'[r] = "absent",
             \A s \in Releases \ {r} : cache'[s] = cache[s]
      PROVE  TreesMove
  BY <1>3 DEF TreesMove, Sound
<1>4. CASE PublishCache
  BY <1>1, <1>2, <1>4 DEF PublishCache, PlaceSound, At, trees
<1>5. CASE Remove
  BY <1>1, <1>3, <1>5 DEF Remove, RemovalSound, PlaceSound, Removing, Deleting, At, Rest
<1>6. CASE RemoveRest
  BY <1>3, <1>6 DEF RemoveRest, RemovalSound, PlaceSound, Removing, Deleting, At
<1>7. QED
  BY <1>1, <1>4, <1>5, <1>6 DEF Next, Step, trees, world, vars, Recover, Select, Create, Prepared, Evidence, Before, PublishConfig,
     After, Outcome, Load, Intent, Candidate, Record, Finish, Retire, RestoreRemove, RestoreAdd, StartPrepare, StartFinalize,
     RestoreCheck, RestoreLocked, EntryStep, EntryLock, EntryRecheck, EntryExit, EntryOpen, Crash, Drift

\* The journals that are asked for, command by command.
LEMMA Renewed ==
  ASSUME NEW doc \in Doc, NEW reg \in {"none", "prepared", "registered", "failed"}
  PROVE  LET new == [doc EXCEPT !.reg = reg]
         IN /\ new \in Doc /\ new.rel = doc.rel /\ new.status = doc.status /\ new.rows = doc.rows
            /\ new.reg = reg /\ Rest(new) = Rest(doc)
BY DEF Doc, Rest

LEMMA CreateWrites ==
  ASSUME UpgradeInv, Create PROVE JournalsMove
<1> USE DistinctAssumption
<1> DEFINE doc == [rel |-> cmd.rel, status |-> "awaiting", reg |-> "none", rows |-> NoRows, retired |-> {}]
<1>1. /\ cmd.w \in Work /\ cmd.rel \in Releases /\ journal[cmd.w] = None /\ temp[cmd.w] = None
      /\ \A v \in Work : temp[v] = None /\ (Live(journal[v]) => journal[v].rel # cmd.rel)
  BY DEF Create, At, UpgradeInv, PlaceSound
<1>2. doc \in Doc
  BY <1>1 DEF Doc, NoRows
<1>3. DocSound(doc) /\ Follows(journal[cmd.w], doc)
  BY <1>1 DEF DocSound, Sound, NoRows, Follows
<1>4. \A u \in Work : Newest(u) = journal[u]
  BY <1>1 DEF Newest, Newer, Unsettled
<1>5. Commit(cmd.w, doc, [cmd EXCEPT !.pc = "prepared"])
  BY DEF Create
<1> HIDE DEF doc
<1>6. doc.rel = cmd.rel
  BY DEF doc
<1>7. QED BY <1>1, <1>2, <1>3, <1>4, <1>5, <1>6, CommitAllowed

LEMMA OutcomeWrites ==
  ASSUME UpgradeInv, NEW reg \in {"prepared", "registered", "failed"}, NEW next,
         cmd.pc \in Preparing, Commit(cmd.w, [MyDoc EXCEPT !.reg = reg], next)
  PROVE  JournalsMove
<1> USE DistinctAssumption
<1>1. /\ cmd.w \in Work /\ temp[cmd.w] = None /\ journal[cmd.w] # None /\ journal[cmd.w] \in Doc
      /\ journal[cmd.w].status = "awaiting" /\ DocSound(journal[cmd.w])
  BY DEF UpgradeInv, PlaceSound, Typed, Awaiting, JournalSound
<1> DEFINE doc == [MyDoc EXCEPT !.reg = reg]
<1>2. doc \in Doc /\ doc.rel = MyDoc.rel /\ doc.status = MyDoc.status /\ doc.rows = MyDoc.rows /\ Rest(doc) = Rest(MyDoc)
  <2>1. MyDoc \in Doc
    BY <1>1 DEF MyDoc
  <2>2. reg \in {"none", "prepared", "registered", "failed"}
    OBVIOUS
  <2>3. QED BY <2>1, <2>2, Renewed, Zenon
<1> HIDE DEF doc
<1>3. DocSound(doc) /\ Follows(journal[cmd.w], doc)
  BY <1>1, <1>2 DEF DocSound, Sound, Follows, MyDoc
<1>4. QED BY <1>1, <1>2, <1>3, CommitAllowed DEF doc

\* What a cleanup may delete is a row of another journal or a cache as it stands.
LEMMA DiscoveredSound ==
  ASSUME UpgradeInv, NEW w \in Work, NEW rel \in Releases, NEW rows \in Discovered(w, rel)
  PROVE  /\ rows \in [Releases -> Row \cup {None}]
         /\ \A r \in Releases : rows[r] # None => rows[r].st = "pending" /\ rows[r].ino <= ino[r]
<1> USE DistinctAssumption, CleanupAssumption
<1>1. ASSUME NEW r \in Releases, NEW row \in Carried(w, r)
      PROVE  row \in Row /\ row.st = "pending" /\ row.ino <= ino[r]
  <2>1. PICK v \in Work : journal[v] # None /\ journal[v].rows[r] # None /\ row = [journal[v].rows[r] EXCEPT !.st = "pending"]
    BY <1>1 DEF Carried
  <2>2. journal[v] \in Doc /\ DocSound(journal[v])
    BY <2>1 DEF UpgradeInv, Typed, JournalSound
  <2>3. journal[v].rows[r] \in Row /\ journal[v].rows[r].ino <= ino[r]
    BY <2>1, <2>2 DEF Doc, DocSound, Sound
  <2>4. QED BY <2>1, <2>3 DEF Row
<1>2. ASSUME NEW r \in Releases, NEW row \in Proved(w, r)
      PROVE  row \in Row /\ row.st = "pending" /\ row.ino <= ino[r]
  <2>1. PICK g \in Registrations : row = [st |-> "pending", ino |-> ino[r], by |-> g, stale |-> FALSE]
    BY <1>2 DEF Proved
  <2>2. ino[r] \in 0..MaxIno
    BY DEF UpgradeInv, Typed
  <2>3. QED BY <2>1, <2>2 DEF Row
<1>3. \A r \in Releases : Options(w, rel, r) \subseteq {row \in Row : row.st = "pending" /\ row.ino <= ino[r]} \cup {None}
  BY <1>1, <1>2 DEF Options
<1>4. QED BY <1>3 DEF Discovered

LEMMA IntentWrites ==
  ASSUME UpgradeInv, At("intent"), \A v \in Work : temp[v] = None,
         NEW rows \in Discovered(cmd.w, cmd.rel), cmd.rel \in Releases, NEW retired \in SUBSET Registrations, NEW next,
         Commit(cmd.w, [MyDoc EXCEPT !.status = "cleanup", !.rows = rows, !.retired = retired], next)
  PROVE  /\ JournalsMove
         /\ LET doc == [MyDoc EXCEPT !.status = "cleanup", !.rows = rows, !.retired = retired]
            IN doc \in Doc /\ doc.status = "cleanup"
<1> USE DistinctAssumption
<1>1. /\ cmd.w \in Work /\ MyDoc # None /\ MyDoc \in Doc /\ MyDoc.status = "awaiting"
  BY DEF At, UpgradeInv, PlaceSound, Typed, Awaiting, MyDoc
<1>2. rows \in [Releases -> Row \cup {None}] /\ \A r \in Releases : rows[r] # None => rows[r].st = "pending" /\ rows[r].ino <= ino[r]
  BY <1>1, DiscoveredSound
<1> DEFINE doc == [MyDoc EXCEPT !.status = "cleanup", !.rows = rows, !.retired = retired]
<1>3. /\ doc \in Doc /\ doc.rel = MyDoc.rel /\ doc.status = "cleanup" /\ doc.rows = rows
  BY <1>1, <1>2 DEF Doc
<1> HIDE DEF doc
<1>4. DocSound(doc) /\ Follows(MyDoc, doc)
  BY <1>1, <1>2, <1>3 DEF DocSound, Sound, Follows
<1>5. Commit(cmd.w, doc, next)
  BY DEF doc
<1>6. JournalsMove
  BY <1>1, <1>3, <1>4, <1>5, CommitAllowed DEF MyDoc
<1>7. QED BY <1>3, <1>6 DEF doc

\* What became of a candidate goes into its row.
Noted(doc, r, st, new) ==
    /\ new \in Doc /\ new.rel = doc.rel /\ new.status = doc.status /\ new.reg = doc.reg
    /\ new.retired = doc.retired
    /\ new.rows[r] \in Row /\ doc.rows[r] \in Row /\ new.rows[r] = [doc.rows[r] EXCEPT !.st = st]
    /\ \A s \in Releases \ {r} : new.rows[s] = doc.rows[s]
    /\ Rest(doc) \ {r} \subseteq Rest(new)

LEMMA RowWritten ==
  ASSUME NEW doc \in Doc, NEW r \in Rest(doc), NEW st \in {"deferred", "conflict", "removed"}
  PROVE  Noted(doc, r, st, [doc EXCEPT !.rows[r].st = st])
<1>1. r \in Releases /\ doc.rows[r] \in Row /\ doc.rows \in [Releases -> Row \cup {None}]
  BY DEF Rest, Doc
<1>2. [doc.rows[r] EXCEPT !.st = st] \in Row
  BY <1>1 DEF Row
<1> DEFINE rows == [doc.rows EXCEPT ![r].st = st]
<1>3. /\ rows \in [Releases -> Row \cup {None}] /\ rows[r] = [doc.rows[r] EXCEPT !.st = st]
      /\ \A s \in Releases \ {r} : rows[s] = doc.rows[s]
  BY <1>1, <1>2
<1> HIDE DEF rows
<1> DEFINE new == [doc EXCEPT !.rows = rows]
<1>4. /\ new \in Doc /\ new.rel = doc.rel /\ new.status = doc.status /\ new.reg = doc.reg /\ new.retired = doc.retired
      /\ new.rows = rows
  BY <1>3 DEF Doc
<1> HIDE DEF new
<1>5. [doc EXCEPT !.rows[r].st = st] = new
  BY DEF new, rows, Doc
<1>6. Rest(doc) \ {r} \subseteq Rest(new)
  BY <1>3, <1>4 DEF Rest
<1>7. Noted(doc, r, st, new)
  BY <1>1, <1>2, <1>3, <1>4, <1>6 DEF Noted
<1>8. QED BY <1>5, <1>7

LEMMA RecordWrites ==
  ASSUME UpgradeInv, Record
  PROVE  /\ JournalsMove
         /\ LET doc == [MyDoc EXCEPT !.rows[cmd.row].st = cmd.st]
            IN doc \in Doc /\ doc.status = "cleanup" /\ cmd.todo \ {cmd.row} \subseteq Rest(doc)
<1> USE DistinctAssumption
<1>1. /\ cmd.w \in Work /\ MyDoc # None /\ MyDoc \in Doc /\ MyDoc.status = "cleanup" /\ temp[cmd.w] = None
      /\ cmd.row \in cmd.todo /\ cmd.todo \subseteq Rest(MyDoc) /\ cmd.st \in {"deferred", "conflict", "removed"}
      /\ cmd.st = "removed" => cache[cmd.row] = "absent"
  BY DEF Record, At, UpgradeInv, PlaceSound, Typed, Deleting, MyDoc
<1> DEFINE doc == [MyDoc EXCEPT !.rows[cmd.row].st = cmd.st]
<1>2. Noted(MyDoc, cmd.row, cmd.st, doc)
  <2>1. cmd.row \in Rest(MyDoc)
    BY <1>1
  <2>2. QED BY <1>1, <2>1, RowWritten
<1> HIDE DEF doc
<1>3. Commit(cmd.w, doc, [cmd EXCEPT !.pc = "rows", !.todo = @ \ {cmd.row}, !.row = None, !.st = "pending"])
  BY DEF Record, doc
<1>4. doc.rows[cmd.row].ino = MyDoc.rows[cmd.row].ino /\ doc.rows[cmd.row].by = MyDoc.rows[cmd.row].by
      /\ doc.rows[cmd.row].st = cmd.st /\ MyDoc.rows[cmd.row].st # "removed"
  BY <1>1, <1>2 DEF Noted, Row, Rest
<1>5. DocSound(MyDoc)
  BY <1>1 DEF UpgradeInv, JournalSound, MyDoc
<1>6. DocSound(doc)
  BY <1>1, <1>2, <1>4, <1>5 DEF Noted, DocSound, Sound
<1>7. Follows(MyDoc, doc)
  BY <1>1, <1>2, <1>4 DEF Noted, Follows, Rest
<1>8. JournalsMove
  BY <1>1, <1>2, <1>3, <1>6, <1>7, CommitAllowed DEF Noted, MyDoc
<1>9. QED BY <1>1, <1>2, <1>8 DEF Noted, doc

LEMMA Completed ==
  ASSUME UpgradeInv, NEW w \in Work, journal[w] # None, journal[w].status \in {"cleanup", "complete"},
         temp[w] = None, NEW doc \in Doc, NEW next, Commit(w, doc, next),
         doc.rel = journal[w].rel, doc.status = "complete", doc.reg = journal[w].reg,
         doc.retired = journal[w].retired, Rest(doc) = {},
         \A r \in Releases :
            IF journal[w].rows[r] = None THEN doc.rows[r] = None
            ELSE /\ doc.rows[r] # None /\ doc.rows[r].ino = journal[w].rows[r].ino
                 /\ doc.rows[r].by = journal[w].rows[r].by
                 /\ doc.rows[r].st = "removed"
                 /\ journal[w].rows[r].st # "removed" => cache[r] = "absent"
  PROVE  JournalsMove
<1> USE DistinctAssumption
<1>1. journal[w] \in Doc /\ DocSound(journal[w])
  BY DEF UpgradeInv, Typed, JournalSound
<1>2. DocSound(doc)
  BY <1>1 DEF DocSound, Sound
<1>3. Follows(journal[w], doc)
  BY <1>1 DEF Follows
<1>4. QED BY <1>2, <1>3, CommitAllowed

LEMMA FinishWrites ==
  ASSUME UpgradeInv, At("rows"), Rest(MyDoc) = {}, NEW next,
         Commit(cmd.w, [MyDoc EXCEPT !.status = "complete"], next)
  PROVE  JournalsMove
<1> USE DistinctAssumption
<1>1. /\ cmd.w \in Work /\ MyDoc # None /\ MyDoc \in Doc /\ MyDoc.status = "cleanup" /\ temp[cmd.w] = None
  BY DEF At, UpgradeInv, PlaceSound, Typed, MyDoc
<1> DEFINE doc == [MyDoc EXCEPT !.status = "complete"]
<1>2. /\ doc \in Doc /\ doc.rel = MyDoc.rel /\ doc.status = "complete" /\ doc.reg = MyDoc.reg
      /\ doc.retired = MyDoc.retired /\ doc.rows = MyDoc.rows
  BY <1>1 DEF Doc
<1> HIDE DEF doc
<1>3. Rest(doc) = {}
  BY <1>2 DEF Rest
<1>4. \A r \in Releases : MyDoc.rows[r] # None => MyDoc.rows[r].st = "removed"
  BY DEF Rest
<1>5. Commit(cmd.w, doc, next)
  BY DEF doc
<1>6. QED BY <1>1, <1>2, <1>3, <1>4, <1>5, Completed DEF MyDoc

LEMMA RetireWrites ==
  ASSUME UpgradeInv, At("retire"), NEW v \in Superseded, NEW next, Commit(v, AllRemoved(journal[v]), next)
  PROVE  JournalsMove
<1> USE DistinctAssumption
<1>1. /\ v \in Work /\ journal[v] # None /\ journal[v] \in Doc /\ journal[v].status = "cleanup"
      /\ temp[v] = None /\ \A r \in Rest(journal[v]) : cache[r] = "absent"
  BY DEF Superseded, Unsettled, UpgradeInv, Typed
<1> DEFINE doc == AllRemoved(journal[v])
           row(r) == IF journal[v].rows[r] = None THEN None ELSE [journal[v].rows[r] EXCEPT !.st = "removed"]
<1>2. \A r \in Releases : /\ journal[v].rows[r] \in Row \cup {None} /\ row(r) \in Row \cup {None}
                          /\ journal[v].rows[r] # None =>
                               /\ row(r) # None /\ row(r).st = "removed" /\ row(r).ino = journal[v].rows[r].ino
                               /\ row(r).by = journal[v].rows[r].by
                          /\ journal[v].rows[r] = None => row(r) = None
  <2> SUFFICES ASSUME NEW r \in Releases
               PROVE  /\ journal[v].rows[r] \in Row \cup {None} /\ row(r) \in Row \cup {None}
                      /\ journal[v].rows[r] # None =>
                               /\ row(r) # None /\ row(r).st = "removed" /\ row(r).ino = journal[v].rows[r].ino
                               /\ row(r).by = journal[v].rows[r].by
                      /\ journal[v].rows[r] = None => row(r) = None
    OBVIOUS
  <2>1. journal[v].rows[r] \in Row \cup {None}
    BY <1>1 DEF Doc
  <2>2. ASSUME journal[v].rows[r] # None PROVE [journal[v].rows[r] EXCEPT !.st = "removed"] \in Row
    BY <2>1, <2>2 DEF Row
  <2>3. QED BY <2>1, <2>2 DEF Row
<1>3. doc = [journal[v] EXCEPT !.status = "complete", !.rows = [r \in Releases |-> row(r)]]
  BY <1>1 DEF AllRemoved, Doc
<1> HIDE DEF doc, row
<1>4. /\ doc \in Doc /\ doc.rel = journal[v].rel /\ doc.status = "complete" /\ doc.reg = journal[v].reg
      /\ doc.retired = journal[v].retired /\ \A r \in Releases : doc.rows[r] = row(r)
  <2>1. [r \in Releases |-> row(r)] \in [Releases -> Row \cup {None}]
    BY <1>2
  <2>2. QED BY <1>1, <1>3, <2>1 DEF Doc
<1>5. Rest(doc) = {}
  BY <1>2, <1>4 DEF Rest
<1>6. \A r \in Releases : journal[v].rows[r] # None /\ journal[v].rows[r].st # "removed" => cache[r] = "absent"
  BY <1>1 DEF Rest
<1>7. Commit(v, doc, next)
  BY DEF doc
<1>8. QED BY <1>1, <1>2, <1>4, <1>5, <1>6, <1>7, Completed

\* A load with recovery publishes the copies that are newer and drops the others.
LEMMA RecoveryMoves ==
  ASSUME UpgradeInv, NEW V \in SUBSET Work, NEW docs,
         \A v \in V : ~Unreadable(v),
         \A v \in V : Newer(v) => docs[v] = temp[v].doc,
         journal' = Put({v \in V : Newer(v)}, docs),
         temp' \in [Work -> Copy \cup {None}],
         \A v \in Work : temp'[v] = IF v \in V THEN None ELSE temp[v]
  PROVE  /\ JournalsMove
         /\ \A v \in V : Alike(Newest(v), journal'[v])
<1> USE DistinctAssumption
<1> DEFINE N == {v \in V : Newer(v)}
<1>1. \A v \in Work : Newer(v) => temp[v].doc \in Doc
  BY NewestTyped DEF UpgradeInv
<1>2. /\ journal' \in [Work -> Doc \cup {None}]
      /\ \A v \in Work : Alike(IF v \in N THEN docs[v] ELSE journal[v], journal'[v])
  <2>1. N \in SUBSET Work /\ \A v \in N : docs[v] \in Doc
    BY <1>1
  <2>2. journal \in [Work -> Doc \cup {None}]
    BY DEF UpgradeInv, Typed
  <2>3. journal' = Put(N, docs)
    OBVIOUS
  <2> HIDE DEF N
  <2>4. /\ Put(N, docs) \in [Work -> Doc \cup {None}]
        /\ \A v \in Work : Alike(IF v \in N THEN docs[v] ELSE journal[v], Put(N, docs)[v])
    BY <2>1, <2>2, PutAlike
  <2>5. QED BY <2>3, <2>4
<1>3. \A v \in V : Alike(Newest(v), journal'[v])
  BY <1>2 DEF Newest
<1>4. \A v \in Work : Kept(v) \/ Dropped(v) \/ Published(v)
  BY <1>2 DEF Kept, Dropped, Published
<1>5. QED BY <1>2, <1>3, <1>4 DEF JournalsMove

LEMMA RecoverMoves ==
  ASSUME UpgradeInv, Recover
  PROVE  JournalsMove /\ (At("select") /\ cmd' # Idle => \A v \in Work : temp'[v] = None)
<1> USE DistinctAssumption
<1>1. CASE UNCHANGED <<journal, temp>> /\ cmd' = Idle
  BY <1>1 DEF JournalsMove, Kept, Alike, UpgradeInv, Typed
<1>2. CASE /\ \A w \in Work : ~Unreadable(w)
           /\ temp' = [w \in Work |-> None]
           /\ journal' = Put({w \in Work : Newer(w)}, [w \in {w \in Work : Newer(w)} |-> temp[w].doc])
  <2> DEFINE docs == [w \in {w \in Work : Newer(w)} |-> temp[w].doc]
  <2>1. \A v \in Work : Newer(v) => docs[v] = temp[v].doc
    OBVIOUS
  <2>2. journal' = Put({w \in Work : Newer(w)}, docs)
    BY <1>2
  <2> HIDE DEF docs
  <2>3. temp' \in [Work -> Copy \cup {None}] /\ \A v \in Work : temp'[v] = IF v \in Work THEN None ELSE temp[v]
    BY <1>2
  <2>4. JournalsMove
    BY <1>2, <2>1, <2>2, <2>3, RecoveryMoves
  <2>5. QED BY <2>3, <2>4
<1>3. QED BY <1>1, <1>2 DEF Recover, End

LEMMA LoadMoves ==
  ASSUME UpgradeInv, Load
  PROVE  /\ JournalsMove
         /\ cmd' # Idle => /\ cmd.w \in Work /\ temp'[cmd.w] = None /\ Newest(cmd.w) # None /\ Newest(cmd.w) \in Doc
                           /\ Alike(Newest(cmd.w), journal'[cmd.w])
<1> USE DistinctAssumption
<1>0. cmd.w \in Work
  BY DEF Load, At, UpgradeInv, PlaceSound
<1>1. CASE UNCHANGED <<journal, temp>> /\ cmd' = Idle
  BY <1>1 DEF JournalsMove, Kept, Alike, UpgradeInv, Typed
<1>2. CASE ~Unreadable(cmd.w) /\ Newest(cmd.w) # None /\ ~(UNCHANGED <<journal, temp>> /\ cmd' = Idle)
  <2> DEFINE docs == [w \in {w \in {cmd.w} : Newer(w)} |-> Newest(cmd.w)]
  <2>1. \A v \in {cmd.w} : Newer(v) => docs[v] = temp[v].doc
    BY DEF Newest
  <2>2. /\ journal' = Put({w \in {cmd.w} : Newer(w)}, docs)
        /\ temp' = [temp EXCEPT ![cmd.w] = None]
    BY <1>2 DEF Load, End
  <2> HIDE DEF docs
  <2>3. /\ temp' \in [Work -> Copy \cup {None}]
        /\ \A v \in Work : temp'[v] = IF v \in {cmd.w} THEN None ELSE temp[v]
    BY <1>0, <2>2 DEF UpgradeInv, Typed
  <2>4. JournalsMove /\ \A v \in {cmd.w} : Alike(Newest(v), journal'[v])
    <3>1. {cmd.w} \in SUBSET Work /\ \A v \in {cmd.w} : ~Unreadable(v)
      BY <1>0, <1>2
    <3>2. QED BY <2>1, <2>2, <2>3, <3>1, RecoveryMoves
  <2>5. Newest(cmd.w) \in Doc
    BY <1>0, <1>2, NewestTyped DEF UpgradeInv
  <2>6. QED BY <1>0, <1>2, <2>3, <2>4, <2>5
<1>3. QED BY <1>0, <1>1, <1>2 DEF Load, End

LEMMA JournalsStep == UpgradeInv /\ Next => JournalsMove
<1> USE DistinctAssumption
<1> SUFFICES ASSUME UpgradeInv, Next PROVE JournalsMove
  OBVIOUS
<1>1. CASE UNCHANGED <<journal, temp>>
  BY <1>1 DEF JournalsMove, Kept, Alike, UpgradeInv, Typed
<1>2. CASE Create
  BY <1>2, CreateWrites
<1>3. CASE Prepared \/ Outcome("registered", "load") \/ Outcome("failed", "idle")
  BY <1>3, OutcomeWrites DEF Prepared, Outcome, At, Preparing
<1>4. CASE Recover \/ Load
  BY <1>4, RecoverMoves, LoadMoves
<1>5. CASE Record
  BY <1>5, RecordWrites
<1>6. CASE Intent
  <2>1. CASE \E v \in Work : Unsettled(v)
    BY <1>1, <1>6, <2>1 DEF Intent
  <2>2. CASE \A v \in Work : temp[v] = None
    <3>1. PICK rows \in Discovered(cmd.w, cmd.rel) :
             LET proofs == {rows[r].by : r \in {s \in Releases : rows[s] # None}}
                 doc == [MyDoc EXCEPT !.status = "cleanup", !.rows = rows,
                            !.retired = IF proofs = {} THEN {} ELSE proofs \cup {cmd.w}]
             IN Commit(cmd.w, doc, [cmd EXCEPT !.pc = "rows", !.todo = Rest(doc)])
      BY <1>6, <2>2 DEF Intent, Unsettled
    <3>2. cmd.w \in Work /\ cmd.rel \in Releases /\ At("intent")
      BY <1>6 DEF Intent, At, UpgradeInv, PlaceSound
    <3> DEFINE proofs == {rows[r].by : r \in {s \in Releases : rows[s] # None}}
               retired == IF proofs = {} THEN {} ELSE proofs \cup {cmd.w}
    <3>3. retired \in SUBSET Registrations
      <4>1. proofs \subseteq Registrations
        BY <3>2, DiscoveredSound DEF Row
      <4>2. QED BY <3>2, <4>1 DEF Registrations, Work
    <3>4. QED BY <2>2, <3>1, <3>2, <3>3, IntentWrites
  <2>3. QED BY <2>1, <2>2 DEF Unsettled
<1>7. CASE Finish
  BY <1>1, <1>7, FinishWrites DEF Finish, End
<1>8. CASE Retire
  BY <1>1, <1>8, RetireWrites DEF Retire
<1>9. QED
  BY <1>1, <1>2, <1>3, <1>4, <1>5, <1>6, <1>7, <1>8
     DEF Next, Step, trees, world, vars, Select, Evidence, Before, PublishConfig, PublishCache, Remove, RemoveRest,
     After, Candidate, RestoreRemove, RestoreAdd, StartPrepare, StartFinalize,
     RestoreCheck, RestoreLocked, EntryStep, EntryLock, EntryRecheck, EntryExit, EntryOpen, Crash, Drift

-----------------------------------------------------------------------------
(* The commands.                                                           *)

CmdTyped(c) ==
    c \in [pc : Places, w : Registrations, rel : Releases \cup {None}, row : Releases \cup {None},
           todo : SUBSET Releases, st : {"pending", "deferred", "conflict", "removed", "idle"}]

LEMMA Numbers == Work \subseteq Registrations /\ 0 \in Registrations /\ 0 \in 0..MaxIno
<1>1. MaxWork \in Nat /\ MaxIno \in Nat
  BY CleanupAssumption
<1>2. QED BY <1>1 DEF Work, Registrations

LEMMA IdleTyped ==
  /\ CmdTyped(Idle)
  /\ Idle = [pc |-> "idle", w |-> 0, rel |-> None, row |-> None, todo |-> {}, st |-> "pending"]
BY Numbers DEF CmdTyped, Idle, Places

LEMMA IdleSound ==
  ASSUME cmd' = Idle PROVE CmdTyped(cmd') /\ PlaceSound' /\ RemovalSound'
<1>1. cmd'.pc = "idle" /\ 0 \in Registrations
  BY CleanupAssumption DEF Idle, Registrations
<1>2. QED BY <1>1 DEF CmdTyped, Idle, Places, Preparing, Deleting, Removing, Restoring, PlaceSound, RemovalSound

\* What a command knows of the journals stays so as long as it does not move.
LEMMA WaitsSound ==
  ASSUME UpgradeInv, UNCHANGED <<cmd, journal, temp, evidence, cache, ino>>,
         \A r \in Releases : cmd.pc \in Removing /\ r = cmd.row =>
            (Holders(r, ino[r]) = {} => Holders(r, ino[r])' = {})
  PROVE  CmdTyped(cmd') /\ PlaceSound' /\ RemovalSound'
<1>1. Retired' = Retired
  BY DEF Retired
<1>2. CmdTyped(cmd') /\ PlaceSound'
  BY <1>1 DEF UpgradeInv, Typed, CmdTyped, PlaceSound, Rest
<1>3. cmd.pc \in Removing => cmd.row \in Releases
  BY DEF UpgradeInv, PlaceSound, Deleting, Rest
<1>4. QED BY <1>1, <1>2, <1>3 DEF UpgradeInv, RemovalSound

\* The scripts: while a tree is being removed its lease is held exclusively.
LEMMA ScriptsStep ==
  ASSUME UpgradeInv, NEW e \in Entries, EntryStep(e) \/ \E r \in Releases : EntryOpen(e, r)
  PROVE  /\ entry' \in [Entries -> [pc : {"idle", "opened", "locked", "running"},
                                    rel : Releases \cup {None}, ino : 0..MaxIno]]
         /\ \A x \in Entries : entry'[x].pc # "idle" => entry'[x].rel \in Releases
         /\ ScriptsSound' /\ CmdTyped(cmd') /\ PlaceSound' /\ RemovalSound'
<1> USE DEF UpgradeInv
<1> 0 \in 0..MaxIno
  BY CleanupAssumption
<1>0. UNCHANGED <<config, cache, ino, lost, lease, journal, temp, evidence, cmd, restorer, faults>>
  BY DEF EntryStep, EntryOpen, EntryLock, EntryRecheck, EntryExit, EntryDone, trees
<1>1. entry[e] \in [pc : {"idle", "opened", "locked", "running"}, rel : Releases \cup {None}, ino : 0..MaxIno]
  BY DEF Typed
<1>2. ASSUME NEW new \in [pc : {"idle", "opened", "locked", "running"}, rel : Releases \cup {None}, ino : 0..MaxIno],
             entry' = [entry EXCEPT ![e] = new], new.pc # "idle" => new.rel \in Releases,
             new.pc \in {"locked", "running"} =>
                ~Exclusive(new.rel, new.ino) \/ (entry[e].pc \in {"locked", "running"} /\ entry[e].rel = new.rel /\ entry[e].ino = new.ino),
             new.pc = "running" => cache[new.rel] # "absent" /\ ino[new.rel] = new.ino
      PROVE  /\ entry' \in [Entries -> [pc : {"idle", "opened", "locked", "running"},
                                        rel : Releases \cup {None}, ino : 0..MaxIno]]
             /\ \A x \in Entries : entry'[x].pc # "idle" => entry'[x].rel \in Releases
             /\ ScriptsSound' /\ CmdTyped(cmd') /\ PlaceSound' /\ RemovalSound'
  <2>1. entry'[e] = new /\ \A x \in Entries \ {e} : entry'[x] = entry[x]
    BY <1>2 DEF Typed
  <2>2. /\ entry' \in [Entries -> [pc : {"idle", "opened", "locked", "running"},
                                   rel : Releases \cup {None}, ino : 0..MaxIno]]
        /\ \A x \in Entries : entry'[x].pc # "idle" => entry'[x].rel \in Releases
    BY <1>2, <2>1 DEF Typed
  <2>3. ScriptsSound'
    BY <1>0, <1>2, <2>1 DEF ScriptsSound
  <2>4. ASSUME NEW r \in Releases, cmd.pc \in Removing, r = cmd.row, Holders(r, ino[r]) = {}
        PROVE  Holders(r, ino[r])' = {}
    <3>1. Exclusive(r, ino[r])
      BY <2>4 DEF RemovalSound, Exclusive, Removing
    <3>2. \A x \in Entries : ~(entry[x].pc \in {"locked", "running"} /\ entry[x].rel = r /\ entry[x].ino = ino[r])
      BY <2>4 DEF Holders
    <3>3. QED BY <1>0, <1>2, <2>1, <3>1, <3>2 DEF Holders
  <2>5. QED BY <1>0, <2>2, <2>3, <2>4, WaitsSound
<1>3. CASE EntryLock(e)
  <2>1. CASE Exclusive(entry[e].rel, entry[e].ino)
    BY <1>0, <1>2, <1>3, <2>1 DEF EntryLock, EntryDone
  <2>2. CASE ~Exclusive(entry[e].rel, entry[e].ino)
    <3> DEFINE new == [entry[e] EXCEPT !.pc = "locked"]
    <3>1. entry' = [entry EXCEPT ![e] = new]
      BY <1>3, <2>2 DEF EntryLock
    <3>2. /\ new \in [pc : {"idle", "opened", "locked", "running"}, rel : Releases \cup {None}, ino : 0..MaxIno]
          /\ new.pc = "locked" /\ new.rel = entry[e].rel /\ new.ino = entry[e].ino
      BY <1>1
    <3>3. entry[e].rel \in Releases
      BY <1>3 DEF EntryLock, Typed
    <3> HIDE DEF new
    <3>4. QED BY <1>2, <2>2, <3>1, <3>2, <3>3
  <2>3. QED BY <2>1, <2>2
<1>4. CASE EntryRecheck(e) /\ SameDirectory(e) /\ entry' = [entry EXCEPT ![e].pc = "running"]
  <2> DEFINE new == [entry[e] EXCEPT !.pc = "running"]
  <2>1. entry' = [entry EXCEPT ![e] = new] /\ entry[e].pc = "locked"
    BY <1>4 DEF EntryRecheck
  <2>2. /\ new \in [pc : {"idle", "opened", "locked", "running"}, rel : Releases \cup {None}, ino : 0..MaxIno]
        /\ new.pc = "running" /\ new.rel = entry[e].rel /\ new.ino = entry[e].ino
    BY <1>1
  <2>3. entry[e].rel \in Releases
    BY <2>1 DEF Typed
  <2> HIDE DEF new
  <2>4. QED BY <1>2, <1>4, <2>1, <2>2, <2>3 DEF SameDirectory
<1>5. CASE EntryDone(e)
  BY <1>0, <1>2, <1>5 DEF EntryDone
<1>6. ASSUME NEW r \in Releases, EntryOpen(e, r)
      PROVE  entry' = [entry EXCEPT ![e] = [pc |-> "opened", rel |-> r, ino |-> ino[r]]] /\ ino[r] \in 0..MaxIno
  BY <1>6 DEF EntryOpen, Typed
<1>7. CASE \E r \in Releases : EntryOpen(e, r)
  BY <1>2, <1>6, <1>7
<1>8. QED BY <1>3, <1>4, <1>5, <1>7 DEF EntryStep, EntryRecheck, EntryExit

\* A command goes on to its next place.
LEMMA GoesOn ==
  ASSUME UpgradeInv, NEW l \in Places, Goto(l)
  PROVE  /\ cmd' = [cmd EXCEPT !.pc = l] /\ cmd'.pc = l /\ cmd'.w = cmd.w /\ cmd'.rel = cmd.rel
         /\ cmd'.row = cmd.row /\ cmd'.todo = cmd.todo /\ cmd'.st = cmd.st /\ CmdTyped(cmd')
BY DEF Goto, UpgradeInv, Typed, CmdTyped

LEMMA PrepareSound ==
  ASSUME UpgradeInv,
         \/ \E r \in Releases : StartPrepare(r)
         \/ Recover \/ Select \/ Create \/ Prepared \/ Evidence \/ Before
         \/ PublishCache \/ PublishConfig \/ After \/ Outcome("registered", "load") \/ Outcome("failed", "idle")
  PROVE  CmdTyped(cmd') /\ PlaceSound' /\ RemovalSound'
<1> USE CleanupAssumption, DistinctAssumption DEF UpgradeInv
<1>0. CASE cmd' = Idle
  BY <1>0, IdleSound
<1> USE DEF Places, Preparing, Deleting, Removing, Restoring
<1>1. ASSUME NEW r \in Releases, StartPrepare(r) PROVE CmdTyped(cmd') /\ PlaceSound' /\ RemovalSound'
  <2>1. cmd'.pc = "select" /\ cmd'.rel = r /\ CmdTyped(cmd')
    BY <1>1, IdleTyped DEF StartPrepare, CmdTyped
  <2>2. QED BY <2>1 DEF PlaceSound, RemovalSound
<1>2. CASE Recover /\ cmd' # Idle
  <2>1. cmd'.pc = "choose" /\ cmd'.rel = cmd.rel /\ CmdTyped(cmd')
    BY <1>2, GoesOn DEF Recover, End
  <2>2. \A v \in Work : temp'[v] = None
    BY <1>2, RecoverMoves DEF Recover
  <2>3. cmd.rel \in Releases
    BY <1>2 DEF Recover, At, PlaceSound
  <2>4. QED BY <2>1, <2>2, <2>3 DEF PlaceSound, RemovalSound
<1>3. CASE Select /\ cmd' # Idle
  <2>1. cmd.rel \in Releases /\ \A v \in Work : temp[v] = None /\ Newest(v) = journal[v]
    BY <1>3 DEF Select, At, PlaceSound, Newest, Newer, Unsettled
  <2>2. ASSUME NEW w \in Matching(cmd.rel),
               cmd' = [cmd EXCEPT !.w = w, !.pc =
                        IF journal[w].status = "awaiting" /\ journal[w].reg # "registered" THEN "prepared" ELSE "load"]
        PROVE  CmdTyped(cmd') /\ PlaceSound' /\ RemovalSound'
    <3>1. w \in Work /\ w \in Registrations /\ journal[w] # None /\ UNCHANGED <<journal, temp>>
      BY <1>3, <2>1, <2>2, Numbers DEF Matching, Select
    <3>2. /\ cmd'.w = w /\ cmd'.rel = cmd.rel /\ cmd'.pc \in {"prepared", "load"} /\ (cmd'.pc = "prepared" => journal[w].status = "awaiting")
          /\ CmdTyped(cmd')
      BY <2>2, <3>1 DEF Typed, CmdTyped
    <3>3. QED BY <2>1, <3>1, <3>2 DEF PlaceSound, RemovalSound, Awaiting
  <2>3. ASSUME NEW w \in Fresh, Matching(cmd.rel) = {}, cmd' = [cmd EXCEPT !.w = w, !.pc = "create"]
        PROVE  CmdTyped(cmd') /\ PlaceSound' /\ RemovalSound'
    <3>1. w \in Work /\ w \in Registrations /\ journal[w] = None /\ UNCHANGED <<journal, temp>>
      BY <1>3, <2>3, Numbers DEF Fresh, Known, Select
    <3>2. cmd'.w = w /\ cmd'.pc = "create" /\ cmd'.rel = cmd.rel /\ CmdTyped(cmd')
      BY <2>3, <3>1 DEF Typed, CmdTyped
    <3>3. \A v \in Work : Live(journal[v]) => journal[v].rel # cmd.rel
      BY <2>1, <2>3 DEF Matching, Live
    <3>4. QED BY <2>1, <3>1, <3>2, <3>3 DEF PlaceSound, RemovalSound
  <2>4. QED BY <1>3, <2>2, <2>3 DEF Select, End
<1>4. ASSUME NEW doc \in Doc, NEW l \in Preparing \cup {"load"}, Commit(cmd.w, doc, [cmd EXCEPT !.pc = l]), cmd' # Idle,
             doc.status = "awaiting" \/ l = "load", cmd.w \in Work, cmd.rel \in Releases, \A v \in Work : temp[v] = None,
             l \in {"prepared", "evidence", "load"}
      PROVE  CmdTyped(cmd') /\ PlaceSound' /\ RemovalSound'
  <2>1. cmd' = [cmd EXCEPT !.pc = l] /\ temp' = temp /\ Alike(doc, journal'[cmd.w])
    BY <1>4, CommitMoves
  <2>2. cmd'.pc = l /\ cmd'.w = cmd.w /\ cmd'.rel = cmd.rel /\ CmdTyped(cmd')
    BY <2>1 DEF Typed, CmdTyped
  <2>3. journal'[cmd.w] # None /\ journal'[cmd.w].status = doc.status
    BY <1>4, <2>1, AlikeFacts
  <2>4. QED BY <1>4, <2>1, <2>2, <2>3 DEF PlaceSound, RemovalSound, Awaiting
<1>5. CASE Create /\ cmd' # Idle
  <2> DEFINE doc == [rel |-> cmd.rel, status |-> "awaiting", reg |-> "none", rows |-> NoRows, retired |-> {}]
  <2>1. cmd.w \in Work /\ cmd.rel \in Releases /\ \A v \in Work : temp[v] = None
    BY <1>5 DEF Create, At, PlaceSound
  <2>2. doc \in Doc /\ doc.status = "awaiting"
    BY <2>1 DEF Doc, NoRows
  <2> HIDE DEF doc
  <2>3. Commit(cmd.w, doc, [cmd EXCEPT !.pc = "prepared"])
    BY <1>5 DEF Create, doc
  <2>4. QED BY <1>4, <1>5, <2>1, <2>2, <2>3
<1>6. CASE (Prepared \/ Outcome("registered", "load") \/ Outcome("failed", "idle")) /\ cmd' # Idle
  <2>1. /\ cmd.w \in Work /\ (\A v \in Work : temp[v] = None) /\ MyDoc \in Doc /\ MyDoc.status = "awaiting"
        /\ cmd.rel \in Releases
    BY <1>6 DEF Prepared, Outcome, At, PlaceSound, Awaiting, Typed, MyDoc
  <2>2. \A reg \in {"prepared", "registered", "failed"} :
           [MyDoc EXCEPT !.reg = reg] \in Doc /\ [MyDoc EXCEPT !.reg = reg].status = "awaiting"
    BY <2>1 DEF Doc
  <2>3. CASE Prepared
    <3>1. Commit(cmd.w, [MyDoc EXCEPT !.reg = "prepared"], [cmd EXCEPT !.pc = "evidence"])
      BY <2>3 DEF Prepared
    <3>2. QED BY <1>4, <1>6, <2>1, <2>2, <3>1
  <2>4. CASE Outcome("registered", "load")
    <3>1. Commit(cmd.w, [MyDoc EXCEPT !.reg = "registered"], [cmd EXCEPT !.pc = "load"])
      BY <2>4 DEF Outcome
    <3>2. QED BY <1>4, <1>6, <2>1, <2>2, <3>1
  <2>5. CASE Outcome("failed", "idle")
    <3>1. Commit(cmd.w, [MyDoc EXCEPT !.reg = "failed"], Idle)
      BY <2>5 DEF Outcome
    <3>2. QED BY <1>6, <2>1, <2>2, <3>1, CommitMoves
  <2>6. QED BY <1>6, <2>3, <2>4, <2>5
<1>7. CASE Evidence \/ Before \/ PublishCache \/ PublishConfig \/ After
  <2>1. /\ UNCHANGED <<journal, temp>> /\ cmd.w \in Work /\ Awaiting(journal[cmd.w])
        /\ \A v \in Work : temp[v] = None
    BY <1>7 DEF Evidence, Before, PublishCache, PublishConfig, After, At, PlaceSound
  <2>2. PICK l \in Preparing : Goto(l)
    BY <1>7 DEF Evidence, Before, PublishCache, PublishConfig, After
  <2>3. cmd'.pc = l /\ cmd'.w = cmd.w /\ cmd'.rel = cmd.rel /\ CmdTyped(cmd')
    BY <2>2, GoesOn
  <2>4. cmd.w \in Registrations /\ evidence \in [Registrations -> Evidenced \cup {None}] /\ config \in Releases \cup {None}
        /\ cmd.rel \in Releases
    BY <1>7, <2>1, Numbers DEF Typed, PlaceSound, At, Evidence, Before, PublishCache, PublishConfig, After
  <2>5. l \in {"before", "cache", "config", "after"} => evidence'[cmd.w] # None
    <3>1. [before |-> Missing, after |-> Missing] \in Evidenced
      BY DEF Evidenced
    <3>2. CASE Evidence
      BY <2>4, <3>1, <3>2 DEF Evidence
    <3>3. CASE Before
      <4>1. evidence[cmd.w] \in Evidenced
        BY <2>4, <3>3 DEF Before, At, PlaceSound
      <4>2. [evidence[cmd.w] EXCEPT !.before = config] \in Evidenced
        BY <2>4, <4>1 DEF Evidenced
      <4>3. evidence'[cmd.w] = [evidence[cmd.w] EXCEPT !.before = config]
        BY <2>4, <3>3 DEF Before
      <4>4. QED BY <4>2, <4>3
    <3>4. CASE PublishCache \/ PublishConfig
      BY <3>4 DEF PublishCache, PublishConfig, At, PlaceSound, world
    <3>5. CASE After
      BY <2>2, <2>3, <3>5, GoesOn DEF After
    <3>6. QED BY <1>7, <3>2, <3>3, <3>4, <3>5
  <2>6. QED BY <2>1, <2>3, <2>4, <2>5 DEF PlaceSound, RemovalSound
<1>8. QED BY <1>0, <1>1, <1>2, <1>3, <1>5, <1>6, <1>7

LEMMA FinalizeSound ==
  ASSUME UpgradeInv,
         \/ \E w \in Work : StartFinalize(w)
         \/ Load \/ Intent \/ Record \/ Finish \/ Retire
  PROVE  CmdTyped(cmd') /\ PlaceSound' /\ RemovalSound'
<1> USE CleanupAssumption, DistinctAssumption DEF UpgradeInv
<1>0. CASE cmd' = Idle
  BY <1>0, IdleSound
<1> USE DEF Places, Preparing, Deleting, Removing, Restoring
<1>1. ASSUME NEW w \in Work, StartFinalize(w) PROVE CmdTyped(cmd') /\ PlaceSound' /\ RemovalSound'
  <2>1. cmd'.pc = "load" /\ cmd'.w = w /\ CmdTyped(cmd')
    BY <1>1, IdleTyped, Numbers DEF StartFinalize, CmdTyped
  <2>2. QED BY <2>1 DEF PlaceSound, RemovalSound
<1>2. CASE Load /\ cmd' # Idle
  <2> DEFINE doc == Newest(cmd.w)
             pc == CASE doc.status = "complete" -> "retire" [] doc.status = "awaiting" -> "intent" [] OTHER -> "rows"
  <2>1. /\ cmd.w \in Work /\ temp'[cmd.w] = None /\ doc \in Doc /\ Alike(doc, journal'[cmd.w])
    BY <1>2, LoadMoves
  <2>2. cmd' = [cmd EXCEPT !.rel = doc.rel, !.todo = Rest(doc), !.pc = pc]
    BY <1>2 DEF Load, End
  <2> HIDE DEF doc
  <2>3. doc.rel \in Releases /\ Rest(doc) \subseteq Releases /\ doc.status \in {"awaiting", "cleanup", "complete"}
    BY <2>1 DEF Doc, Rest
  <2>4. /\ cmd'.w = cmd.w /\ cmd'.rel = doc.rel /\ cmd'.todo = Rest(doc) /\ cmd'.pc = pc /\ CmdTyped(cmd')
    <3>1. pc \in Places
      OBVIOUS
    <3> HIDE DEF pc
    <3>2. QED BY <2>2, <2>3, <3>1 DEF Typed, CmdTyped
  <2>5. /\ journal'[cmd.w] # None /\ journal'[cmd.w].status = doc.status /\ Rest(journal'[cmd.w]) = Rest(doc)
    BY <2>1, AlikeFacts
  <2>6. Rest(journal[cmd.w])' = Rest(journal'[cmd.w])
    BY <2>4 DEF Rest
  <2>7. QED BY <2>1, <2>3, <2>4, <2>5, <2>6 DEF PlaceSound, RemovalSound, Awaiting
<1>3. ASSUME NEW doc \in Doc, NEW next, Commit(cmd.w, doc, next), cmd' # Idle, cmd.w \in Work, temp[cmd.w] = None,
             doc.status = "cleanup", CmdTyped(next), next.pc = "rows", next.w = cmd.w, next.todo \subseteq Rest(doc)
      PROVE  CmdTyped(cmd') /\ PlaceSound' /\ RemovalSound'
  <2>1. cmd' = next /\ temp' = temp /\ Alike(doc, journal'[cmd.w])
    BY <1>3, CommitMoves
  <2>2. journal'[cmd.w] # None /\ journal'[cmd.w].status = doc.status /\ Rest(journal'[cmd.w]) = Rest(doc)
    BY <1>3, <2>1, AlikeFacts
  <2>3. Rest(journal[cmd.w])' = Rest(journal'[cmd.w])
    BY <1>3, <2>1 DEF Rest
  <2>4. cmd'.pc = "rows" /\ cmd'.w = cmd.w /\ cmd'.todo = next.todo /\ CmdTyped(cmd')
    BY <1>3, <2>1
  <2>5. QED BY <1>3, <2>1, <2>2, <2>3, <2>4 DEF PlaceSound, RemovalSound
<1>4. CASE Intent /\ cmd' # Idle
  <2>1. \A v \in Work : temp[v] = None
    BY <1>4 DEF Intent, Unsettled, End
  <2>2. cmd.w \in Work /\ cmd.rel \in Releases /\ At("intent")
    BY <1>4 DEF Intent, At, PlaceSound
  <2>3. PICK rows \in Discovered(cmd.w, cmd.rel) :
           LET proofs == {rows[r].by : r \in {s \in Releases : rows[s] # None}}
               doc == [MyDoc EXCEPT !.status = "cleanup", !.rows = rows,
                          !.retired = IF proofs = {} THEN {} ELSE proofs \cup {cmd.w}]
           IN Commit(cmd.w, doc, [cmd EXCEPT !.pc = "rows", !.todo = Rest(doc)])
    BY <1>4, <2>1 DEF Intent, Unsettled
  <2> DEFINE proofs == {rows[r].by : r \in {s \in Releases : rows[s] # None}}
             retired == IF proofs = {} THEN {} ELSE proofs \cup {cmd.w}
             doc == [MyDoc EXCEPT !.status = "cleanup", !.rows = rows, !.retired = retired]
             next == [cmd EXCEPT !.pc = "rows", !.todo = Rest(doc)]
  <2>4. retired \in SUBSET Registrations
    <3>1. proofs \subseteq Registrations
      BY <2>2, DiscoveredSound DEF Row
    <3>2. QED BY <2>2, <3>1, Numbers
  <2>5. Commit(cmd.w, doc, next)
    BY <2>3
  <2>6. doc \in Doc /\ doc.status = "cleanup"
    <3> HIDE DEF retired, next
    <3>1. QED BY <2>1, <2>2, <2>4, <2>5, IntentWrites
  <2> HIDE DEF doc
  <2>7. next.pc = "rows" /\ next.w = cmd.w /\ next.todo = Rest(doc) /\ CmdTyped(next)
    BY DEF Typed, CmdTyped, Rest
  <2> HIDE DEF next
  <2>8. QED BY <1>3, <1>4, <2>1, <2>2, <2>5, <2>6, <2>7
<1>5. CASE Record /\ cmd' # Idle
  <2> DEFINE doc == [MyDoc EXCEPT !.rows[cmd.row].st = cmd.st]
             next == [cmd EXCEPT !.pc = "rows", !.todo = @ \ {cmd.row}, !.row = None, !.st = "pending"]
  <2>1. doc \in Doc /\ doc.status = "cleanup" /\ cmd.todo \ {cmd.row} \subseteq Rest(doc)
    BY <1>5, RecordWrites
  <2>2. cmd.w \in Work /\ temp[cmd.w] = None
    BY <1>5 DEF Record, At, PlaceSound
  <2>3. Commit(cmd.w, doc, next)
    BY <1>5 DEF Record
  <2> HIDE DEF doc
  <2>4. next.pc = "rows" /\ next.w = cmd.w /\ next.todo = cmd.todo \ {cmd.row} /\ CmdTyped(next)
    BY DEF Typed, CmdTyped
  <2> HIDE DEF next
  <2>5. QED BY <1>3, <1>5, <2>1, <2>2, <2>3, <2>4
<1>6. CASE Finish /\ cmd' # Idle
  <2>1. /\ cmd.w \in Work /\ temp[cmd.w] = None /\ journal[cmd.w] # None /\ MyDoc \in Doc
    BY <1>6 DEF Finish, At, PlaceSound, MyDoc, Typed
  <2>2. /\ cmd' = [cmd EXCEPT !.pc = "retire"] /\ temp' = temp /\ journal'[cmd.w] # None
    <3>1. CASE Goto("retire") /\ UNCHANGED <<journal, temp>>
      BY <2>1, <3>1 DEF Goto
    <3>2. CASE Commit(cmd.w, [MyDoc EXCEPT !.status = "complete"], [cmd EXCEPT !.pc = "retire"])
      <4> DEFINE doc == [MyDoc EXCEPT !.status = "complete"]
      <4>1. doc \in Doc
        BY <2>1 DEF Doc
      <4> HIDE DEF doc
      <4>2. Commit(cmd.w, doc, [cmd EXCEPT !.pc = "retire"])
        BY <3>2 DEF doc
      <4>3. cmd' = [cmd EXCEPT !.pc = "retire"] /\ temp' = temp /\ Alike(doc, journal'[cmd.w])
        BY <1>6, <2>1, <4>1, <4>2, CommitMoves
      <4>4. QED BY <4>1, <4>3, AlikeFacts
    <3>3. QED BY <1>6, <3>1, <3>2 DEF Finish, End
  <2>3. cmd'.pc = "retire" /\ cmd'.w = cmd.w /\ CmdTyped(cmd')
    BY <2>2 DEF Typed, CmdTyped
  <2>4. QED BY <2>1, <2>2, <2>3 DEF PlaceSound, RemovalSound
<1>7. CASE Retire /\ cmd' # Idle
  <2>1. /\ cmd.w \in Work /\ temp[cmd.w] = None /\ journal[cmd.w] # None /\ cmd.pc = "retire"
    BY <1>7 DEF Retire, At, PlaceSound
  <2>2. PICK v \in Superseded : Commit(v, AllRemoved(journal[v]), cmd)
    BY <1>7 DEF Retire, End
  <2>3. v \in Work \ {cmd.w} /\ AllRemoved(journal[v]) \in Doc
    <3>1. v \in Work \ {cmd.w} /\ journal[v] \in Doc
      BY <2>2 DEF Superseded, Typed
    <3>2. ASSUME NEW r \in Releases, journal[v].rows[r] # None
          PROVE  [journal[v].rows[r] EXCEPT !.st = "removed"] \in Row
      <4>1. journal[v].rows[r] \in Row
        BY <3>1, <3>2 DEF Doc
      <4>2. QED BY <4>1 DEF Row
    <3> DEFINE rows == [r \in Releases |-> IF journal[v].rows[r] = None THEN None
                                           ELSE [journal[v].rows[r] EXCEPT !.st = "removed"]]
    <3>3. rows \in [Releases -> Row \cup {None}]
      BY <3>2
    <3>4. AllRemoved(journal[v]) = [journal[v] EXCEPT !.status = "complete", !.rows = rows]
      BY <3>1 DEF AllRemoved, Doc
    <3> HIDE DEF rows
    <3>5. QED BY <3>1, <3>3, <3>4 DEF Doc
  <2>4. cmd' = cmd /\ temp' = temp /\ Kept(cmd.w)
    BY <1>7, <2>1, <2>2, <2>3, CommitMoves
  <2>5. journal'[cmd.w] # None
    BY <2>1, <2>4 DEF Kept, Alike
  <2>6. QED BY <2>1, <2>4, <2>5 DEF PlaceSound, RemovalSound, Typed, CmdTyped
<1>8. QED BY <1>0, <1>1, <1>2, <1>4, <1>5, <1>6, <1>7

LEMMA RemoveSound ==
  ASSUME UpgradeInv, (\E r \in Releases : Candidate(r)) \/ Remove \/ RemoveRest
  PROVE  CmdTyped(cmd') /\ PlaceSound' /\ RemovalSound'
<1> USE CleanupAssumption, DistinctAssumption DEF UpgradeInv
<1>0. CASE cmd' = Idle
  BY <1>0, IdleSound
<1> USE DEF Places, Preparing, Deleting, Removing, Restoring
<1>1. /\ UNCHANGED <<journal, temp, ino, entry, evidence>> /\ cmd.w \in Work /\ MyDoc # None /\ MyDoc \in Doc /\ MyDoc.status = "cleanup"
      /\ cmd.todo \subseteq Rest(MyDoc)
  BY DEF Candidate, Remove, RemoveRest, At, PlaceSound, MyDoc, world, trees, Typed
<1>2. Retired' = Retired /\ Rest(MyDoc)' = Rest(journal[cmd'.w])
  BY <1>1 DEF Retired, Rest, MyDoc
<1>3. ASSUME NEW r \in Releases, Candidate(r), cmd' # Idle PROVE CmdTyped(cmd') /\ PlaceSound' /\ RemovalSound'
  <2> DEFINE verdict == Verdict(r, MyDoc.rows[r])
  <2>1. /\ r \in cmd.todo /\ UNCHANGED cache /\ (\A v \in Work : temp[v] = None)
        /\ cmd' = [cmd EXCEPT !.row = r, !.st = verdict, !.pc = IF verdict = "idle" THEN "remove" ELSE "record"]
    BY <1>3 DEF Candidate, End, Unsettled, trees
  <2>2. /\ verdict \in {"deferred", "conflict", "removed", "idle"}
        /\ verdict = "removed" => cache[r] = "absent"
        /\ verdict = "idle" => /\ r \notin Protected(cmd.w) /\ cache[r] # "absent"
                               /\ LeaseFree(r, MyDoc.rows[r].ino) /\ ino[r] = MyDoc.rows[r].ino
    BY DEF Verdict
  <2> HIDE DEF verdict
  <2>3. /\ cmd'.w = cmd.w /\ cmd'.row = r /\ cmd'.st = verdict /\ cmd'.todo = cmd.todo
        /\ cmd'.pc = (IF verdict = "idle" THEN "remove" ELSE "record") /\ CmdTyped(cmd')
    <3>1. CASE verdict = "idle"
      BY ZenonT(60), <2>1, <3>1 DEF Typed, CmdTyped
    <3>2. CASE verdict # "idle"
      BY ZenonT(60), <2>1, <2>2, <3>2 DEF Typed, CmdTyped
    <3>3. QED BY <3>1, <3>2
  <2>4. PlaceSound'
    BY <1>1, <1>2, <2>1, <2>2, <2>3 DEF PlaceSound, MyDoc
  <2>5. ASSUME verdict = "idle", NEW g \in Registrations, evidence[g] # None, evidence[g].before = r
        PROVE  g \in Retired
    BY <2>2, <2>5 DEF Protected
  <2>6. verdict = "idle" => Holders(r, ino[r]) = {} /\ Holders(r, ino[r])' = Holders(r, ino[r])
    BY <1>1, <2>2 DEF LeaseFree, Holders
  <2>7. RemovalSound'
    BY <1>1, <1>2, <2>1, <2>2, <2>3, <2>5, <2>6 DEF RemovalSound, MyDoc, Holders
  <2>8. QED BY <2>3, <2>4, <2>7
<1>4. CASE Remove
  <2>1. /\ cmd.pc = "remove" /\ cmd.row \in cmd.todo /\ cmd.row \in Releases /\ \A v \in Work : temp[v] = None
    BY <1>1, <1>4 DEF Remove, At, PlaceSound, Rest
  <2>2. /\ cache[cmd.row] # "absent" /\ ino[cmd.row] = MyDoc.rows[cmd.row].ino /\ Holders(cmd.row, ino[cmd.row]) = {}
    BY <2>1 DEF RemovalSound, MyDoc
  <2>3. CASE cache' = [cache EXCEPT ![cmd.row] = "part"] /\ Goto("rest")
    <3>1. /\ cmd'.pc = "rest" /\ cmd'.w = cmd.w /\ cmd'.row = cmd.row /\ cmd'.todo = cmd.todo /\ CmdTyped(cmd')
      BY <2>3, GoesOn
    <3>2. cache'[cmd.row] = "part"
      BY <2>1, <2>3 DEF Typed
    <3>3. PlaceSound'
      BY <1>1, <1>2, <2>1, <3>1 DEF PlaceSound, MyDoc
    <3>4. RemovalSound'
      BY <1>1, <2>2, <3>1, <3>2 DEF RemovalSound, Holders, MyDoc
    <3>5. QED BY <3>1, <3>3, <3>4
  <2>4. CASE UNCHANGED cache /\ cmd' = [cmd EXCEPT !.pc = "record", !.st = "conflict"]
    <3>1. /\ cmd'.pc = "record" /\ cmd'.w = cmd.w /\ cmd'.row = cmd.row /\ cmd'.todo = cmd.todo /\ cmd'.st = "conflict"
          /\ CmdTyped(cmd')
      BY <2>4 DEF Typed, CmdTyped
    <3>2. QED BY <1>1, <1>2, <2>1, <3>1 DEF PlaceSound, RemovalSound, MyDoc
  <2>5. QED BY <1>4, <2>3, <2>4 DEF Remove
<1>5. CASE RemoveRest
  <2>1. /\ cmd.pc = "rest" /\ cmd.row \in cmd.todo /\ cmd.row \in Releases /\ \A v \in Work : temp[v] = None
    BY <1>1, <1>5 DEF RemoveRest, At, PlaceSound, Rest
  <2>2. /\ cmd'.pc = "record" /\ cmd'.w = cmd.w /\ cmd'.row = cmd.row /\ cmd'.todo = cmd.todo
        /\ cmd'.st \in {"removed", "conflict"} /\ CmdTyped(cmd')
    BY <1>5 DEF RemoveRest, Typed, CmdTyped
  <2>3. cache'[cmd.row] = "absent"
    BY <1>5, <2>1 DEF RemoveRest, Typed
  <2>4. QED BY <1>1, <1>2, <2>1, <2>2, <2>3 DEF PlaceSound, RemovalSound, MyDoc
<1>6. QED BY <1>0, <1>3, <1>4, <1>5

LEMMA RestoreSound ==
  ASSUME UpgradeInv, (\E g \in Registrations : RestoreLocked(g)) \/ RestoreRemove \/ RestoreAdd
  PROVE  CmdTyped(cmd') /\ PlaceSound' /\ RemovalSound'
<1> USE CleanupAssumption, DistinctAssumption DEF UpgradeInv
<1>0. CASE cmd' = Idle
  BY <1>0, IdleSound
<1> USE DEF Places, Preparing, Deleting, Removing, Restoring
<1>1. ASSUME NEW g \in Registrations, RestoreLocked(g), cmd' # Idle PROVE CmdTyped(cmd') /\ PlaceSound' /\ RemovalSound'
  <2>1. cmd'.pc = "unset" /\ cmd'.w = g /\ CmdTyped(cmd') /\ UNCHANGED <<journal, evidence>> /\ Restorable(g)
    BY <1>1, IdleTyped DEF RestoreLocked, CmdTyped
  <2>2. Retired' = Retired
    BY <2>1 DEF Retired
  <2>3. QED BY <2>1, <2>2 DEF PlaceSound, RemovalSound, Restorable
<1>2. CASE RestoreRemove
  <2>1. cmd'.pc = "set" /\ cmd'.w = cmd.w /\ CmdTyped(cmd') /\ UNCHANGED <<journal, evidence>> /\ cmd.pc = "unset"
    BY <1>2, GoesOn DEF RestoreRemove, world, At
  <2>2. Retired' = Retired
    BY <2>1 DEF Retired
  <2>3. QED BY <2>1, <2>2 DEF PlaceSound, RemovalSound
<1>3. QED BY <1>0, <1>1, <1>2 DEF RestoreAdd, End

\* What the environment does does not concern the commands.
LEMMA DriftSound ==
  ASSUME UpgradeInv, (\E g \in Registrations : RestoreCheck(g)) \/ (\E r \in Releases \cup {None} : Drift(r))
  PROVE  CmdTyped(cmd') /\ PlaceSound' /\ RemovalSound'
<1>1. UNCHANGED <<cmd, journal, temp, evidence, cache, ino, entry>>
  BY DEF RestoreCheck, Drift, trees
<1>2. \A r \in Releases : Holders(r, ino[r])' = Holders(r, ino[r])
  BY <1>1 DEF Holders
<1>3. QED BY <1>1, <1>2, WaitsSound

LEMMA PlacesStep == UpgradeInv /\ Next => CmdTyped(cmd') /\ PlaceSound' /\ RemovalSound'
BY IdleSound, ScriptsStep, PrepareSound, FinalizeSound, RemoveSound, RestoreSound, DriftSound
   DEF Next, Step, Crash, End

\* What each step does to the caches, the evidence and what is registered.
LEMMA TypedStep == UpgradeInv /\ Next => Typed'
<1> SUFFICES ASSUME UpgradeInv, Next PROVE Typed'
  OBVIOUS
<1> USE DEF UpgradeInv
<1>0. /\ config \in Releases \cup {None} /\ evidence \in [Registrations -> Evidenced \cup {None}]
      /\ cache \in [Releases -> {"absent", "whole", "part"}] /\ ino \in [Releases -> 0..MaxIno]
      /\ cmd.w \in Registrations /\ restorer \in Registrations \cup {None} /\ lost \subseteq Registrations
  BY DEF Typed
<1>1. CASE Evidence \/ Before \/ After
  <2>1. [before |-> Missing, after |-> Missing] \in Evidenced
    BY DEF Evidenced
  <2>2. cmd.pc \in {"before", "after"} => evidence[cmd.w] \in Evidenced
    BY <1>0 DEF PlaceSound
  <2>3. cmd.pc \in {"before", "after"} =>
          [evidence[cmd.w] EXCEPT !.before = config] \in Evidenced /\ [evidence[cmd.w] EXCEPT !.after = config] \in Evidenced
    BY <1>0, <2>2 DEF Evidenced
  <2>4. evidence' \in [Registrations -> Evidenced \cup {None}]
    BY <1>0, <1>1, <2>1, <2>3 DEF Evidence, Before, After, At
  <2>5. UNCHANGED <<config, cache, ino, entry, restorer, lost>>
    BY <1>1 DEF Evidence, Before, After, trees
  <2>6. QED BY <1>0, <2>4, <2>5, JournalsStep, PlacesStep DEF Typed, CmdTyped, JournalsMove
<1>2. CASE PublishCache
  <2>1. cmd.rel \in Releases
    BY <1>2 DEF PublishCache, At, PlaceSound, Preparing
  <2>2. MaxIno \in Nat
    BY CleanupAssumption
  <2>3. cache' \in [Releases -> {"absent", "whole", "part"}] /\ ino' \in [Releases -> 0..MaxIno]
    BY <1>0, <1>2, <2>1, <2>2 DEF PublishCache, trees
  <2>4. UNCHANGED <<config, evidence, entry, restorer, lost>>
    BY <1>2 DEF PublishCache, trees, world
  <2>5. QED BY <1>0, <2>3, <2>4, JournalsStep, PlacesStep DEF Typed, CmdTyped, JournalsMove
<1>3. CASE PublishConfig \/ RestoreRemove \/ RestoreAdd \/ \E r \in Releases \cup {None} : Drift(r)
  <2>1. config' \in Releases \cup {None}
    BY <1>0, <1>3 DEF PublishConfig, RestoreRemove, RestoreAdd, Drift, At, PlaceSound, Preparing, Restoring, Evidenced
  <2>2. UNCHANGED <<cache, ino, evidence, entry, restorer, lost>>
    BY <1>3 DEF PublishConfig, RestoreRemove, RestoreAdd, Drift, trees, world
  <2>3. QED BY <1>0, <2>1, <2>2, JournalsStep, PlacesStep DEF Typed, CmdTyped, JournalsMove
<1>4. CASE Remove \/ RemoveRest
  <2>1. cmd.row \in Releases
    BY <1>4 DEF Remove, RemoveRest, At, PlaceSound, Deleting, Removing, Rest
  <2>2. cache' \in [Releases -> {"absent", "whole", "part"}] /\ ino' = ino /\ lost' \subseteq Registrations
    BY <1>0, <1>4, <2>1 DEF Remove, RemoveRest
  <2>3. UNCHANGED <<config, evidence, entry, restorer>>
    BY <1>4 DEF Remove, RemoveRest, world
  <2>4. QED BY <1>0, <2>2, <2>3, JournalsStep, PlacesStep DEF Typed, CmdTyped, JournalsMove
<1>5. ASSUME NEW e \in Entries, EntryStep(e) \/ \E r \in Releases : EntryOpen(e, r) PROVE Typed'
  <2>1. UNCHANGED <<config, cache, ino, evidence, restorer, lost>>
    BY <1>5 DEF EntryStep, EntryOpen, EntryLock, EntryRecheck, EntryExit, trees
  <2>2. QED BY <1>0, <1>5, <2>1, ScriptsStep, JournalsStep, PlacesStep DEF Typed, CmdTyped, JournalsMove
<1>6. CASE \E g \in Registrations : RestoreCheck(g) \/ RestoreLocked(g)
  <2>1. UNCHANGED <<config, cache, ino, evidence, entry, lost>> /\ restorer' \in Registrations \cup {None}
    BY <1>6 DEF RestoreCheck, RestoreLocked, trees
  <2>2. QED BY <1>0, <2>1, JournalsStep, PlacesStep DEF Typed, CmdTyped, JournalsMove
<1>7. CASE UNCHANGED <<config, cache, ino, evidence, entry, restorer, lost>>
  BY <1>0, <1>7, JournalsStep, PlacesStep DEF Typed, CmdTyped, JournalsMove
<1>8. QED
  BY <1>1, <1>2, <1>3, <1>4, <1>5, <1>6, <1>7
     DEF Next, Step, trees, world, Recover, Select, Create, Prepared, Outcome, Load, Intent, Candidate, Record, Finish,
         Retire, StartPrepare, StartFinalize, Crash

\* No step changes the tree that a script runs from: one that is made was absent, and one
\* that is removed has no holder.
LEMMA TreesKept ==
  ASSUME UpgradeInv, Next, NEW e \in Entries, entry[e].pc = "running"
  PROVE  cache'[entry[e].rel] = cache[entry[e].rel] /\ ino'[entry[e].rel] = ino[entry[e].rel]
<1> USE DEF UpgradeInv
<1>0. /\ cache[entry[e].rel] # "absent" /\ ino[entry[e].rel] = entry[e].ino /\ entry[e].rel \in Releases
      /\ cache \in [Releases -> {"absent", "whole", "part"}] /\ ino \in [Releases -> 0..MaxIno]
  BY DEF ScriptsSound, Typed
<1>1. CASE UNCHANGED <<cache, ino>>
  BY <1>1
<1>2. CASE PublishCache
  BY <1>0, <1>2 DEF PublishCache, trees
<1>3. CASE Remove \/ RemoveRest
  <2>1. cmd.pc \in Removing /\ entry[e].rel # cmd.row
    BY <1>0, <1>3 DEF Remove, RemoveRest, At, Removing, RemovalSound, Holders
  <2>2. QED BY <1>0, <1>3, <2>1 DEF Remove, RemoveRest
<1>4. QED
  BY <1>1, <1>2, <1>3
     DEF Next, Step, trees, world, Recover, Select, Create, Prepared, Evidence, Before, PublishConfig,
         After, Outcome, Load, Intent, Candidate, Record, Finish, Retire, RestoreRemove, RestoreAdd, StartPrepare, StartFinalize,
         RestoreCheck, RestoreLocked, EntryStep, EntryLock, EntryRecheck, EntryExit, EntryOpen, Crash, Drift

LEMMA UpgradeStep == UpgradeInv /\ Next => UpgradeInv'
<1> SUFFICES ASSUME UpgradeInv, Next PROVE UpgradeInv'
  OBVIOUS
<1>1. /\ (\A w \in Work : JournalSound(w))' /\ OneLive' /\ Retired \subseteq Retired'
  BY JournalsGoOn, JournalsStep, TreesGoOn DEF UpgradeInv
<1>2. ScriptsSound'
  <2>1. CASE UNCHANGED entry
    BY <2>1, TreesKept DEF UpgradeInv, ScriptsSound
  <2>2. CASE \E e \in Entries : EntryStep(e) \/ \E r \in Releases : EntryOpen(e, r)
    BY <2>2, ScriptsStep
  <2>3. QED
    BY <2>1, <2>2
     DEF Next, Step, trees, world, Recover, Select, Create, Prepared, Evidence, Before, PublishCache, PublishConfig,
         After, Outcome, Load, Intent, Candidate, Remove, RemoveRest, Record, Finish, Retire, RestoreRemove, RestoreAdd,
         StartPrepare, StartFinalize, RestoreCheck, RestoreLocked, Crash, Drift
<1>3. lost' \subseteq Retired'
  <2>1. CASE UNCHANGED lost
    BY <1>1, <2>1 DEF UpgradeInv
  <2>2. CASE Remove
    BY <1>1, <2>2 DEF UpgradeInv, Remove, RemovalSound, Removing, At
  <2>3. QED
    BY <2>1, <2>2
     DEF Next, Step, trees, world, Recover, Select, Create, Prepared, Evidence, Before, PublishCache, PublishConfig,
         After, Outcome, Load, Intent, Candidate, RemoveRest, Record, Finish, Retire, RestoreRemove, RestoreAdd,
         StartPrepare, StartFinalize, RestoreCheck, RestoreLocked, EntryStep, EntryLock, EntryRecheck, EntryExit, EntryOpen,
         Crash, Drift
<1>4. QED BY <1>1, <1>2, <1>3, TypedStep, PlacesStep DEF UpgradeInv

LEMMA UpgradeInit == Init => UpgradeInv
<1> SUFFICES ASSUME Init PROVE UpgradeInv
  OBVIOUS
<1> USE CleanupAssumption, DistinctAssumption, Numbers DEF Init
<1>1. Typed
  <2>1. cmd \in [pc : Places, w : Registrations, rel : Releases \cup {None}, row : Releases \cup {None},
                 todo : SUBSET Releases, st : {"pending", "deferred", "conflict", "removed", "idle"}]
    BY IdleTyped DEF CmdTyped
  <2>2. ino \in [Releases -> 0..MaxIno]
    <3>1. 1 \in 0..MaxIno
      BY CleanupAssumption
    <3>2. QED BY <3>1
  <2>3. evidence \in [Registrations -> Evidenced \cup {None}]
    BY DEF Evidenced
  <2>4. entry \in [Entries -> [pc : {"idle", "opened", "locked", "running"}, rel : Releases \cup {None}, ino : 0..MaxIno]]
    OBVIOUS
  <2>5. QED BY <2>1, <2>2, <2>3, <2>4 DEF Typed
<1>2. \A w \in Work : JournalSound(w) /\ Newest(w) = None
  BY DEF JournalSound, Newest, Newer, Unsettled
<1>3. OneLive
  BY <1>2 DEF OneLive
<1>4. PlaceSound /\ RemovalSound
  BY DEF Idle, PlaceSound, RemovalSound, Preparing, Deleting, Removing, Restoring
<1>5. ScriptsSound /\ lost \subseteq Retired
  BY DEF ScriptsSound
<1>6. QED BY <1>1, <1>2, <1>3, <1>4, <1>5 DEF UpgradeInv

LEMMA UpgradeStutters == UpgradeInv /\ UNCHANGED vars => UpgradeInv'
BY DEF vars, UpgradeInv, Typed, JournalSound, DocSound, OneLive, Newest, Newer, Unsettled, PlaceSound, Retired, RemovalSound,
       Holders, ScriptsSound

LEMMA UpgradeHolds == Spec => []UpgradeInv
<1>1. UpgradeInv /\ [Next]_vars => UpgradeInv'
  BY UpgradeStep, UpgradeStutters
<1>2. QED BY <1>1, UpgradeInit, PTL DEF Spec

\* Two journals are never both live for one release, and what a journal calls removed is
\* gone (upgrade_state.py, upgrade_cleanup.py), for any number of workflows, releases and deaths.
THEOREM JournalsAreTrue == Spec => []JournalsTrue
<1>1. UpgradeInv => JournalsTrue
  <2> SUFFICES ASSUME UpgradeInv, NEW w \in Work, journal[w] # None, NEW r \in Releases, journal[w].rows[r] # None,
                      journal[w].rows[r].st = "removed"
               PROVE  cache[r] = "absent" \/ ino[r] # journal[w].rows[r].ino
    BY DEF UpgradeInv, JournalsTrue, RemovedIsGone
  <2>1. Sound(journal[w], cache, ino) /\ ino[r] \in Nat
    BY CleanupAssumption DEF UpgradeInv, JournalSound, DocSound, Typed
  <2>2. QED BY <2>1 DEF Sound
<1>2. QED BY <1>1, UpgradeHolds, PTL

\* A registration that a restore still accepts is of a release that no cleanup has deleted.
THEOREM RestoreIsKept == Spec => []RestoreNeverLost
<1>1. UpgradeInv => RestoreNeverLost
  BY DEF UpgradeInv, RestoreNeverLost, Restorable, PlaceSound, Restoring, At
<1>2. QED BY <1>1, UpgradeHolds, PTL

\* No step takes its tree from a running script, and none asks for a journal that
\* save_record would refuse.
THEOREM OnlyAllowed == Spec => StepsAllowed
<1>1. UpgradeInv /\ [Next]_vars =>
        [\A e \in Entries : entry[e].pc = "running" /\ entry'[e] = entry[e]
            => /\ cache'[entry[e].rel] = cache[entry[e].rel]
               /\ ino'[entry[e].rel] = entry[e].ino]_vars
  <2>1. UpgradeInv /\ Next => \A e \in Entries : entry[e].pc = "running" =>
          cache'[entry[e].rel] = cache[entry[e].rel] /\ ino'[entry[e].rel] = entry[e].ino
    BY TreesKept DEF UpgradeInv, ScriptsSound
  <2>2. QED BY <2>1
<1>2. UpgradeInv /\ [Next]_vars => [\A w \in Work : journal'[w] # journal[w] => Follows(journal[w], journal'[w])]_vars
  <2>1. UpgradeInv /\ Next => \A w \in Work : journal'[w] # journal[w] => Follows(journal[w], journal'[w])
    BY JournalsGoOn, JournalsStep, TreesGoOn DEF UpgradeInv
  <2>2. QED BY <2>1
<1>3. Spec => EntryKeepsTree
  BY <1>1, UpgradeHolds, PTL DEF Spec, EntryKeepsTree
<1>4. Spec => JournalFollows
  BY <1>2, UpgradeHolds, PTL DEF Spec, JournalFollows
<1>5. QED BY <1>3, <1>4 DEF StepsAllowed
===============================================================================
