--------------------------- MODULE DiscoveryProofs ----------------------------
(***************************************************************************)
(* Proofs about the discovery of sessions.  First SessionDirectory, for    *)
(* any sessions and servers: whatever they do at once, nobody removes what *)
(* a live session needs, unless it fails to read it.  Then DiscoveryCache, *)
(* for any number of callers, instances and invalidations and for all      *)
(* limits of a scan.                                                       *)
(***************************************************************************)
EXTENDS SessionDirectory, DiscoveryCache, FiniteSetTheorems, TLAPS

-------------------------------------------------------------------------------
(* The inductive invariant. *)

\* What a server may do follows from what it saw: a session it calls dead has no process, and one it
\* found unreadable for too long is not coming up any more and has published nothing, or had
\* published what a server could not read.
Early == {"new", "made", "fallback", "bound", "listening", "writing"}
GivenUp(s) == \/ ~Up(s) /\ pc[s] # "new" /\ s \notin json
              \/ s \in misjudged
CandidateSound(d) ==
    /\ cand[d].at # "idle" => cand[d].i = cand[d].s /\ pc[cand[d].s] # "new"
    /\ cand[d].at = "unreadable" =>
         IF cand[d].err THEN pc[cand[d].s] \notin Early
         ELSE \/ first[d][cand[d].s] = None \/ first[d][cand[d].s] <= Grace
              \/ GivenUp(cand[d].s)
    /\ cand[d].at = "probe" => (cand[d].dead => cand[d].s \notin alive)
    /\ cand[d].at \in {"external", "sweep", "rmdir"} =>
         /\ cand[d].why = "dead" => cand[d].s \notin alive
         /\ cand[d].why = "unreadable" => cand[d].at # "external" /\ GivenUp(cand[d].s)
    /\ cand[d].at \in {"sweep", "rmdir"} /\ cand[d].why = "dead" => cand[d].s \notin fall

\* A directory is not seen unreadable for longer than it exists, and start() is faster than Grace.
AgesSound ==
    /\ \A d \in Servers, s \in Sessions : first[d][s] # None => pc[s] # "new" /\ first[d][s] <= age[s]
    /\ \A s \in alive : pc[s] \in Starting /\ s \notin misjudged => age[s] <= Grace

\* Files are in their directories, and a session has none before it starts.
FilesHoused(s) ==
    /\ dir[s] \in {s, None}
    /\ pc[s] = "new" => dir[s] = None /\ s \notin ext /\ s \notin owned
    /\ dir[s] = None => s \notin json /\ s \notin tmp /\ (s \notin ext => sock[s] = None)
    /\ s \notin fall /\ s \in ext => sock[s] = None
    /\ pc[s] = "clean" => dir[s] = None /\ s \notin fall /\ s \notin owned

\* How far a session that is coming up or serving has come is what its files say.
SessionUp(s) ==
    Up(s) => /\ s \in json => pc[s] \in {"renamed", "live"} /\ sock[s] = "private"
             /\ s \notin misjudged =>
                  /\ dir[s] # None
                  /\ pc[s] = "bound" => sock[s] = "wide"
                  /\ pc[s] \in {"listening", "writing", "renamed", "live"} => sock[s] = "private"
                  /\ s \in ext /\ pc[s] # "made" => s \in fall
                  /\ pc[s] = "writing" => s \in tmp
                  /\ pc[s] \in {"renamed", "live"} => s \in json

\* Only what start() has published has a session.json, and can be misjudged.
LateFiles(s) == s \in json \/ s \in misjudged => pc[s] \notin Early

DirectoryInv ==
    /\ TypeOK /\ AgesSound
    /\ \A d \in Servers : CandidateSound(d)
    /\ \A s \in Sessions : FilesHoused(s) /\ SessionUp(s) /\ LateFiles(s)

-------------------------------------------------------------------------------
(* What a step leaves alone. *)

\* Session x is as it was, and so are its files.
Same(x) ==
    /\ pc'[x] = pc[x] /\ dir'[x] = dir[x] /\ sock'[x] = sock[x]
    /\ x \in alive' <=> x \in alive
    /\ x \in misjudged' <=> x \in misjudged
    /\ x \in json' <=> x \in json
    /\ x \in tmp' <=> x \in tmp
    /\ x \in fall' <=> x \in fall
    /\ x \in ext' <=> x \in ext
    /\ x \in owned' <=> x \in owned

LEMMA SessionStays ==
  ASSUME NEW x \in Sessions, FilesHoused(x), SessionUp(x), LateFiles(x), Same(x)
  PROVE  FilesHoused(x)' /\ SessionUp(x)' /\ LateFiles(x)'
  BY DEF Same, FilesHoused, SessionUp, LateFiles, Early, Up

\* What a server has seen stays true as long as the sessions only go on, and files only go.
GoesOn(x) ==
    /\ pc[x] # "new" => pc'[x] # "new"
    /\ pc[x] \notin Early => pc'[x] \notin Early
    /\ x \in misjudged => x \in misjudged'
    /\ x \notin alive => x \notin alive'
    /\ GivenUp(x) => GivenUp(x)'
    /\ x \notin fall /\ x \notin alive => x \notin fall'

LEMMA CandidateStays ==
  ASSUME TypeOK, NEW d \in Servers, CandidateSound(d), cand'[d] = cand[d], first'[d] = first[d],
         \A x \in Sessions : GoesOn(x)
  PROVE  CandidateSound(d)'
<1>1. CASE cand[d].at = "idle"
  BY <1>1 DEF CandidateSound
<1>2. CASE cand[d].at # "idle"
  <2>1. cand[d].s \in Sessions
    BY <1>2 DEF TypeOK, Candidates, Idle
  <2>2. GoesOn(cand[d].s)
    BY <2>1
  <2>3. (cand[d].s)' = cand[d].s /\ (cand[d].at)' = cand[d].at
    OBVIOUS
  <2>4. GivenUp(cand[d].s) => GivenUp(cand[d].s)'
    <3> DEFINE x == cand[d].s
    <3>1. GivenUp(x) => \/ pc'[x] # "new" /\ x \notin json' /\ ~(x \in alive' /\ pc'[x] \in Starting \cup {"live"})
                        \/ x \in misjudged'
      BY <2>2 DEF GoesOn, GivenUp, Up
    <3>2. QED BY <2>3, <3>1 DEF GivenUp, Up
  <2>5. (cand[d].err)' = cand[d].err /\ (cand[d].why)' = cand[d].why
    OBVIOUS
  <2>6. QED BY <2>2, <2>3, <2>4, <2>5 DEF CandidateSound, GoesOn, Early
<1>3. QED BY <1>1, <1>2

LEMMA SameGoesOn ==
  ASSUME NEW x \in Sessions, Same(x)
  PROVE  GoesOn(x)
  BY DEF Same, GoesOn, Early, GivenUp, Up

\* A step of session s: no other session is touched, and no server moves.
LEMMA SessionMoves ==
  ASSUME DirectoryInv, NEW s \in Sessions, \A x \in Sessions \ {s} : Same(x),
         UNCHANGED <<cand, first, misjudged, age>>, TypeOK', FilesHoused(s)', SessionUp(s)', LateFiles(s)', GoesOn(s),
         s \in alive' /\ pc'[s] \in Starting => s \in alive /\ pc[s] \in Starting
  PROVE  DirectoryInv'
<1>1. \A x \in Sessions : GoesOn(x)
  BY SameGoesOn
<1>2. \A d \in Servers : CandidateSound(d)'
  BY <1>1, CandidateStays DEF DirectoryInv
<1>3. \A x \in Sessions : FilesHoused(x)' /\ SessionUp(x)' /\ LateFiles(x)'
  <2> SUFFICES ASSUME NEW x \in Sessions PROVE FilesHoused(x)' /\ SessionUp(x)' /\ LateFiles(x)'
    OBVIOUS
  <2>1. CASE x # s
    BY <2>1, SessionStays DEF DirectoryInv
  <2>2. QED BY <2>1
<1>4. AgesSound'
  <2>1. alive \subseteq Sessions /\ alive' \subseteq Sessions
    BY DEF DirectoryInv, TypeOK
  <2>2. \A x \in alive' : pc'[x] \in Starting => x \in alive /\ pc[x] \in Starting
    BY <2>1 DEF Same
  <2>3. \A x \in Sessions : pc[x] # "new" => pc'[x] # "new"
    BY <1>1 DEF GoesOn, Early
  <2>4. QED BY <2>2, <2>3 DEF DirectoryInv, AgesSound
<1>5. QED BY <1>2, <1>3, <1>4 DEF DirectoryInv

-------------------------------------------------------------------------------
(* The sessions: start(), stop() and the end of a process. *)

LEMMA Facts ==
  ASSUME DirectoryInv, NEW s \in Sessions
  PROVE  /\ TypeOK /\ AgesSound /\ FilesHoused(s) /\ SessionUp(s) /\ LateFiles(s)
         /\ s # None /\ None \notin {"wide", "private"} /\ s \in Nat /\ Grace \in Nat /\ MaxFaults \in Nat
  BY SessionsAssumption, NumbersAssumption DEF DirectoryInv

\* mkdir: the session begins, and no server has seen its directory.
LEMMA DirMade ==
  ASSUME DirectoryInv, NEW s \in Sessions, MakeDir(s)
  PROVE  DirectoryInv'
<1>1. /\ TypeOK /\ AgesSound /\ FilesHoused(s) /\ SessionUp(s) /\ LateFiles(s)
      /\ s # None /\ None \notin {"wide", "private"} /\ s \in Nat /\ Grace \in Nat /\ MaxFaults \in Nat
  BY Facts
<1>2. /\ s \in alive /\ pc[s] = "new" /\ pc' = [pc EXCEPT ![s] = "made"]
      /\ dir' = [dir EXCEPT ![s] = s] /\ age' = [age EXCEPT ![s] = 0]
      /\ ext' \in {ext, ext \cup {s}}
      /\ UNCHANGED <<alive, owned, retries, json, tmp, sock, fall, cand, first, misjudged, faults>>
  BY DEF MakeDir, Go, server
<1>3. TypeOK'
  <2>1. pc' \in [Sessions -> PCs]
    BY <1>1, <1>2 DEF TypeOK, PCs, Starting
  <2>2. dir' \in [Sessions -> Identities \cup {None}] /\ age' \in [Identities -> Ages]
    BY <1>1, <1>2 DEF TypeOK, Identities, Ages
  <2>3. fall \subseteq ext' /\ ext' \subseteq Sessions
    BY <1>1, <1>2 DEF TypeOK
  <2>4. QED BY <1>1, <1>2, <2>1, <2>2, <2>3 DEF TypeOK
<1>4. \A x \in Sessions \ {s} : Same(x)
  BY <1>1, <1>2 DEF Same, TypeOK
<1>5. pc'[s] = "made" /\ dir'[s] = s /\ age'[s] = 0
  BY <1>1, <1>2 DEF TypeOK, Identities
<1>6. s \notin json /\ s \notin tmp /\ sock[s] = None
  BY <1>1, <1>2 DEF FilesHoused
<1>7. FilesHoused(s)' /\ SessionUp(s)' /\ LateFiles(s)'
  <2>1. s \notin fall
    BY <1>1, <1>2 DEF FilesHoused, TypeOK
  <2>2. QED BY <1>1, <1>2, <1>5, <1>6, <2>1 DEF FilesHoused, SessionUp, LateFiles, Early, Up
<1>8. \A x \in Sessions : FilesHoused(x)' /\ SessionUp(x)' /\ LateFiles(x)'
  <2> SUFFICES ASSUME NEW x \in Sessions PROVE FilesHoused(x)' /\ SessionUp(x)' /\ LateFiles(x)'
    OBVIOUS
  <2>1. CASE x # s
    BY <1>4, <2>1, SessionStays DEF DirectoryInv
  <2>2. QED BY <1>7, <2>1
<1>9. \A x \in Sessions : GoesOn(x)
  BY <1>2, <1>4, <1>5, SameGoesOn DEF GoesOn, Early, GivenUp
<1>10. \A d \in Servers : CandidateSound(d)'
  BY <1>2, <1>9, CandidateStays DEF DirectoryInv
<1>11. AgesSound'
  <2>1. \A d \in Servers : first[d][s] = None
    BY <1>1, <1>2 DEF AgesSound
  <2>2. \A x \in Sessions \ {s} : age'[x] = age[x] /\ pc'[x] = pc[x]
    BY <1>1, <1>2 DEF TypeOK, Identities
  <2>3. \A d \in Servers, x \in Sessions : first'[d][x] # None => pc'[x] # "new" /\ first'[d][x] <= age'[x]
    BY <1>1, <1>2, <2>1, <2>2 DEF AgesSound
  <2>4. \A x \in alive' : pc'[x] \in Starting /\ x \notin misjudged' => age'[x] <= Grace
    BY <1>1, <1>2, <1>5, <2>2 DEF AgesSound, TypeOK
  <2>5. QED BY <2>3, <2>4 DEF AgesSound
<1>12. QED BY <1>3, <1>8, <1>10, <1>11 DEF DirectoryInv

\* The other steps of start().
LEMMA Starts ==
  ASSUME DirectoryInv, NEW s \in Sessions,
         MakeFallback(s) \/ Bind(s) \/ Listen(s) \/ Write(s) \/ Rename(s) \/ Published(s)
  PROVE  DirectoryInv'
<1>1. /\ TypeOK /\ AgesSound /\ FilesHoused(s) /\ SessionUp(s) /\ LateFiles(s)
      /\ s # None /\ None \notin {"wide", "private"} /\ s \in Nat /\ Grace \in Nat /\ MaxFaults \in Nat
  BY Facts
<1>2. /\ s \in alive /\ pc[s] \in Starting
      /\ UNCHANGED <<alive, ext, retries, dir, cand, first, misjudged, age, faults>>
  BY DEF MakeFallback, Bind, Listen, Write, Rename, Published, Go, server, files, Starting
<1>3. pc' \in [Sessions -> PCs] /\ \A x \in Sessions \ {s} : pc'[x] = pc[x]
  BY <1>1 DEF MakeFallback, Bind, Listen, Write, Rename, Published, Go, TypeOK, PCs, Starting
<1>4. sock' \in [Sessions -> {None, "wide", "private"}] /\ \A x \in Sessions \ {s} : sock'[x] = sock[x]
  BY <1>1 DEF MakeFallback, Bind, Listen, Write, Rename, Published, files, TypeOK
<1>5. /\ json' \in {json, json \cup {s}} /\ tmp' \in {tmp, tmp \cup {s}, tmp \ {s}}
      /\ owned' \in {owned, owned \cup {s}} /\ fall' \in {fall, fall \cup {s}} /\ (fall' # fall => s \in ext)
  BY DEF MakeFallback, Bind, Listen, Write, Rename, Published, files
<1>6. TypeOK'
  BY <1>1, <1>2, <1>3, <1>4, <1>5 DEF TypeOK
<1>7. \A x \in Sessions \ {s} : Same(x)
  BY <1>2, <1>3, <1>4, <1>5 DEF Same
<1>8. Up(s)
  BY <1>2 DEF Up
<1>9. /\ FilesHoused(s)' /\ SessionUp(s)' /\ LateFiles(s)' /\ pc'[s] # "new"
      /\ pc[s] \notin Early => pc'[s] \notin Early
  <2>1. CASE MakeFallback(s)
    <3>1. /\ pc[s] = "made" /\ pc'[s] = "fallback" /\ fall' = fall \cup {s} /\ s \in ext
          /\ UNCHANGED <<json, tmp, sock, owned>>
      BY <1>1, <2>1 DEF MakeFallback, Go, TypeOK
    <3>2. QED BY <1>1, <1>2, <1>8, <3>1 DEF FilesHoused, SessionUp, LateFiles, Early, Up
  <2>2. CASE Bind(s)
    <3>1. /\ pc[s] \in {"made", "fallback"} /\ pc'[s] = "bound" /\ sock'[s] = "wide" /\ Housed(s)
          /\ (pc[s] = "made" => s \notin ext) /\ UNCHANGED <<json, tmp, fall>>
      BY <1>1, <2>2 DEF Bind, Go, TypeOK
    <3>2. QED BY <1>1, <1>2, <1>8, <3>1 DEF FilesHoused, SessionUp, LateFiles, Early, Up, Housed
  <2>3. CASE Listen(s)
    <3>1. /\ pc[s] = "bound" /\ pc'[s] = "listening" /\ sock'[s] = "private" /\ sock[s] = "wide"
          /\ UNCHANGED <<json, tmp, fall, owned>>
      BY <1>1, <2>3 DEF Listen, Go, TypeOK
    <3>2. QED BY <1>1, <1>2, <1>8, <3>1 DEF FilesHoused, SessionUp, LateFiles, Early, Up
  <2>4. CASE Write(s)
    <3>1. /\ pc[s] = "listening" /\ pc'[s] = "writing" /\ s \in tmp' /\ dir[s] # None
          /\ UNCHANGED <<json, sock, fall, owned>>
      BY <1>1, <2>4 DEF Write, Go, TypeOK
    <3>2. QED BY <1>1, <1>2, <1>8, <3>1 DEF FilesHoused, SessionUp, LateFiles, Early, Up
  <2>5. CASE Rename(s)
    <3>1. /\ pc[s] = "writing" /\ pc'[s] = "renamed" /\ s \in tmp /\ s \notin tmp' /\ s \in json'
          /\ UNCHANGED <<sock, fall, owned>>
      BY <1>1, <2>5 DEF Rename, Go, TypeOK
    <3>2. QED BY <1>1, <1>2, <1>8, <3>1 DEF FilesHoused, SessionUp, LateFiles, Early, Up
  <2>6. CASE Published(s)
    <3>1. /\ pc[s] = "renamed" /\ pc'[s] = "live" /\ UNCHANGED <<json, tmp, sock, fall, owned>>
      BY <1>1, <2>6 DEF Published, Go, TypeOK, files
    <3>2. QED BY <1>1, <1>2, <1>8, <3>1 DEF FilesHoused, SessionUp, LateFiles, Early, Up
  <2>7. QED BY <2>1, <2>2, <2>3, <2>4, <2>5, <2>6
<1>10. GoesOn(s)
  BY <1>2, <1>8, <1>9 DEF GoesOn, Early, GivenUp
<1>11. QED BY <1>2, <1>6, <1>7, <1>9, <1>10, SessionMoves

\* From the failure of start(), or the beginning of stop(), the session only takes away.
LEMMA Leaves ==
  ASSUME DirectoryInv, NEW s \in Sessions,
         StartFails(s) \/ StopBegin(s) \/ StopFiles(s) \/ ProcessEnds(s)
  PROVE  DirectoryInv'
<1>1. /\ TypeOK /\ AgesSound /\ FilesHoused(s) /\ SessionUp(s) /\ LateFiles(s)
      /\ s # None /\ None \notin {"wide", "private"} /\ s \in Nat /\ Grace \in Nat /\ MaxFaults \in Nat
  BY Facts
<1>2. /\ s \in alive /\ alive' \in {alive, alive \ {s}}
      /\ UNCHANGED <<ext, cand, first, misjudged, age>>
  BY DEF StartFails, StopBegin, StopFiles, UnlinkSocket, UnlinkSession, RemoveFallback, RemoveDir, Retry,
         ProcessEnds, Go, server, files
<1>3. pc' \in [Sessions -> PCs] /\ \A x \in Sessions \ {s} : pc'[x] = pc[x]
  BY <1>1 DEF StartFails, StopBegin, StopFiles, UnlinkSocket, UnlinkSession, RemoveFallback, RemoveDir, Retry,
         ProcessEnds, Go, TypeOK, PCs, Starting
<1>4. retries' \in [Sessions -> 0..2]
  BY <1>1 DEF StartFails, StopBegin, StopFiles, UnlinkSocket, UnlinkSession, RemoveFallback, RemoveDir, Retry,
         ProcessEnds, TypeOK
<1>5. /\ sock' \in {sock, [sock EXCEPT ![s] = None]} /\ dir' \in {dir, [dir EXCEPT ![s] = None]}
      /\ json' \in {json, json \ {s}} /\ tmp' \in {tmp, tmp \ {s}} /\ fall' \in {fall, fall \ {s}}
      /\ owned' \in {owned, owned \ {s}}
  <2>1. sock' \in {sock, [sock EXCEPT ![s] = None]}
    BY <1>1 DEF StartFails, StopBegin, StopFiles, UnlinkSocket, UnlinkSession, RemoveFallback, RemoveDir, Retry,
         ProcessEnds, files, TypeOK
  <2>2. QED BY <2>1 DEF StartFails, StopBegin, StopFiles, UnlinkSocket, UnlinkSession, RemoveFallback, RemoveDir,
         Retry, ProcessEnds, files
<1>6. faults' \in 0..MaxFaults
  BY <1>1 DEF StartFails, StopBegin, StopFiles, UnlinkSocket, UnlinkSession, RemoveFallback, RemoveDir, Retry,
         ProcessEnds, Fault, TypeOK
<1>7. TypeOK'
  BY <1>1, <1>2, <1>3, <1>4, <1>5, <1>6 DEF TypeOK
<1>8. \A x \in Sessions \ {s} : Same(x)
  BY <1>1, <1>2, <1>3, <1>5 DEF Same, TypeOK
<1>9. CASE ProcessEnds(s)
  <2>1. s \notin alive' /\ pc' = pc /\ UNCHANGED <<dir, json, tmp, sock, fall, owned>>
    BY <1>9 DEF ProcessEnds, files
  <2>2. FilesHoused(s)' /\ SessionUp(s)' /\ LateFiles(s)' /\ GoesOn(s)
    BY <1>1, <1>2, <2>1 DEF FilesHoused, SessionUp, LateFiles, Early, Up, GoesOn, GivenUp
  <2>3. QED BY <1>2, <1>7, <1>8, <2>1, <2>2, SessionMoves
<1>10. CASE ~ProcessEnds(s)
  <2>1. alive' = alive /\ pc[s] # "new"
    BY <1>10 DEF StartFails, StopBegin, StopFiles, UnlinkSocket, UnlinkSession, RemoveFallback, RemoveDir, Retry,
         Go, Starting
  <2>2. pc'[s] \in {"unlinking", "forgetting", "removing", "rmdir", "incomplete", "abandoned", "clean"}
    BY <1>1, <1>10 DEF StartFails, StopBegin, StopFiles, UnlinkSocket, UnlinkSession, RemoveFallback, RemoveDir,
         Retry, Go, TypeOK
  <2>3. SessionUp(s)' /\ LateFiles(s)' /\ GoesOn(s) /\ pc'[s] \notin Starting
    BY <1>2, <1>5, <2>1, <2>2 DEF SessionUp, LateFiles, Early, Up, GoesOn, GivenUp, Starting
  <2>4. FilesHoused(s)'
    <3>1. CASE RemoveFallback(s)
      <4>1. fall' = fall \/ sock[s] = None
        BY <1>1, <3>1 DEF RemoveFallback, TypeOK
      <4>2. pc'[s] = "rmdir" /\ UNCHANGED <<dir, json, tmp, sock, owned>>
        BY <1>1, <3>1 DEF RemoveFallback, TypeOK
      <4>3. QED BY <1>1, <1>2, <1>5, <4>1, <4>2 DEF FilesHoused
    <3>2. CASE RemoveDir(s)
      <4>1. /\ dir'[s] = dir[s] \/ (dir'[s] = None /\ Empty(s))
            /\ pc'[s] = "clean" => s \notin owned \cup fall /\ dir'[s] = None
            /\ pc'[s] # "new" /\ UNCHANGED <<json, tmp, sock, fall, owned>>
        BY <1>1, <3>2 DEF RemoveDir, TypeOK
      <4>2. QED BY <1>1, <1>2, <4>1 DEF FilesHoused, Empty
    <3>3. CASE ~RemoveFallback(s) /\ ~RemoveDir(s)
      <4>1. pc'[s] \in {"unlinking", "forgetting", "removing", "incomplete", "abandoned"} /\ dir' = dir /\ fall' = fall
        BY <1>1, <1>10, <3>3 DEF StartFails, StopBegin, StopFiles, UnlinkSocket, UnlinkSession, Retry, Go, TypeOK, files
      <4>2. sock'[s] \in {sock[s], None} /\ (s \in json' => s \in json) /\ (s \in tmp' => s \in tmp)
        BY <1>1, <1>5 DEF TypeOK
      <4>3. QED BY <1>1, <1>2, <4>1, <4>2 DEF FilesHoused
    <3>4. QED BY <3>1, <3>2, <3>3
  <2>5. QED BY <1>2, <1>7, <1>8, <2>1, <2>3, <2>4, SessionMoves
<1>11. QED BY <1>9, <1>10

-------------------------------------------------------------------------------
(* The servers. *)

LEMMA CandidateIs ==
  ASSUME NEW c \in Candidates, c.at # "idle"
  PROVE  /\ c.s \in Sessions /\ c.i \in Sessions
         /\ c.at \in {"entry", "read"} => c \in [at : {"entry", "read"}, s : Sessions, i : Identities]
         /\ c.at = "unreadable" => c \in [at : {"unreadable"}, s : Sessions, i : Identities, err : BOOLEAN]
         /\ c.at = "probe" => c \in [at : {"probe"}, s : Sessions, i : Identities, dead : BOOLEAN]
         /\ c.at \in {"external", "sweep", "rmdir"} =>
              c \in [at : {"external", "sweep", "rmdir"}, s : Sessions, i : Identities, why : {"dead", "unreadable"}]
         /\ c.at \in {"entry", "read", "unreadable", "probe", "external", "sweep", "rmdir"}
  BY DEF Candidates, Idle, Identities

\* What a server takes away, it takes from a session that is not up, or that it misjudges.
Removes(x) ==
    /\ ~Up(x) \/ (x \in misjudged' /\ (x \in json' => sock'[x] = sock[x]))
    /\ pc[x] # "new"
    /\ x \in misjudged => x \in misjudged'
    /\ LateFiles(x)'
    /\ x \in json' => x \in json
    /\ x \in fall' => x \in fall
    /\ FilesHoused(x)'

LEMMA ServerMoves ==
  ASSUME DirectoryInv, NEW d \in Servers, UNCHANGED <<bridge, age>>, TypeOK',
         \A e \in Servers \ {d} : cand'[e] = cand[e] /\ first'[e] = first[e],
         \A x \in Sessions : Same(x) \/ Removes(x),
         \A x \in Sessions : first'[d][x] \in {first[d][x], None, 0} /\ (first'[d][x] = 0 => pc[x] # "new"),
         CandidateSound(d)'
  PROVE  DirectoryInv'
<1>1. \A x \in Sessions : GoesOn(x)
  BY SameGoesOn DEF Removes, GoesOn, Early, GivenUp, Up, bridge
<1>2. \A x \in Sessions : FilesHoused(x)' /\ SessionUp(x)' /\ LateFiles(x)'
  <2> SUFFICES ASSUME NEW x \in Sessions PROVE FilesHoused(x)' /\ SessionUp(x)' /\ LateFiles(x)'
    OBVIOUS
  <2>1. CASE Same(x)
    BY <2>1, SessionStays DEF DirectoryInv
  <2>2. CASE Removes(x)
    BY <2>2 DEF DirectoryInv, Removes, SessionUp, LateFiles, Early, Up, bridge
  <2>3. QED BY <2>1, <2>2
<1>3. \A e \in Servers : CandidateSound(e)'
  <2> SUFFICES ASSUME NEW e \in Servers PROVE CandidateSound(e)'
    OBVIOUS
  <2>1. CASE e # d
    BY <1>1, <2>1, CandidateStays DEF DirectoryInv
  <2>2. QED BY <2>1
<1>4. AgesSound'
  <2>1. \A x \in Sessions : 0 <= age[x]
    BY DEF DirectoryInv, TypeOK, Identities, Ages
  <2>2. \A e \in Servers, x \in Sessions : first'[e][x] # None => pc[x] # "new" /\ first'[e][x] <= age[x]
    <3> SUFFICES ASSUME NEW e \in Servers, NEW x \in Sessions, first'[e][x] # None
                 PROVE  pc[x] # "new" /\ first'[e][x] <= age[x]
      OBVIOUS
    <3>1. CASE e # d
      BY <3>1 DEF DirectoryInv, AgesSound
    <3>2. CASE e = d
      BY <2>1, <3>2 DEF DirectoryInv, AgesSound
    <3>3. QED BY <3>1, <3>2
  <2>3. \A x \in Sessions : x \in misjudged => x \in misjudged'
    BY <1>1 DEF GoesOn
  <2>4. alive \subseteq Sessions
    BY DEF DirectoryInv, TypeOK
  <2>5. QED BY <2>2, <2>3, <2>4 DEF DirectoryInv, AgesSound, bridge
<1>5. QED BY <1>2, <1>3, <1>4 DEF DirectoryInv

\* One candidate gives way to another, and no file is touched; what is misjudged by it has been
\* published.
LEMMA Looks ==
  ASSUME DirectoryInv, NEW d \in Servers, UNCHANGED <<bridge, files, age>>,
         misjudged' = misjudged \/ (\E s \in Sessions : misjudged' = misjudged \cup {s} /\ pc[s] \notin Early),
         NEW c \in Candidates,
         cand' = [cand EXCEPT ![d] = c], faults' \in 0..MaxFaults,
         first' \in [Servers -> [Identities -> Ages \cup {None}]],
         \A e \in Servers \ {d} : first'[e] = first[e],
         \A x \in Sessions : first'[d][x] \in {first[d][x], None, 0} /\ (first'[d][x] = 0 => pc[x] # "new"),
         CandidateSound(d)'
  PROVE  DirectoryInv'
<1>1. TypeOK /\ cand' \in [Servers -> Candidates] /\ \A e \in Servers \ {d} : cand'[e] = cand[e]
  BY DEF DirectoryInv, TypeOK
<1>2. TypeOK'
  BY <1>1 DEF TypeOK, bridge, files
<1>3. \A x \in Sessions : Same(x) \/ Removes(x)
  <2> SUFFICES ASSUME NEW x \in Sessions, ~Same(x) PROVE Removes(x)
    OBVIOUS
  <2>1. x \notin misjudged /\ x \in misjudged' /\ pc[x] \notin Early
    BY DEF Same, bridge, files
  <2>2. FilesHoused(x)' /\ LateFiles(x)'
    BY <2>1 DEF DirectoryInv, FilesHoused, LateFiles, bridge, files
  <2>3. QED BY <2>1, <2>2 DEF Removes, Early, bridge, files
<1>4. QED BY <1>1, <1>2, <1>3, ServerMoves

LEMMA JustLooks ==
  ASSUME DirectoryInv, NEW d \in Servers, UNCHANGED <<bridge, files, misjudged, age, first, faults>>, NEW c \in Candidates,
         cand' = [cand EXCEPT ![d] = c], CandidateSound(d)'
  PROVE  DirectoryInv'
<1>1. /\ TypeOK /\ AgesSound /\ first \in [Servers -> [Identities -> Ages \cup {None}]] /\ faults \in 0..MaxFaults
      /\ None \notin Nat
  BY SessionsAssumption DEF DirectoryInv, TypeOK
<1>2. \A x \in Sessions : first[d][x] = 0 => pc[x] # "new"
  BY <1>1 DEF AgesSound
<1>3. first' \in [Servers -> [Identities -> Ages \cup {None}]] /\ faults' \in 0..MaxFaults
  BY <1>1
<1>4. \A e \in Servers \ {d} : first'[e] = first[e]
  OBVIOUS
<1>5. \A x \in Sessions : first'[d][x] \in {first[d][x], None, 0} /\ (first'[d][x] = 0 => pc[x] # "new")
  BY <1>2
<1>6. UNCHANGED <<bridge, files, misjudged, age>>
  OBVIOUS
<1>7. QED BY <1>3, <1>4, <1>5, <1>6, Looks

LEMMA ServerSteps ==
  ASSUME DirectoryInv, NEW d \in Servers,
         (\E s \in Sessions : Enumerate(d, s)) \/ Read(d) \/ Unreadable(d) \/ ProbeProcess(d) \/ ProbeSocket(d)
  PROVE  DirectoryInv'
<1> DEFINE c == cand[d]
<1>1. /\ TypeOK /\ AgesSound /\ CandidateSound(d) /\ c \in Candidates /\ cand \in [Servers -> Candidates]
      /\ first \in [Servers -> [Identities -> Ages \cup {None}]] /\ faults \in 0..MaxFaults
      /\ None \notin Nat /\ Grace \in Nat
  BY SessionsAssumption, NumbersAssumption DEF DirectoryInv, TypeOK
<1>2. /\ UNCHANGED <<bridge, files, age>> /\ faults' \in 0..MaxFaults
      /\ Unreadable(d) \/ UNCHANGED misjudged
      /\ Read(d) \/ UNCHANGED faults
  <2>1. CASE Read(d)
    BY <1>1, <2>1, NumbersAssumption DEF Read, Quiet, Fault
  <2>2. CASE Unreadable(d)
    BY <1>1, <2>2 DEF Unreadable
  <2>3. CASE (\E s \in Sessions : Enumerate(d, s)) \/ ProbeProcess(d) \/ ProbeSocket(d)
    BY <1>1, <2>3 DEF Enumerate, ProbeProcess, ProbeSocket, Quiet
  <2>4. QED BY <2>1, <2>2, <2>3
<1>3. Idle \in Candidates /\ Idle.at = "idle"
  BY DEF Candidates, Idle
<1>4. \A x \in Sessions : first[d][x] = 0 => pc[x] # "new"
  BY <1>1 DEF AgesSound
<1>5. ASSUME cand' = [cand EXCEPT ![d] = Idle], UNCHANGED <<first, misjudged, faults>>
      PROVE  DirectoryInv'
  <2>1. cand'[d] = Idle
    BY <1>1, <1>5
  <2>2. CandidateSound(d)'
    BY <1>3, <2>1 DEF CandidateSound
  <2>3. QED BY <1>1, <1>2, <1>3, <1>5, <2>2, JustLooks
<1>6. CASE \E s \in Sessions : Enumerate(d, s)
  <2>1. PICK s \in Sessions : dir[s] # None /\ cand' = [cand EXCEPT ![d] = [at |-> "entry", s |-> s, i |-> dir[s]]]
                              /\ first' = first
    BY <1>6 DEF Enumerate, Move
  <2>2. dir[s] = s /\ pc[s] # "new"
    BY <2>1 DEF DirectoryInv, FilesHoused
  <2>a. UNCHANGED <<misjudged, faults>>
    BY <1>6 DEF Enumerate, Quiet
  <2> DEFINE n == [at |-> "entry", s |-> s, i |-> dir[s]]
  <2>3. n \in Candidates /\ n.at = "entry" /\ n.s = s /\ n.i = s
    BY <2>2 DEF Candidates, Identities
  <2> HIDE DEF n
  <2>4. cand' = [cand EXCEPT ![d] = n]
    BY <2>1 DEF n
  <2>5. cand'[d] = n
    BY <1>1, <2>4
  <2>6. CandidateSound(d)'
    BY <1>2, <2>2, <2>3, <2>5 DEF CandidateSound, bridge
  <2>7. QED BY <1>1, <1>2, <2>1, <2>a, <2>3, <2>4, <2>6, JustLooks
<1>7. CASE Read(d)
  <2>1. c.at = "entry"
    BY <1>7 DEF Read, At
  <2>2. c \in [at : {"entry", "read"}, s : Sessions, i : Identities] /\ c.s \in Sessions
    BY <1>1, <2>1, CandidateIs
  <2>3. c.i = c.s /\ pc[c.s] # "new" /\ FilesHoused(c.s) /\ SessionUp(c.s) /\ LateFiles(c.s) /\ UNCHANGED misjudged
    BY <1>1, <1>7, <2>1, <2>2 DEF CandidateSound, DirectoryInv, Read, Quiet
  <2>4. CASE /\ dir[c.s] = c.i /\ c.s \in json
             /\ Move(d, [c EXCEPT !.at = "read"])
             /\ first' = [first EXCEPT ![d][c.i] = None]
    <3> DEFINE n == [c EXCEPT !.at = "read"]
    <3>1. n \in Candidates /\ n.at = "read" /\ n.s = c.s /\ n.i = c.i
      BY <2>2 DEF Candidates
    <3>2. cand' = [cand EXCEPT ![d] = n] /\ first' = [first EXCEPT ![d][c.i] = None]
      BY <2>4 DEF Move
    <3> HIDE DEF n
    <3>3. cand'[d] = n
      BY <1>1, <3>2
    <3>4. CandidateSound(d)'
      BY <1>2, <2>3, <3>1, <3>3 DEF CandidateSound, bridge
    <3>5. first' \in [Servers -> [Identities -> Ages \cup {None}]] /\ \A e \in Servers \ {d} : first'[e] = first[e]
      BY <1>1, <3>2
    <3>6. \A x \in Sessions : first'[d][x] \in {first[d][x], None}
      BY <1>1, <3>2 DEF Identities
    <3>7. \A x \in Sessions : first'[d][x] = 0 => pc[x] # "new"
      BY <1>1, <1>4, <3>6
    <3>8. QED BY <1>1, <1>2, <2>3, <3>1, <3>2, <3>4, <3>5, <3>6, <3>7, Looks
  <2>a. CASE dir[c.s] = c.i /\ c.s \in json /\ first' = first
             /\ Move(d, [at |-> "unreadable", s |-> c.s, i |-> c.i, err |-> TRUE])
    <3> DEFINE n == [at |-> "unreadable", s |-> c.s, i |-> c.i, err |-> TRUE]
    <3>1. n \in Candidates /\ n.at = "unreadable" /\ n.s = c.s /\ n.i = c.i /\ n.err
      BY <2>2 DEF Candidates
    <3>2. cand' = [cand EXCEPT ![d] = n] /\ first' = first
      BY <2>a DEF Move
    <3> HIDE DEF n
    <3>3. cand'[d] = n
      BY <1>1, <3>2
    <3>4. pc[c.s] \notin Early
      BY <2>3, <2>a DEF LateFiles
    <3>5. CandidateSound(d)'
      BY <1>2, <2>3, <3>1, <3>3, <3>4 DEF CandidateSound, bridge
    <3>6. \A x \in Sessions : first'[d][x] \in {first[d][x], None, 0} /\ (first'[d][x] = 0 => pc[x] # "new")
      BY <1>4, <3>2
    <3>7. QED BY <1>1, <1>2, <2>3, <3>1, <3>2, <3>5, <3>6, Looks
  <2>5. CASE /\ ~(dir[c.s] = c.i /\ c.s \in json)
             /\ Move(d, [at |-> "unreadable", s |-> c.s, i |-> c.i, err |-> FALSE])
             /\ UNCHANGED <<first, faults>>
    <3> DEFINE n == [at |-> "unreadable", s |-> c.s, i |-> c.i, err |-> FALSE]
    <3>1. n \in Candidates /\ n.at = "unreadable" /\ n.s = c.s /\ n.i = c.i /\ n.err = FALSE
      BY <2>2 DEF Candidates
    <3>2. cand' = [cand EXCEPT ![d] = n] /\ first' = first
      BY <2>5 DEF Move
    <3> HIDE DEF n
    <3>3. cand'[d] = n
      BY <1>1, <3>2
    <3>4. c.s \notin json
      BY <2>3, <2>5 DEF FilesHoused
    <3>5. first[d][c.s] = None \/ first[d][c.s] <= Grace \/ GivenUp(c.s)
      <4>1. CASE Up(c.s) /\ c.s \notin misjudged
        <5>1. c.s \in alive /\ pc[c.s] \in Starting
          BY <2>3, <3>4, <4>1 DEF SessionUp, LateFiles, Early, Up
        <5>2. age[c.s] <= Grace /\ (first[d][c.s] # None => first[d][c.s] <= age[c.s])
          BY <1>1, <2>2, <4>1, <5>1 DEF AgesSound
        <5>3. age[c.s] \in Nat /\ (first[d][c.s] # None => first[d][c.s] \in Nat)
          BY <1>1, <2>2 DEF TypeOK, Identities, Ages
        <5>4. QED BY <1>1, <5>2, <5>3
      <4>2. CASE ~(Up(c.s) /\ c.s \notin misjudged)
        BY <2>3, <3>4, <4>2 DEF GivenUp
      <4>3. QED BY <4>1, <4>2
    <3>6. CandidateSound(d)'
      BY <1>2, <2>3, <3>1, <3>2, <3>3, <3>5 DEF CandidateSound, GivenUp, Up, bridge, files
    <3>7. QED BY <1>1, <1>2, <2>3, <2>5, <3>1, <3>2, <3>6, JustLooks
  <2>6. QED BY <1>7, <2>4, <2>a, <2>5 DEF Read
<1>8. CASE Unreadable(d)
  <2>1. c.at = "unreadable"
    BY <1>8 DEF Unreadable, At
  <2>2. c \in [at : {"unreadable"}, s : Sessions, i : Identities, err : BOOLEAN] /\ c.s \in Sessions
    BY <1>1, <2>1, CandidateIs
  <2>3. /\ c.i = c.s /\ pc[c.s] # "new" /\ UNCHANGED faults
        /\ c.err => pc[c.s] \notin Early
        /\ ~c.err => first[d][c.s] = None \/ first[d][c.s] <= Grace \/ GivenUp(c.s)
    BY <1>1, <1>8, <2>1 DEF CandidateSound, Unreadable
  <2>4. CASE cand' = [cand EXCEPT ![d] = Idle] /\ UNCHANGED <<first, misjudged>>
    BY <1>5, <2>3, <2>4
  <2>5. CASE dir[c.s] = c.i /\ Expired(d, c.i)
    <3> DEFINE n == [at |-> "sweep", s |-> c.s, i |-> c.i, why |-> "unreadable"]
    <3>1. n \in Candidates /\ n.at = "sweep" /\ n.s = c.s /\ n.i = c.i /\ n.why = "unreadable"
      BY <2>2 DEF Candidates
    <3>2. cand' = [cand EXCEPT ![d] = n] /\ first' = first
      BY <1>8, <2>3, <2>5 DEF Unreadable, Move
    <3> HIDE DEF n
    <3>3. cand'[d] = n
      BY <1>1, <3>2
    <3>a. misjudged' = IF c.err THEN misjudged \cup {c.s} ELSE misjudged
      BY <1>8, <2>5 DEF Unreadable
    <3>4. c.s \in misjudged' \/ (~Up(c.s) /\ c.s \notin json)
      <4>1. first[d][c.s] # None /\ first[d][c.s] > Grace
        BY <2>3, <2>5 DEF Expired
      <4>2. first[d][c.s] \in Nat
        BY <1>1, <2>2, <4>1 DEF Identities, Ages
      <4>3. c.err \/ GivenUp(c.s)
        BY <1>1, <2>3, <4>1, <4>2
      <4>4. QED BY <3>a, <4>3 DEF GivenUp
    <3>5. CandidateSound(d)'
      BY <1>2, <2>3, <3>1, <3>3, <3>4 DEF CandidateSound, GivenUp, Up, bridge, files
    <3>6. misjudged' = misjudged \/ (\E s \in Sessions : misjudged' = misjudged \cup {s} /\ pc[s] \notin Early)
      BY <2>2, <2>3, <3>a
    <3>7. \A x \in Sessions : first'[d][x] \in {first[d][x], None, 0} /\ (first'[d][x] = 0 => pc[x] # "new")
      BY <1>4, <3>2
    <3>8. QED BY <1>1, <1>2, <3>1, <3>2, <3>5, <3>6, <3>7, Looks
  <2>6. CASE dir[c.s] = c.i /\ ~Expired(d, c.i)
    <3>1. /\ cand' = [cand EXCEPT ![d] = Idle]
          /\ first' = [first EXCEPT ![d][c.i] = IF first[d][c.i] = None THEN 0 ELSE first[d][c.i]]
      BY <1>1, <1>8, <2>2, <2>3, <2>6 DEF Unreadable, Move, Seen
    <3>2. cand'[d] = Idle
      BY <1>1, <3>1
    <3>3. CandidateSound(d)'
      BY <1>3, <3>2 DEF CandidateSound
    <3>4. first' \in [Servers -> [Identities -> Ages \cup {None}]] /\ \A e \in Servers \ {d} : first'[e] = first[e]
      BY <1>1, <2>2, <3>1 DEF Ages
    <3>5. \A x \in Sessions : first'[d][x] = first[d][x] \/ (first'[d][x] = 0 /\ x = c.s)
      BY <1>1, <2>2, <2>3, <3>1 DEF Identities
    <3>6. \A x \in Sessions : first[d][x] # None => pc[x] # "new"
      BY <1>1 DEF AgesSound
    <3>7. \A x \in Sessions : first'[d][x] \in {first[d][x], None, 0} /\ (first'[d][x] = 0 => pc[x] # "new")
      BY <1>1, <2>3, <3>5, <3>6
    <3>a. misjudged' = misjudged
      BY <1>8, <2>3, <2>6 DEF Unreadable
    <3>8. QED BY <1>1, <1>2, <1>3, <3>1, <3>a, <3>3, <3>4, <3>7, Looks
  <2>7. QED BY <1>8, <2>4, <2>5, <2>6 DEF Unreadable, Move
<1>9. CASE ProbeProcess(d)
  <2>1. c.at = "read"
    BY <1>9 DEF ProbeProcess, At
  <2>2. c.s \in Sessions /\ c.i \in Sessions /\ c.i = c.s /\ pc[c.s] # "new"
    BY <1>1, <2>1, CandidateIs DEF CandidateSound
  <2> DEFINE n == [at |-> "probe", s |-> c.s, i |-> c.i, dead |-> c.s \notin alive]
  <2>3. n \in Candidates /\ n.at = "probe" /\ n.s = c.s /\ n.i = c.i /\ (n.dead => c.s \notin alive)
    BY <2>2 DEF Candidates, Identities
  <2>4. cand' = [cand EXCEPT ![d] = n] /\ UNCHANGED <<first, misjudged, faults>>
    BY <1>9 DEF ProbeProcess, Move, Quiet
  <2> HIDE DEF n
  <2>5. cand'[d] = n
    BY <1>1, <2>4
  <2>6. CandidateSound(d)'
    BY <1>2, <2>2, <2>3, <2>5 DEF CandidateSound, bridge
  <2>7. QED BY <1>1, <1>2, <2>3, <2>4, <2>6, JustLooks
<1>10. CASE ProbeSocket(d)
  <2>1. c.at = "probe"
    BY <1>10 DEF ProbeSocket, At
  <2>2. c.s \in Sessions /\ c.i \in Sessions /\ c.i = c.s /\ pc[c.s] # "new" /\ (c.dead => c.s \notin alive)
    BY <1>1, <2>1, CandidateIs DEF CandidateSound
  <2>a. UNCHANGED <<misjudged, faults>>
    BY <1>10 DEF ProbeSocket, Quiet
  <2>3. CASE cand' = [cand EXCEPT ![d] = Idle] /\ first' = first
    BY <1>5, <2>a, <2>3
  <2>4. CASE ~(cand' = [cand EXCEPT ![d] = Idle] /\ first' = first)
    <3> DEFINE n == [at |-> RemovedFirst(c.s), s |-> c.s, i |-> c.i, why |-> "dead"]
    <3>1. cand' = [cand EXCEPT ![d] = n] /\ first' = first /\ c.dead
      BY <1>10, <2>4 DEF ProbeSocket, Move, Dead
    <3>2. n \in Candidates /\ n.at \in {"external", "sweep"} /\ n.s = c.s /\ n.i = c.i /\ n.why = "dead"
      BY <2>2 DEF Candidates, Identities, RemovedFirst
    <3>3. n.at = "sweep" => c.s \notin fall
      BY <1>1 DEF RemovedFirst, TypeOK
    <3> HIDE DEF n
    <3>4. cand'[d] = n
      BY <1>1, <3>1
    <3>5. CandidateSound(d)'
      BY <1>2, <2>2, <3>1, <3>2, <3>3, <3>4 DEF CandidateSound, bridge, files
    <3>6. QED BY <1>1, <1>2, <2>a, <3>1, <3>2, <3>5, JustLooks
  <2>5. QED BY <2>3, <2>4
<1>11. QED BY <1>6, <1>7, <1>8, <1>9, <1>10

\* Of a session that is not up a server may take away the fallback,
LEMMA FallbackTaken ==
  ASSUME NEW x \in Sessions, FilesHoused(x), LateFiles(x), ~Up(x), pc[x] # "new",
         UNCHANGED <<bridge, dir, json, tmp, misjudged>>,
         x \in fall' => x \in fall, sock'[x] \in {sock[x], None},
         x \notin fall' /\ x \in fall => sock'[x] = None
  PROVE  Removes(x)
BY DEF Removes, LateFiles, FilesHoused, bridge

\* and, of one that is misjudged as well, its files, and then their directory.
LEMMA FilesTaken ==
  ASSUME NEW x \in Sessions, FilesHoused(x), LateFiles(x), ~Up(x) \/ x \in misjudged, pc[x] # "new",
         UNCHANGED <<bridge, fall, misjudged>>, x \in json' => sock'[x] = sock[x],
         x \in json' => x \in json, x \in tmp' => x \in tmp, sock'[x] \in {sock[x], None},
         dir'[x] = dir[x] \/ (dir'[x] = None /\ Empty(x) /\ UNCHANGED <<json, tmp, sock>>)
  PROVE  Removes(x)
<1>1. FilesHoused(x)'
  <2>1. CASE dir'[x] = dir[x]
    BY <2>1 DEF FilesHoused, bridge
  <2>2. CASE dir'[x] = None /\ Empty(x) /\ UNCHANGED <<json, tmp, sock>>
    BY <2>2 DEF FilesHoused, Empty, bridge
  <2>3. QED BY <2>1, <2>2
<1>2. LateFiles(x)'
  BY DEF LateFiles, bridge
<1>3. QED BY <1>1, <1>2 DEF Removes

\* The external socket, and its directory, of a session without a process.
LEMMA ExternalRemoved ==
  ASSUME DirectoryInv, NEW d \in Servers, External(d)
  PROVE  DirectoryInv'
<1> DEFINE c == cand[d]
           s == c.s
           n == [c EXCEPT !.at = "sweep"]
<1>1. /\ TypeOK /\ CandidateSound(d) /\ c \in Candidates /\ cand \in [Servers -> Candidates]
      /\ AgesSound /\ None \notin Nat \cup {"wide", "private"} /\ c.at = "external"
  BY SessionsAssumption DEF DirectoryInv, TypeOK, External, At
<1>2. /\ UNCHANGED <<bridge, misjudged, age, dir, json, tmp, first, faults>>
      /\ \/ s \in fall /\ sock[s] # None /\ sock' = [sock EXCEPT ![s] = None] /\ UNCHANGED <<cand, fall>>
         \/ /\ s \notin fall \/ sock[s] = None
            /\ fall' = fall \ {s} /\ cand' = [cand EXCEPT ![d] = n] /\ UNCHANGED sock
  BY DEF External, Move, Quiet
<1>3. /\ s \in Sessions /\ c.i = s /\ s \notin alive /\ pc[s] # "new"
      /\ c \in [at : {"external", "sweep", "rmdir"}, s : Sessions, i : Identities, why : {"dead", "unreadable"}]
      /\ c.why = "dead"
  <2>1. c \in [at : {"external", "sweep", "rmdir"}, s : Sessions, i : Identities, why : {"dead", "unreadable"}]
    BY <1>1, CandidateIs
  <2>2. QED BY <1>1, <2>1 DEF CandidateSound
<1>4. n \in Candidates /\ n.at = "sweep" /\ n.s = s /\ n.i = s /\ n.why = "dead"
  BY <1>3 DEF Candidates
<1> HIDE DEF n
<1>5. cand' \in [Servers -> Candidates] /\ \A e \in Servers \ {d} : cand'[e] = cand[e]
  BY <1>1, <1>2, <1>4
<1>6. fall' \subseteq fall /\ \A x \in Sessions \ {s} : x \in fall' <=> x \in fall
  BY <1>2
<1>7. sock' \in [Sessions -> {None, "wide", "private"}] /\ \A x \in Sessions \ {s} : sock'[x] = sock[x]
  BY <1>1, <1>2 DEF TypeOK
<1>8. TypeOK'
  BY <1>1, <1>2, <1>5, <1>6, <1>7 DEF TypeOK, bridge
<1>9. ~Up(s) /\ FilesHoused(s) /\ LateFiles(s)
  BY <1>3 DEF Up, DirectoryInv
<1>10. sock'[s] = None \/ sock'[s] = sock[s]
  BY <1>1, <1>2, <1>3 DEF TypeOK
<1>11. s \notin fall' /\ s \in fall => sock'[s] = None
  BY <1>2
<1>12. Removes(s)
  BY <1>2, <1>3, <1>6, <1>9, <1>10, <1>11, FallbackTaken
<1>13. \A x \in Sessions \ {s} : Same(x)
  BY <1>2, <1>6, <1>7 DEF Same, bridge
<1>14. CandidateSound(d)'
  <2>1. CASE cand' = cand
    BY <1>1, <1>2, <1>3, <2>1 DEF CandidateSound, bridge
  <2>2. CASE cand' = [cand EXCEPT ![d] = n] /\ fall' = fall \ {s}
    <3>1. cand'[d] = n
      BY <1>1, <2>2
    <3>2. QED BY <1>2, <1>3, <1>4, <2>2, <3>1 DEF CandidateSound, bridge
  <2>3. QED BY <1>2, <2>1, <2>2
<1>15. \A x \in Sessions : first[d][x] = 0 => pc[x] # "new"
  BY <1>1 DEF AgesSound
<1>16. \A x \in Sessions : Same(x) \/ Removes(x)
  BY <1>12, <1>13
<1>17. /\ \A e \in Servers \ {d} : cand'[e] = cand[e] /\ first'[e] = first[e]
       /\ \A x \in Sessions : first'[d][x] \in {first[d][x], None, 0} /\ (first'[d][x] = 0 => pc[x] # "new")
       /\ UNCHANGED <<bridge, age>>
  BY <1>2, <1>5, <1>15
<1>18. QED BY <1>8, <1>14, <1>16, <1>17, ServerMoves

\* The files in a session's directory, and the directory: of a session without a process, of one
\* that has published nothing and is not up, or of one that is misjudged.
LEMMA DirectoryRemoved ==
  ASSUME DirectoryInv, NEW d \in Servers, Sweep(d) \/ Rmdir(d)
  PROVE  DirectoryInv'
<1> DEFINE c == cand[d]
           s == c.s
           n == [c EXCEPT !.at = "rmdir"]
<1>1. /\ TypeOK /\ CandidateSound(d) /\ c \in Candidates /\ cand \in [Servers -> Candidates]
      /\ AgesSound /\ None \notin Nat \cup {"wide", "private"} /\ c.at \in {"sweep", "rmdir"}
      /\ first \in [Servers -> [Identities -> Ages \cup {None}]]
  BY SessionsAssumption DEF DirectoryInv, TypeOK, Sweep, Rmdir, At
<1>2. UNCHANGED <<bridge, misjudged, age, fall, faults>>
  BY DEF Sweep, Rmdir, Quiet, files
<1>3. /\ s \in Sessions /\ c.i = s /\ pc[s] # "new" /\ (~Up(s) \/ s \in misjudged)
      /\ c \in [at : {"external", "sweep", "rmdir"}, s : Sessions, i : Identities, why : {"dead", "unreadable"}]
  <2>1. c \in [at : {"external", "sweep", "rmdir"}, s : Sessions, i : Identities, why : {"dead", "unreadable"}]
    BY <1>1, CandidateIs
  <2>2. QED BY <1>1, <2>1 DEF CandidateSound, GivenUp, Up
<1>4. n \in Candidates /\ n.at = "rmdir" /\ n.s = s /\ n.i = s /\ n.why = c.why
  BY <1>3 DEF Candidates
<1>5. Idle \in Candidates /\ Idle.at = "idle"
  BY DEF Candidates, Idle
<1> HIDE DEF n
<1>6. cand' \in {cand, [cand EXCEPT ![d] = Idle], [cand EXCEPT ![d] = n]}
  BY DEF Sweep, Rmdir, Move, n
<1>7. cand' \in [Servers -> Candidates] /\ \A e \in Servers \ {d} : cand'[e] = cand[e]
  BY <1>1, <1>4, <1>5, <1>6
<1>8. /\ json' \in {json, json \ {s}} /\ tmp' \in {tmp, tmp \ {s}} /\ sock' \in {sock, [sock EXCEPT ![s] = None]}
      /\ dir' \in {dir, [dir EXCEPT ![s] = None]}
  BY DEF Sweep, Rmdir, files
<1>9. /\ first' \in [Servers -> [Identities -> Ages \cup {None}]] /\ \A e \in Servers \ {d} : first'[e] = first[e]
      /\ \A x \in Sessions : first'[d][x] \in {first[d][x], None}
  <2>1. CASE first' = first
    BY <1>1, <2>1
  <2>2. CASE first' = [first EXCEPT ![d][c.i] = None]
    BY <1>1, <2>2 DEF Identities
  <2>3. QED BY <2>1, <2>2 DEF Sweep, Rmdir
<1>10. TypeOK'
  BY <1>1, <1>2, <1>7, <1>8, <1>9 DEF TypeOK, bridge
<1>11. \A x \in Sessions \ {s} : Same(x)
  BY <1>1, <1>2, <1>8 DEF Same, bridge, TypeOK
<1>12. /\ dir'[s] = dir[s] \/ (dir'[s] = None /\ Empty(s) /\ UNCHANGED <<json, tmp, sock>>)
       /\ sock'[s] \in {sock[s], None}
  BY <1>1, <1>3, <1>8 DEF Sweep, Rmdir, TypeOK, files
<1>13. FilesHoused(s) /\ LateFiles(s)
  BY <1>3 DEF DirectoryInv
<1>14. s \in json' => s \in json
  BY <1>8
<1>15. Removes(s)
  <2>1. s \in tmp' => s \in tmp
    BY <1>8
  <2>2. s \in json' => sock'[s] = sock[s]
    BY <1>3, <1>13 DEF Sweep, Rmdir, files
  <2>3. QED BY <1>2, <1>3, <1>12, <1>13, <1>14, <2>1, <2>2, FilesTaken
<1>16. CandidateSound(d)'
  <2>2. CASE cand' = cand
    <3>1. c.at \in {"sweep", "rmdir"} /\ (c.why = "dead" => s \notin alive /\ s \notin fall) /\ (c.why = "unreadable" => GivenUp(s))
      BY <1>1 DEF CandidateSound
    <3>2. QED BY <1>2, <1>3, <1>8, <2>2, <3>1 DEF CandidateSound, GivenUp, Up, bridge
  <2>3. CASE cand' = [cand EXCEPT ![d] = Idle]
    <3>1. cand'[d] = Idle
      BY <1>1, <2>3
    <3>2. QED BY <1>5, <3>1 DEF CandidateSound
  <2>4. CASE cand' = [cand EXCEPT ![d] = n]
    <3>1. cand'[d] = n
      BY <1>1, <2>4
    <3>2. (c.why = "dead" => s \notin alive /\ s \notin fall) /\ (c.why = "unreadable" => GivenUp(s))
      BY <1>1 DEF CandidateSound
    <3>3. QED BY <1>2, <1>3, <1>4, <1>8, <3>1, <3>2 DEF CandidateSound, GivenUp, Up, bridge
  <2>5. QED BY <1>6, <2>2, <2>3, <2>4
<1>17. \A x \in Sessions : first'[d][x] \in {first[d][x], None, 0} /\ (first'[d][x] = 0 => pc[x] # "new")
  BY <1>1, <1>9 DEF AgesSound
<1>18. \A x \in Sessions : Same(x) \/ Removes(x)
  BY <1>11, <1>15
<1>19. /\ \A e \in Servers \ {d} : cand'[e] = cand[e] /\ first'[e] = first[e]
       /\ UNCHANGED <<bridge, age>>
  BY <1>2, <1>7, <1>9
<1>20. QED BY <1>10, <1>16, <1>17, <1>18, <1>19, ServerMoves

\* A server leaves its candidate alone, or begins anew.
LEMMA Forgets ==
  ASSUME DirectoryInv, NEW d \in Servers, GiveUp(d) \/ Restart(d)
  PROVE  DirectoryInv'
<1>1. /\ TypeOK /\ AgesSound /\ cand \in [Servers -> Candidates]
      /\ first \in [Servers -> [Identities -> Ages \cup {None}]] /\ None \notin Nat
  BY SessionsAssumption DEF DirectoryInv, TypeOK
<1>2. Idle \in Candidates /\ Idle.at = "idle"
  BY DEF Candidates, Idle
<1>3. UNCHANGED <<bridge, files, misjudged, age>> /\ cand' = [cand EXCEPT ![d] = Idle] /\ faults' \in 0..MaxFaults
  BY <1>1, NumbersAssumption DEF GiveUp, Restart, Quiet, Move, Fault, TypeOK
<1>4. CandidateSound(d)'
  <2>1. cand'[d] = Idle
    BY <1>1, <1>3
  <2>2. QED BY <1>2, <2>1 DEF CandidateSound
<1>5. /\ first' \in [Servers -> [Identities -> Ages \cup {None}]] /\ \A e \in Servers \ {d} : first'[e] = first[e]
      /\ \A x \in Sessions : first'[d][x] \in {first[d][x], None}
  <2>1. CASE first' = first
    BY <1>1, <2>1
  <2>2. CASE first' = [first EXCEPT ![d] = [i \in Identities |-> None]]
    BY <1>1, <2>2 DEF Identities
  <2>3. QED BY <2>1, <2>2 DEF GiveUp, Restart
<1>6. \A x \in Sessions : first'[d][x] \in {first[d][x], None, 0} /\ (first'[d][x] = 0 => pc[x] # "new")
  BY <1>1, <1>5 DEF AgesSound
<1>7. QED BY <1>2, <1>3, <1>4, <1>5, <1>6, Looks

-------------------------------------------------------------------------------
(* Time passes. *)

LEMMA TimePasses ==
  ASSUME DirectoryInv, Tick
  PROVE  DirectoryInv'
<1>1. /\ TypeOK /\ AgesSound /\ None \notin Nat /\ Grace \in Nat /\ alive \subseteq Sessions
      /\ first \in [Servers -> [Identities -> Ages \cup {None}]] /\ age \in [Identities -> Ages]
  BY SessionsAssumption, NumbersAssumption DEF DirectoryInv, TypeOK
<1>2. /\ UNCHANGED <<bridge, files, cand, misjudged, faults>> /\ \A d \in Servers : cand[d].at = "idle"
      /\ age' = [i \in Identities |-> Older(age[i])]
      /\ first' = [d \in Servers |-> [i \in Identities |-> Older(first[d][i])]]
      /\ \A s \in alive : pc[s] \in Starting /\ dir[s] # None => age[dir[s]] < Grace
  BY DEF Tick, At
<1>3. \A a \in Ages : Older(a) \in Ages /\ Older(a) >= a /\ (a < Grace => Older(a) <= Grace)
  BY <1>1 DEF Older, Ages
<1>4. \A a, b \in Ages : a <= b => Older(a) <= Older(b)
  BY <1>1 DEF Older, Ages
<1>5. Older(None) = None
  BY <1>1 DEF Older
<1>6. age' \in [Identities -> Ages] /\ first' \in [Servers -> [Identities -> Ages \cup {None}]]
  BY <1>1, <1>2, <1>3, <1>5
<1>7. TypeOK'
  BY <1>1, <1>2, <1>6 DEF TypeOK, bridge, files
<1>8. \A d \in Servers : CandidateSound(d)'
  BY <1>2 DEF CandidateSound
<1>9. \A x \in Sessions : FilesHoused(x)' /\ SessionUp(x)' /\ LateFiles(x)'
  BY <1>2, SessionStays DEF DirectoryInv, Same, bridge, files
<1>10. AgesSound'
  <2>1. \A d \in Servers, x \in Sessions : first'[d][x] # None => pc[x] # "new" /\ first'[d][x] <= age'[x]
    <3> SUFFICES ASSUME NEW d \in Servers, NEW x \in Sessions, first'[d][x] # None
                 PROVE  pc[x] # "new" /\ first'[d][x] <= age'[x]
      OBVIOUS
    <3>1. first'[d][x] = Older(first[d][x]) /\ age'[x] = Older(age[x])
      BY <1>2 DEF Identities
    <3>2. first[d][x] # None
      BY <1>5, <3>1
    <3>3. pc[x] # "new" /\ first[d][x] <= age[x]
      BY <1>1, <3>2 DEF AgesSound
    <3>4. first[d][x] \in Ages /\ age[x] \in Ages
      BY <1>1, <3>2 DEF Identities
    <3>5. QED BY <1>4, <3>1, <3>3, <3>4
  <2>2. \A s \in alive : pc[s] \in Starting /\ s \notin misjudged => age'[s] <= Grace
    <3> SUFFICES ASSUME NEW s \in alive, pc[s] \in Starting, s \notin misjudged PROVE age'[s] <= Grace
      OBVIOUS
    <3>1. Up(s) /\ FilesHoused(s) /\ SessionUp(s) /\ LateFiles(s)
      BY <1>1 DEF Up, DirectoryInv
    <3>2. dir[s] = s /\ dir[s] # None
      BY <3>1 DEF FilesHoused, SessionUp, LateFiles, Early
    <3>3. age[s] < Grace
      BY <1>2, <3>2
    <3>4. QED BY <1>1, <1>2, <1>3, <3>3 DEF Identities
  <2>3. QED BY <1>2, <2>1, <2>2 DEF AgesSound, bridge
<1>11. QED BY <1>7, <1>8, <1>9, <1>10 DEF DirectoryInv

-------------------------------------------------------------------------------
(* The invariant, and what follows from it. *)

LEMMA DirectoryInit == Init => DirectoryInv
<1> SUFFICES ASSUME Init PROVE DirectoryInv
  OBVIOUS
<1>1. None \notin Nat \cup {"wide", "private"} /\ Grace \in Nat /\ MaxFaults \in Nat
  BY SessionsAssumption, NumbersAssumption
<1>2. Idle \in Candidates /\ Idle.at = "idle"
  BY DEF Candidates, Idle
<1>3. TypeOK
  BY <1>1, <1>2 DEF Init, TypeOK, PCs, Ages
<1>4. AgesSound
  BY <1>1 DEF Init, AgesSound, Identities, Starting
<1>5. \A d \in Servers : CandidateSound(d)
  BY <1>2 DEF Init, CandidateSound
<1>6. \A s \in Sessions : FilesHoused(s) /\ SessionUp(s) /\ LateFiles(s)
  BY DEF Init, FilesHoused, SessionUp, LateFiles, Early, Up, Starting
<1>7. QED BY <1>3, <1>4, <1>5, <1>6 DEF DirectoryInv

LEMMA DirectoryStutters ==
  ASSUME DirectoryInv, UNCHANGED vars
  PROVE  DirectoryInv'
<1>1. UNCHANGED <<bridge, files, cand, first, misjudged, age, faults>>
  BY DEF vars, server
<1>2. TypeOK' /\ AgesSound'
  BY <1>1 DEF DirectoryInv, TypeOK, AgesSound, bridge, files
<1>3. \A x \in Sessions : Same(x)
  BY <1>1 DEF Same, bridge, files
<1>4. \A x \in Sessions : FilesHoused(x)' /\ SessionUp(x)' /\ LateFiles(x)'
  BY <1>3, SessionStays DEF DirectoryInv
<1>5. \A d \in Servers : CandidateSound(d)'
  BY <1>1, <1>3, SameGoesOn, CandidateStays DEF DirectoryInv
<1>6. QED BY <1>2, <1>4, <1>5 DEF DirectoryInv

LEMMA DirectoryStep ==
  ASSUME DirectoryInv, [Next]_vars
  PROVE  DirectoryInv'
<1>1. CASE \E s \in Sessions : Bridge(s)
  BY <1>1, DirMade, Starts, Leaves DEF Bridge, Start
<1>2. CASE \E d \in Servers : Server(d)
  BY <1>2, ServerSteps, ExternalRemoved, DirectoryRemoved, Forgets DEF Server, Work
<1>3. CASE Tick
  BY <1>3, TimePasses
<1>4. CASE UNCHANGED vars
  BY <1>4, DirectoryStutters
<1>5. QED BY <1>1, <1>2, <1>3, <1>4 DEF Next

LEMMA DirectoryHolds == Spec => []DirectoryInv
  BY DirectoryInit, DirectoryStep, PTL DEF Spec

\* No server removes what a session needs that is coming up or serving, however many servers scan
\* and whatever is killed or fails (server/core/discovery.py) - but for a published session.json
\* that a server fails to read when its grace period is over; and one that is there always points to a private socket behind which its session listens (bridge/core/lifecycle.py, start).
THEOREM LiveIsUntouched == Spec => []LiveUntouched
<1>1. DirectoryInv => LiveUntouched
  <2> SUFFICES ASSUME DirectoryInv, NEW s \in Sessions, Up(s)
               PROVE  /\ s \in json => sock[s] = "private" /\ Answers(s)
                      /\ s \notin misjudged =>
                           /\ dir[s] # None
                           /\ pc[s] \in {"bound", "listening", "writing", "renamed", "live"} => sock[s] # None
                           /\ s \in ext /\ pc[s] # "made" => s \in fall
                           /\ pc[s] = "writing" => s \in tmp
                           /\ pc[s] \in {"renamed", "live"} => s \in json
    BY DEF DirectoryInv, LiveUntouched
  <2>1. SessionUp(s) /\ None \notin {"wide", "private"} /\ s \in alive
    BY Facts DEF DirectoryInv, Up
  <2>2. QED BY <2>1 DEF SessionUp, LateFiles, Early, Answers
<1>2. QED BY <1>1, DirectoryHolds, PTL

\* stop() says it is complete only when no file and no directory of the session is left (the end of
\* stop() in bridge/core/lifecycle.py), and none comes back.
THEOREM CompleteIsGone == Spec => []CompleteMeansGone
<1>1. DirectoryInv => CompleteMeansGone
  BY DEF DirectoryInv, CompleteMeansGone, FilesHoused, TypeOK
<1>2. QED BY <1>1, DirectoryHolds, PTL

\* Nobody but its own session takes session.json away while the directory under /tmp is there that
\* it gives authority over (_remove_session_dir after _remove_external_socket) - but for a server
\* that could not read it when its grace period was over.
THEOREM AuthorityIsKept == Spec => AuthorityKept
<1>1. DirectoryInv /\ [Next]_vars => [\A s \in Sessions : s \notin alive /\ s \in json /\ s \notin json' => s \notin fall \/ s \in misjudged]_vars
  <2> SUFFICES ASSUME DirectoryInv, Next, NEW s \in Sessions, s \notin alive, s \in json, s \notin json'
               PROVE  s \notin fall \/ s \in misjudged
    OBVIOUS
  <2>1. PICK d \in Servers : Sweep(d) /\ cand[d].s = s
    <3>1. ASSUME NEW x \in Sessions, Bridge(x) PROVE FALSE
      <4>1. json' \in {json, json \cup {x}, json \ {x}} /\ (json' = json \ {x} => json' = json \/ x \in alive)
        BY <3>1 DEF Bridge, Start, MakeDir, MakeFallback, Bind, Listen, Write, Rename, Published, StartFails,
             StopBegin, StopFiles, UnlinkSocket, UnlinkSession, RemoveFallback, RemoveDir, Retry, ProcessEnds, files
      <4>2. QED BY <4>1
    <3>2. ~Tick
      BY DEF Tick, files
    <3>3. PICK d \in Servers : Server(d)
      BY <3>1, <3>2 DEF Next
    <3>4. Sweep(d) /\ cand[d].s = s
      BY <3>3 DEF Server, Work, Enumerate, Read, Unreadable, ProbeProcess, ProbeSocket, External, Sweep, Rmdir,
           GiveUp, Restart, files
    <3>5. QED BY <3>4
  <2>2. /\ cand[d] \in Candidates /\ cand[d].at = "sweep" /\ CandidateSound(d)
    BY <2>1 DEF Sweep, At, DirectoryInv, TypeOK
  <2>3. cand[d].why \in {"dead", "unreadable"}
    BY <2>2, CandidateIs
  <2>4. QED BY <2>1, <2>2, <2>3 DEF CandidateSound, GivenUp
<1>2. QED BY <1>1, DirectoryHolds, PTL DEF Spec, AuthorityKept

-----------------------------------------------------------------------------
(* The callers' side: DiscoveryCache. *)

\* Who scans has a call that is not answered yet.
HolderAsked == scan # Nothing => asked[lock] # Nothing

\* An epoch is never ahead of the calls of invalidate().  What was scanned belongs to
\* the present epoch unless a signal waits to be taken, and the holder of the lock
\* asked before its scan began.
Epochs ==
  /\ ~signal /\ cache # Nothing => cache.epoch = epoch
  /\ ~signal /\ scan # Nothing => scan.epoch = epoch
  /\ \A c \in Callers : asked[c] # Nothing => asked[c] <= epoch
  /\ scan # Nothing => asked[lock] <= scan.epoch

\* What a scan that began afresh still has to read: as long as it is not partial,
\* whatever stayed in run/ has been found or waits in the window.
Covered ==
  scan # Nothing =>
    /\ scan.stayed \subseteq live
    /\ scan.stage = "begun" => ~scan.partial
    /\ scan.stage = "begun" /\ scan.whole => cursor = Nothing /\ backlog = {}
    /\ scan.stage = "reading" /\ scan.whole /\ ~scan.partial =>
         scan.stayed \subseteq scan.found \cup scan.window
    /\ scan.stage = "done" => scan.partial

\* What was published or answered keeps what was found out when it was made.
Honest ==
  /\ cache # Nothing /\ cache.whole => cache.hidden = {}
  /\ WholeScanHonest

NeverStale == \A c \in Callers : answer[c] # Nothing => ~answer[c].stale

-----------------------------------------------------------------------------
\* If there is room for all of them, all entries are among the newest.
LEMMA NewestOfFew ==
  ASSUME NEW S \in SUBSET Instances, NEW n \in Nat, Cardinality(S) <= n
  PROVE  Newest(S, n) = S
<1>1. IsFiniteSet(S)
  <2>1. IsFiniteSet(Instances)
    BY WindowsAssumption, FS_Interval DEF Instances
  <2>2. QED BY <2>1, FS_Subset
<1>2. ASSUME NEW i \in S PROVE Cardinality({j \in S : j > i}) < n
  <2> DEFINE T == {j \in S : j > i}
  <2>1. IsFiniteSet(T) /\ Cardinality(T) <= Cardinality(S) /\ (Cardinality(S) = Cardinality(T) => S = T)
    BY <1>1, FS_Subset
  <2>2. i \notin T
    BY WindowsAssumption DEF Instances
  <2>3. Cardinality(T) # Cardinality(S)
    BY <2>1, <2>2
  <2>4. Cardinality(T) \in Nat /\ Cardinality(S) \in Nat
    BY <1>1, <2>1, FS_CardinalityType
  <2>5. QED BY <2>1, <2>3, <2>4
<1>3. QED BY <1>2 DEF Newest

\* The parts of a scan and of an outcome.
LEMMA ScanFields ==
  ASSUME NEW s \in Scans
  PROVE  /\ s # Nothing /\ s.stage \in {"begun", "reading", "done"} /\ s.epoch \in 0..MaxInvalidations
         /\ s.window \subseteq Instances /\ s.found \subseteq Instances
         /\ s.stayed \subseteq Instances /\ s.partial \in BOOLEAN /\ s.whole \in BOOLEAN
  BY WindowsAssumption DEF Scans

\* What a scan comes to has the fields of an outcome.
LEMMA OutcomeTyped ==
  ASSUME scan \in Scans
  PROVE  /\ Outcome \in Outcomes
         /\ Outcome.epoch = scan.epoch /\ Outcome.whole = scan.whole
         /\ Outcome.hidden = (IF scan.partial THEN {} ELSE scan.stayed \ scan.found)
  BY ScanFields DEF Outcome, Outcomes

\* What a call returns has the fields of an answer.
LEMMA ReturnTyped ==
  ASSUME NEW c \in Callers, CacheTypeOK, asked[c] # Nothing, NEW result \in Outcomes, Return(c, result)
  PROVE  /\ answer'[c] \in Results
         /\ answer'[c].stale = (result.epoch < asked[c])
         /\ answer'[c].whole = result.whole /\ answer'[c].hidden = result.hidden
         /\ asked'[c] = Nothing
         /\ \A d \in Callers \ {c} : answer'[d] = answer[d] /\ asked'[d] = asked[d]
         /\ asked' \in [Callers -> 0..MaxInvalidations \cup {Nothing}]
         /\ answer' \in [Callers -> Results \cup {Nothing}]
<1>1. asked[c] \in 0..MaxInvalidations /\ result.epoch \in 0..MaxInvalidations
  BY DEF CacheTypeOK, Outcomes
<1>2. /\ result.found \subseteq Instances /\ result.partial \in BOOLEAN
      /\ result.hidden \subseteq Instances /\ result.whole \in BOOLEAN
  BY DEF Outcomes
<1> DEFINE a == [found |-> result.found, partial |-> result.partial,
                 stale |-> result.epoch < asked[c],
                 hidden |-> result.hidden, whole |-> result.whole]
<1>3. a \in Results
  BY <1>1, <1>2 DEF Results
<1>4. a.stale = (result.epoch < asked[c]) /\ a.whole = result.whole /\ a.hidden = result.hidden
  OBVIOUS
<1>5. answer' = [answer EXCEPT ![c] = a] /\ asked' = [asked EXCEPT ![c] = Nothing]
  BY DEF Return
<1> HIDE DEF a
<1>6. QED BY <1>3, <1>4, <1>5 DEF CacheTypeOK

\* Every action keeps the types.
LEMMA TypeStep == CacheTypeOK /\ HolderAsked /\ [CacheNext]_cacheVars => CacheTypeOK'
<1> SUFFICES ASSUME CacheTypeOK, HolderAsked, [CacheNext]_cacheVars PROVE CacheTypeOK'
  OBVIOUS
<1> USE WindowsAssumption DEF CacheTypeOK, world, calls, progress
<1>a. scan # Nothing => scan \in Scans
  OBVIOUS
<1>1. CASE Appear
  <2>1. born' \in 0..MaxInstances /\ born' \in Instances
    BY <1>1 DEF Appear, Instances
  <2>2. live' \subseteq Instances
    BY <1>1, <2>1 DEF Appear
  <2>3. cursor' \in (SUBSET Instances) \cup {Nothing}
    BY <1>1, <2>1 DEF Appear
  <2>4. QED BY <1>1, <2>1, <2>2, <2>3 DEF Appear
<1>2. CASE Vanish
  BY <1>2, ScanFields DEF Vanish, Scans
<1>3. CASE Expire BY <1>3 DEF Expire
<1>4. CASE Invalidate BY <1>4 DEF Invalidate
<1>5. ASSUME NEW c \in Callers, Call(c) PROVE CacheTypeOK'
  BY <1>5 DEF Call
<1>6. ASSUME NEW c \in Callers, LockDeadline(c) PROVE CacheTypeOK'
  BY <1>6 DEF LockDeadline
<1>7. ASSUME NEW c \in Callers, FromCache(c) PROVE CacheTypeOK'
  <2>1. cache \in Outcomes /\ cache' \in Outcomes
    BY <1>7 DEF FromCache, Retained
  <2>2. asked[c] # Nothing /\ Return(c, cache)
    BY <1>7 DEF FromCache
  <2>3. QED BY <1>7, <2>1, <2>2, ReturnTyped DEF FromCache
<1>8. ASSUME NEW c \in Callers, ScanBegin(c) PROVE CacheTypeOK'
  <2>1. scan' \in Scans
    BY <1>8 DEF ScanBegin, Scans
  <2>2. cache' \in Outcomes \cup {Nothing}
    BY <1>8 DEF ScanBegin, Retained
  <2>3. QED BY <1>8, <2>1, <2>2, ScanFields DEF ScanBegin
<1>9. CASE ScanCutShort
  <2>1. scan' \in Scans
    BY <1>9, ScanFields DEF ScanCutShort, Scans
  <2>2. QED BY <1>9, <2>1, ScanFields DEF ScanCutShort
<1>10. ASSUME NEW entries \in SUBSET Instances, NEW partial \in BOOLEAN, scan # Nothing,
              ReadIn(entries, partial)
       PROVE  scan' \in Scans /\ backlog' \subseteq Instances
  BY <1>10, ScanFields DEF ReadIn, Newest, Rest, Cut, Scans
<1>11. CASE TakeBacklog
  <2>1. scan' \in Scans /\ backlog' \subseteq Instances
    BY <1>11, <1>10 DEF TakeBacklog
  <2>2. QED BY <1>11, <2>1, ScanFields DEF TakeBacklog
<1>12. ASSUME NEW late \in BOOLEAN, TakeWindow(late) PROVE CacheTypeOK'
  <2>1. scan' \in Scans /\ backlog' \subseteq Instances
    BY <1>12, <1>10 DEF TakeWindow
  <2>2. cursor' \in (SUBSET Instances) \cup {Nothing}
    BY <1>12 DEF TakeWindow
  <2>3. QED BY <1>12, <2>1, <2>2, ScanFields DEF TakeWindow
<1>13. CASE ReadNext
  <2> DEFINE i == Max(scan.window)
  <2>a. /\ cuts' \in 0..MaxCuts
        /\ \/ scan' = [scan EXCEPT !.window = @ \ {i},
                                  !.found = IF i \in live THEN @ \cup {i} ELSE @,
                                  !.partial = @ \/ i \notin live]
           \/ scan' = [scan EXCEPT !.window = @ \ {i}, !.stayed = @ \ {i}]
    BY <1>13 DEF ReadNext
  <2> HIDE DEF i
  <2>1. scan' \in Scans
    <3>1. scan \in Scans
      BY <1>13 DEF ReadNext
    <3>2. CASE scan' = [scan EXCEPT !.window = @ \ {i}, !.stayed = @ \ {i}]
      BY <3>1, <3>2 DEF Scans
    <3>3. CASE scan' = [scan EXCEPT !.window = @ \ {i},
                                    !.found = IF i \in live THEN @ \cup {i} ELSE @,
                                    !.partial = @ \/ i \notin live]
      BY ZenonT(60), <3>1, <3>3, ScanFields DEF Scans
    <3>4. QED BY <2>a, <3>2, <3>3
  <2>2. QED BY <1>13, <2>1, <2>a, ScanFields DEF ReadNext
<1>14. CASE ReadDeadline
  <2>1. scan' \in Scans /\ backlog' \subseteq Instances
    BY <1>14, ScanFields DEF ReadDeadline, Scans, Rest
  <2>2. QED BY <1>14, <2>1, ScanFields DEF ReadDeadline
<1>15. CASE ScanEnd
  <2>1. Outcome \in Outcomes
    BY <1>15, OutcomeTyped DEF ScanEnd
  <2>2. lock \in Callers
    BY <1>15 DEF ScanEnd
  <2>3. cache' \in Outcomes \cup {Nothing} /\ warm' \in BOOLEAN
    BY <1>15, <2>1 DEF ScanEnd, Kept
  <2>4. asked[lock] # Nothing
    BY <1>15 DEF ScanEnd, HolderAsked
  <2>5. QED BY <1>15, <2>1, <2>2, <2>3, <2>4, ReturnTyped DEF ScanEnd
<1>16. CASE UNCHANGED cacheVars BY <1>16 DEF cacheVars
<1>17. QED
  BY <1>1, <1>2, <1>3, <1>4, <1>5, <1>6, <1>7, <1>8, <1>9, <1>11, <1>12, <1>13, <1>14,
     <1>15, <1>16 DEF CacheNext

\* Nobody but its holder ends a call that has the lock.
LEMMA HolderStep == CacheTypeOK /\ HolderAsked /\ [CacheNext]_cacheVars => HolderAsked'
<1> SUFFICES ASSUME CacheTypeOK, HolderAsked, [CacheNext]_cacheVars PROVE HolderAsked'
  OBVIOUS
<1> USE WindowsAssumption DEF CacheTypeOK, HolderAsked, calls, world
<1>1. ASSUME NEW c \in Callers, Call(c) PROVE HolderAsked'
  BY <1>1 DEF Call
<1>2. ASSUME NEW c \in Callers, LockDeadline(c) PROVE HolderAsked'
  BY <1>2 DEF LockDeadline
<1>3. ASSUME NEW c \in Callers, FromCache(c) PROVE HolderAsked'
  BY <1>3 DEF FromCache
<1>4. ASSUME NEW c \in Callers, ScanBegin(c) PROVE HolderAsked'
  BY <1>4 DEF ScanBegin
<1>5. CASE ScanEnd BY <1>5 DEF ScanEnd
<1>6. CASE \/ Appear \/ Vanish \/ Expire \/ Invalidate \/ ScanCutShort \/ TakeBacklog
           \/ (\E late \in BOOLEAN : TakeWindow(late)) \/ ReadNext \/ ReadDeadline
  BY <1>6 DEF Appear, Vanish, Expire, Invalidate, ScanCutShort, TakeBacklog, TakeWindow,
     ReadNext, ReadDeadline
<1>7. CASE UNCHANGED cacheVars BY <1>7 DEF cacheVars
<1>8. QED
  BY <1>1, <1>2, <1>3, <1>4, <1>5, <1>6, <1>7 DEF CacheNext

\* A signal that is taken drops whatever was scanned before it, so no answer is of an
\* older epoch than its question.
LEMMA EpochsStep ==
  CacheTypeOK /\ HolderAsked /\ Epochs /\ NeverStale /\ [CacheNext]_cacheVars => Epochs' /\ NeverStale'
<1> SUFFICES ASSUME CacheTypeOK, HolderAsked, Epochs, NeverStale, [CacheNext]_cacheVars
             PROVE  Epochs' /\ NeverStale'
  OBVIOUS
<1> USE WindowsAssumption DEF CacheTypeOK, HolderAsked, Epochs, NeverStale, calls, world
<1>a. scan # Nothing => scan \in Scans /\ scan.epoch \in 0..MaxInvalidations
  BY ScanFields
<1>b. cache # Nothing => cache \in Outcomes /\ cache.epoch \in 0..MaxInvalidations
  BY DEF Outcomes
<1>1. CASE Invalidate
  <2>1. signal' /\ epoch' = epoch + 1 /\ epoch' \in Nat
    BY <1>1 DEF Invalidate
  <2>2. \A c \in Callers : asked[c] # Nothing => asked[c] <= epoch + 1
    OBVIOUS
  <2>3. QED BY <1>1, <2>1, <2>2 DEF Invalidate
<1>2. ASSUME NEW c \in Callers, Call(c) PROVE Epochs' /\ NeverStale'
  BY <1>2 DEF Call
<1>3. ASSUME NEW c \in Callers, LockDeadline(c) PROVE Epochs' /\ NeverStale'
  BY <1>3 DEF LockDeadline
<1>4. ASSUME NEW c \in Callers, FromCache(c) PROVE Epochs' /\ NeverStale'
  <2>1. ~signal /\ cache # Nothing /\ cache.epoch = epoch /\ asked[c] # Nothing /\ asked[c] <= epoch
    BY <1>4 DEF FromCache, Retained
  <2>2. ~(cache.epoch < asked[c])
    BY <2>1, <1>b
  <2>3. ~answer'[c].stale /\ \A d \in Callers \ {c} : answer'[d] = answer[d] /\ asked'[d] = asked[d]
    BY <1>4, <2>1, <2>2, <1>b, ReturnTyped DEF FromCache
  <2>4. asked'[c] = Nothing /\ cache' = cache
    BY <1>4, <2>1, <1>b, ReturnTyped DEF FromCache, Retained
  <2>5. scan = Nothing
    BY <1>4 DEF FromCache
  <2>6. QED BY <1>4, <2>1, <2>3, <2>4, <2>5 DEF FromCache
<1>5. ASSUME NEW c \in Callers, ScanBegin(c) PROVE Epochs' /\ NeverStale'
  <2>1. scan'.epoch = epoch /\ lock' = c /\ asked[c] <= epoch /\ epoch' = epoch
        /\ UNCHANGED <<asked, answer>>
    BY <1>5 DEF ScanBegin
  <2>2. cache' # Nothing => ~signal /\ cache' = cache
    BY <1>5 DEF ScanBegin, Retained
  <2>3. QED BY <2>1, <2>2
<1>6. CASE ScanEnd
  <2>1. scan \in Scans /\ lock \in Callers /\ asked[lock] # Nothing /\ asked[lock] <= scan.epoch
    BY <1>6, <1>a DEF ScanEnd
  <2>2. Outcome \in Outcomes /\ Outcome.epoch = scan.epoch
    BY <2>1, OutcomeTyped
  <2>3. ~(Outcome.epoch < asked[lock])
    BY <2>1, <2>2, <1>a
  <2>4. /\ ~answer'[lock].stale /\ asked'[lock] = Nothing
        /\ \A d \in Callers \ {lock} : answer'[d] = answer[d] /\ asked'[d] = asked[d]
    BY <1>6, <2>1, <2>2, <2>3, ReturnTyped DEF ScanEnd
  <2>5. cache' # Nothing => ~signal /\ cache'.epoch = scan.epoch
    BY <1>6, <2>2 DEF ScanEnd, Kept
  <2>6. scan' = Nothing /\ epoch' = epoch
    BY <1>6 DEF ScanEnd
  <2>7. QED BY <2>1, <2>4, <2>5, <2>6
<1>7. CASE scan # Nothing /\ UNCHANGED <<signal, epoch, cache, calls, lock>> /\ scan'.epoch = scan.epoch
  BY <1>7
<1>8. CASE Vanish
  <2>1. scan # Nothing => scan'.epoch = scan.epoch
    BY <1>8, <1>a DEF Vanish, Scans
  <2>2. QED BY <1>8, <1>7, <2>1 DEF Vanish
<1>11. CASE ScanCutShort
  <2>1. scan'.epoch = scan.epoch
    BY <1>11, <1>a DEF ScanCutShort, Scans
  <2>2. QED BY <1>11, <1>7, <2>1 DEF ScanCutShort
<1>12. ASSUME scan # Nothing, NEW entries, NEW partial, ReadIn(entries, partial)
       PROVE  scan'.epoch = scan.epoch
  BY <1>12, <1>a DEF ReadIn, Scans
<1>13. CASE TakeBacklog
  BY <1>13, <1>7, <1>12 DEF TakeBacklog
<1>14. ASSUME NEW late \in BOOLEAN, TakeWindow(late) PROVE Epochs' /\ NeverStale'
  <2>1. scan'.epoch = scan.epoch
    BY <1>14, <1>12 DEF TakeWindow
  <2>2. QED BY <1>14, <1>7, <2>1 DEF TakeWindow
<1>15. CASE ReadNext
  <2>1. scan'.epoch = scan.epoch
    BY <1>15, <1>a DEF ReadNext, Scans
  <2>2. QED BY <1>15, <1>7, <2>1 DEF ReadNext
<1>16. CASE ReadDeadline
  <2>1. scan'.epoch = scan.epoch
    BY <1>16, <1>a DEF ReadDeadline, Scans
  <2>2. QED BY <1>16, <1>7, <2>1 DEF ReadDeadline
<1>9. CASE Appear \/ Expire
  BY <1>9 DEF Appear, Expire
<1>10. CASE UNCHANGED cacheVars BY <1>10 DEF cacheVars
<1>17. QED
  BY <1>1, <1>2, <1>3, <1>4, <1>5, <1>6, <1>8, <1>9, <1>10, <1>11, <1>13, <1>14, <1>15, <1>16
     DEF CacheNext

\* What a scan has not reported yet it still has before it, or it is partial.
LEMMA CoveredStep ==
  CacheTypeOK /\ Covered /\ [CacheNext]_cacheVars => Covered'
<1> SUFFICES ASSUME CacheTypeOK, Covered, [CacheNext]_cacheVars PROVE Covered'
  OBVIOUS
<1> USE WindowsAssumption DEF CacheTypeOK, Covered, calls, world, progress
<1>a. scan # Nothing => scan \in Scans
  OBVIOUS
<1>1. CASE Appear
  BY <1>1 DEF Appear
<1>2. CASE Vanish
  <2>1. PICK i \in live : live' = live \ {i} /\ scan' = IF scan = Nothing THEN Nothing ELSE [scan EXCEPT !.stayed = @ \ {i}]
    BY <1>2 DEF Vanish
  <2>2. CASE scan = Nothing BY <2>1, <2>2
  <2>3. CASE scan # Nothing
    <3>1. /\ scan'.stayed = scan.stayed \ {i} /\ scan'.stage = scan.stage
          /\ scan'.partial = scan.partial /\ scan'.whole = scan.whole
          /\ scan'.found = scan.found /\ scan'.window = scan.window
      BY <2>1, <2>3, <1>a DEF Scans
    <3>2. QED BY <1>2, <2>1, <2>3, <3>1 DEF Vanish
  <2>4. QED BY <2>2, <2>3
<1>3. ASSUME NEW c \in Callers, ScanBegin(c) PROVE Covered'
  BY <1>3 DEF ScanBegin
<1>4. CASE ScanCutShort
  <2>1. /\ scan'.stayed = scan.stayed /\ scan'.stage = "done" /\ scan'.partial = TRUE
    BY <1>4, <1>a DEF ScanCutShort, Scans
  <2>2. QED BY <1>4, <2>1 DEF ScanCutShort
<1>5. ASSUME scan # Nothing, NEW entries, NEW partial, ReadIn(entries, partial)
      PROVE  /\ scan'.stayed = scan.stayed /\ scan'.stage = "reading" /\ scan'.whole = scan.whole
             /\ scan'.window = Newest(entries, Cap) /\ scan'.partial = Cut(partial, entries)
  BY <1>5, <1>a DEF ReadIn, Scans
<1>6. CASE TakeBacklog
  <2>1. ~scan.whole
    BY <1>6, <1>a, ScanFields DEF TakeBacklog
  <2>2. QED BY <1>6, <2>1, <1>5, <1>a, ScanFields DEF TakeBacklog
<1>7. ASSUME NEW late \in BOOLEAN, TakeWindow(late) PROVE Covered'
  <2> DEFINE entries == IF cursor = Nothing THEN live ELSE cursor
  <2>1. PICK taken \in SUBSET entries :
          /\ ~late => taken = entries \/ Cardinality(taken) = Window
          /\ ReadIn(taken \cap live, late \/ Cardinality(taken) = Window)
    BY <1>7 DEF TakeWindow
  <2>2. /\ scan # Nothing /\ scan.stage = "begun" /\ live' = live
        /\ scan'.stayed = scan.stayed /\ scan'.stage = "reading" /\ scan'.whole = scan.whole
        /\ scan'.window = Newest(taken \cap live, Cap)
        /\ scan'.partial = Cut(late \/ Cardinality(taken) = Window, taken \cap live)
    BY <1>7, <2>1, <1>5 DEF TakeWindow
  <2>3. ASSUME scan.whole, ~scan'.partial PROVE scan'.window = live
    <3>1. cursor = Nothing /\ entries = live
      BY <2>2, <2>3
    <3>2. ~late /\ Cardinality(taken) # Window /\ ~(Cardinality(taken \cap live) > Cap)
      BY <2>2, <2>3 DEF Cut
    <3>3. taken = live /\ taken \cap live = live
      BY <2>1, <3>1, <3>2
    <3>4. Cardinality(live) \in Nat
      <4>1. IsFiniteSet(Instances)
        BY FS_Interval DEF Instances
      <4>2. QED BY <4>1, FS_Subset, FS_CardinalityType
    <3>5. Cardinality(live) <= Cap
      <4>1. ~(Cardinality(live) > Cap)
        BY <3>2, <3>3
      <4>2. Cap \in Nat
        OBVIOUS
      <4> HIDE DEF entries
      <4>3. QED BY <4>1, <4>2, <3>4
    <3>6. QED BY <2>2, <3>3, <3>5, NewestOfFew
  <2>4. QED BY <2>2, <2>3
<1>8. CASE ReadNext
  <2> DEFINE i == Max(scan.window)
  <2>1. /\ scan # Nothing /\ scan.stage = "reading" /\ UNCHANGED <<live, progress>>
        /\ \/ scan' = [scan EXCEPT !.window = @ \ {i},
                                  !.found = IF i \in live THEN @ \cup {i} ELSE @,
                                  !.partial = @ \/ i \notin live]
           \/ scan' = [scan EXCEPT !.window = @ \ {i}, !.stayed = @ \ {i}]
    BY <1>8 DEF ReadNext
  <2> HIDE DEF i
  <2>2. /\ scan'.stayed \subseteq scan.stayed /\ scan'.stage = "reading" /\ scan'.whole = scan.whole
        /\ scan'.window = scan.window \ {i} /\ scan.found \subseteq scan'.found
        /\ i \in scan'.found \/ i \notin scan'.stayed \/ scan'.partial
        /\ scan.partial => scan'.partial
    <3>1. CASE scan' = [scan EXCEPT !.window = @ \ {i}, !.stayed = @ \ {i}]
      <4>1. /\ scan'.stayed = scan.stayed \ {i} /\ scan'.stage = scan.stage /\ scan'.whole = scan.whole
            /\ scan'.window = scan.window \ {i} /\ scan'.found = scan.found /\ scan'.partial = scan.partial
        BY ONLY <3>1, <2>1, <1>a DEF Scans
      <4>2. QED BY ONLY <2>1, <4>1
    <3>2. CASE scan' = [scan EXCEPT !.window = @ \ {i},
                                   !.found = IF i \in live THEN @ \cup {i} ELSE @,
                                   !.partial = @ \/ i \notin live]
      <4>1. /\ scan'.stayed = scan.stayed /\ scan'.stage = scan.stage /\ scan'.whole = scan.whole
            /\ scan'.window = scan.window \ {i}
            /\ scan'.found = IF i \in live THEN scan.found \cup {i} ELSE scan.found
            /\ scan'.partial = (scan.partial \/ i \notin live)
        BY ONLY <3>2, <2>1, <1>a DEF Scans
      <4>2. QED BY ONLY <2>1, <4>1
    <3>3. QED BY ONLY <2>1, <3>1, <3>2
  <2>3. scan.stage # "begun" /\ scan.stage # "done" /\ scan.stayed \subseteq live
    BY <2>1
  <2>4. ASSUME scan.whole, ~scan'.partial
        PROVE  scan'.stayed \subseteq scan'.found \cup scan'.window
    <3>1. scan.stayed \subseteq scan.found \cup scan.window
      BY <2>1, <2>2, <2>4
    <3>2. QED BY <2>2, <2>4, <3>1
  <2>5. QED BY <2>1, <2>2, <2>3, <2>4
<1>9. CASE ReadDeadline
  <2>1. /\ scan'.stayed = scan.stayed /\ scan'.stage = "done" /\ scan'.partial = TRUE
    BY <1>9, <1>a DEF ReadDeadline, Scans
  <2>2. QED BY <1>9, <2>1 DEF ReadDeadline
<1>10. ASSUME NEW c \in Callers, Call(c) \/ LockDeadline(c) \/ FromCache(c) PROVE Covered'
  BY <1>10 DEF Call, LockDeadline, FromCache
<1>11. CASE Expire \/ Invalidate \/ ScanEnd \/ UNCHANGED cacheVars
  BY <1>11 DEF Expire, Invalidate, ScanEnd, cacheVars
<1>12. QED
  BY <1>1, <1>2, <1>3, <1>4, <1>6, <1>7, <1>8, <1>9, <1>10, <1>11 DEF CacheNext

\* Only the end of a scan makes a new result, from what the scan covered.
LEMMA HonestStep ==
  CacheTypeOK /\ HolderAsked /\ Covered /\ Honest /\ [CacheNext]_cacheVars => Honest'
<1> SUFFICES ASSUME CacheTypeOK, HolderAsked, Covered, Honest, [CacheNext]_cacheVars PROVE Honest'
  OBVIOUS
<1> USE WindowsAssumption DEF CacheTypeOK, Honest, WholeScanHonest, calls, world
<1>1. ASSUME NEW c \in Callers, Call(c) PROVE Honest'
  BY <1>1 DEF Call
<1>2. ASSUME NEW c \in Callers, LockDeadline(c) PROVE Honest'
  BY <1>2 DEF LockDeadline
<1>3. ASSUME NEW c \in Callers, FromCache(c) PROVE Honest'
  <2>1. cache # Nothing /\ cache' = cache /\ asked[c] # Nothing /\ Return(c, cache)
    BY <1>3 DEF FromCache, Retained
  <2>2. /\ answer'[c].whole = cache.whole /\ answer'[c].hidden = cache.hidden
        /\ \A d \in Callers \ {c} : answer'[d] = answer[d]
    BY <2>1, ReturnTyped
  <2>3. QED BY <2>1, <2>2
<1>4. ASSUME NEW c \in Callers, ScanBegin(c) PROVE Honest'
  BY <1>4 DEF ScanBegin, Retained
<1>5. CASE ScanEnd
  <2>1. scan \in Scans /\ lock \in Callers /\ asked[lock] # Nothing
    BY <1>5 DEF ScanEnd, HolderAsked
  <2>2. /\ Outcome \in Outcomes /\ Outcome.whole = scan.whole
        /\ Outcome.hidden = (IF scan.partial THEN {} ELSE scan.stayed \ scan.found)
    BY <2>1, OutcomeTyped
  <2>3. Outcome.whole => Outcome.hidden = {}
    BY <1>5, <2>1, <2>2, ScanFields DEF ScanEnd, Covered
  <2>4. /\ answer'[lock].whole = Outcome.whole /\ answer'[lock].hidden = Outcome.hidden
        /\ \A d \in Callers \ {lock} : answer'[d] = answer[d]
    BY <1>5, <2>1, <2>2, ReturnTyped DEF ScanEnd
  <2>5. cache' = Outcome \/ cache' = Nothing
    BY <1>5 DEF ScanEnd, Kept
  <2>6. QED BY <2>3, <2>4, <2>5
<1>6. CASE \/ Appear \/ Vanish \/ Expire \/ Invalidate \/ ScanCutShort \/ TakeBacklog
           \/ (\E late \in BOOLEAN : TakeWindow(late)) \/ ReadNext \/ ReadDeadline
  BY <1>6 DEF Appear, Vanish, Expire, Invalidate, ScanCutShort, TakeBacklog, TakeWindow,
     ReadNext, ReadDeadline
<1>7. CASE UNCHANGED cacheVars BY <1>7 DEF cacheVars
<1>8. QED
  BY <1>1, <1>2, <1>3, <1>4, <1>5, <1>6, <1>7 DEF CacheNext

-----------------------------------------------------------------------------
IInv == CacheTypeOK /\ HolderAsked /\ Epochs /\ NeverStale /\ Covered /\ Honest

LEMMA InitIInv == CacheInit => IInv
<1> SUFFICES ASSUME CacheInit PROVE IInv
  OBVIOUS
<1> USE WindowsAssumption DEF CacheInit
<1>1. CacheTypeOK
  <2>a. MaxInstances \in Nat /\ MaxInvalidations \in Nat /\ MaxCuts \in Nat
    OBVIOUS
  <2>b. signal \in BOOLEAN /\ live \subseteq Instances
    OBVIOUS
  <2>1. born \in 0..MaxInstances /\ epoch \in 0..MaxInvalidations /\ cuts \in 0..MaxCuts
    BY <2>a
  <2>2. asked \in [Callers -> 0..MaxInvalidations \cup {Nothing}]
    OBVIOUS
  <2>3. answer \in [Callers -> Results \cup {Nothing}]
    OBVIOUS
  <2>4. QED BY <2>b, <2>1, <2>2, <2>3 DEF CacheTypeOK
<1>2. HolderAsked /\ Epochs /\ NeverStale /\ Covered /\ Honest
  BY DEF HolderAsked, Epochs, NeverStale, Covered, Honest, WholeScanHonest
<1>3. QED BY <1>1, <1>2 DEF IInv

LEMMA Inductive == CacheSpec => []IInv
<1>1. IInv /\ [CacheNext]_cacheVars => IInv'
  BY TypeStep, HolderStep, EpochsStep, CoveredStep, HonestStep DEF IInv
<1>2. QED BY InitIInv, <1>1, PTL DEF CacheSpec

\* Nothing instances_with_stats() keeps between calls ever leaves its domain.
THEOREM CacheTyped == CacheSpec => []CacheTypeOK
<1>1. IInv => CacheTypeOK BY DEF IInv
<1>2. QED BY Inductive, <1>1, PTL

\* However the signals fall between the calls and the scans of instances_with_stats(),
\* no call that begins after an invalidate() gets what was scanned before it.
THEOREM NeverAnsweredStale == CacheSpec => []NoStaleAnswer
<1>1. IInv => NoStaleAnswer BY DEF IInv, NeverStale, NoStaleAnswer
<1>2. QED BY Inductive, <1>1, PTL

\* Whatever Window and Cap are, an answer of a scan that began afresh and is not called
\* partial, be it new or cached, left nothing out that was there, and readable, all the time.
THEOREM WholeScansHonest == CacheSpec => []WholeScanHonest
<1>1. IInv => WholeScanHonest BY DEF IInv, Honest
<1>2. QED BY Inductive, <1>1, PTL
===============================================================================
