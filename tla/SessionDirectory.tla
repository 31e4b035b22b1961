--------------------------- MODULE SessionDirectory ---------------------------
(***************************************************************************)
(* The directory through which Bridge sessions are found.  A session       *)
(* (bridge/core/lifecycle.py, start() and steps 9 and 10 of stop()) makes  *)
(* run/<instance id>, binds its socket there - or, when that path is too   *)
(* long for a Unix socket, in a directory of its own under /tmp - and      *)
(* publishes session.json last.  Every server process                      *)
(* (server/core/discovery.py) scans the directory, reads session.json,     *)
(* probes the socket, and removes what dead sessions left.  They share     *)
(* nothing but the file system, and any of them may be killed anywhere.    *)
(*                                                                         *)
(* A scan's candidates do not influence each other, so a server works on   *)
(* one at a time here.  Each file operation is an action.  Time is kept in *)
(* ages: how long ago a server first saw a directory unreadable, and how   *)
(* long ago a directory was made; both stop counting just after Grace.     *)
(***************************************************************************)
EXTENDS Naturals, FiniteSets

CONSTANTS Sessions,   \* 1..n: one instance id, never used again, each
          Servers,    \* processes that run a Discovery
          Grace,      \* GRACE_SECONDS (60), in ticks of the clock
          MaxFaults,  \* failing file operations, deadlines and server restarts
          None

ASSUME SessionsAssumption == Sessions \subseteq Nat /\ IsFiniteSet(Sessions)
                             /\ None \notin Nat \cup {"wide", "private"}
ASSUME NumbersAssumption == Grace \in Nat /\ MaxFaults \in Nat

VARIABLES
  pc,       \* pc[s]: how far session s has come in start() or stop()
  alive,    \* the sessions whose process runs
  owned,    \* _socket_owned
  retries,  \* retries[s]: cleanups a failed start() may still try
  dir,      \* dir[s]: the identity of run/<s>, or None
  json,     \* the sessions whose session.json is there
  tmp,      \* those whose session.json.tmp is there
  sock,     \* sock[s]: their socket file: None, or its mode "wide" or "private"
  ext,      \* the sessions whose socket is to have a directory of its own
  fall,     \* those directories, under /tmp
  cand,     \* cand[d]: the candidate server d works on, and how far it is
  first,    \* first[d][i]: _corrupt_first_seen, as an age
  misjudged, \* history: sessions a server removes because it failed to read their session.json
  age,      \* age[i]: the age of the directory with identity i
  faults

bridge == <<pc, alive, owned, retries, ext>>
files == <<dir, json, tmp, sock, fall>>
server == <<cand, first, misjudged>>
vars == <<bridge, files, server, age, faults>>

Identities == Sessions   \* device and inode of a directory: one each, not used again
Ages == 0..(Grace + 1)
Idle == [at |-> "idle"]

Starting == {"made", "fallback", "bound", "listening", "writing", "renamed"}

Init ==
  /\ pc = [s \in Sessions |-> "new"]
  /\ alive = Sessions
  /\ owned = {}
  /\ retries = [s \in Sessions |-> 2]
  /\ dir = [s \in Sessions |-> None]
  /\ json = {} /\ tmp = {} /\ fall = {} /\ ext = {}
  /\ sock = [s \in Sessions |-> None]
  /\ cand = [d \in Servers |-> Idle]
  /\ first = [d \in Servers |-> [i \in Identities |-> None]]
  /\ misjudged = {}
  /\ age = [i \in Identities |-> 0]
  /\ faults = 0

Fault == faults < MaxFaults /\ faults' = faults + 1

-----------------------------------------------------------------------------
(* BridgeSession.start(). *)

Go(s, from, to) == s \in alive /\ pc[s] = from /\ pc' = [pc EXCEPT ![s] = to]

\* mkdir of the instance directory, which must not exist yet; its path may be too
\* long for a socket.
MakeDir(s) ==
  /\ Go(s, "new", "made")
  /\ dir' = [dir EXCEPT ![s] = s]
  /\ age' = [age EXCEPT ![s] = 0]
  /\ \E long \in BOOLEAN : ext' = (IF long THEN ext \cup {s} ELSE ext)
  /\ UNCHANGED <<alive, owned, retries, json, tmp, sock, fall, server, faults>>

MakeFallback(s) ==
  /\ s \in ext
  /\ Go(s, "made", "fallback")
  /\ fall' = fall \cup {s}
  /\ UNCHANGED <<alive, ext, owned, retries, dir, json, tmp, sock, server, age, faults>>

\* The directory of the socket.
Housed(s) == IF s \in ext THEN s \in fall ELSE dir[s] # None

\* bind() makes the socket file with the mode the umask leaves.
Bind(s) ==
  /\ Go(s, IF s \in ext THEN "fallback" ELSE "made", "bound")
  /\ Housed(s)
  /\ sock' = [sock EXCEPT ![s] = "wide"]
  /\ owned' = owned \cup {s}
  /\ UNCHANGED <<alive, ext, retries, dir, json, tmp, fall, server, age, faults>>

\* chmod 0600, listen(), and the I/O thread runs.
Listen(s) ==
  /\ Go(s, "bound", "listening")
  /\ sock[s] = "wide"
  /\ sock' = [sock EXCEPT ![s] = "private"]
  /\ UNCHANGED <<alive, ext, owned, retries, dir, json, tmp, fall, server, age, faults>>

\* write_session_file(): a private temporary file first ...
Write(s) ==
  /\ Go(s, "listening", "writing")
  /\ dir[s] # None
  /\ tmp' = tmp \cup {s}
  /\ UNCHANGED <<alive, ext, owned, retries, dir, json, sock, fall, server, age, faults>>

\* ... which then takes the name session.json, whole.
Rename(s) ==
  /\ Go(s, "writing", "renamed")
  /\ s \in tmp
  /\ tmp' = tmp \ {s}
  /\ json' = json \cup {s}
  /\ UNCHANGED <<alive, ext, owned, retries, dir, sock, fall, server, age, faults>>

\* The identity of session.json is noted; start() returns.
Published(s) ==
  /\ Go(s, "renamed", "live")
  /\ s \in json
  /\ UNCHANGED <<alive, ext, owned, retries, files, server, age, faults>>

\* A step cannot be taken, because something it needs is gone or because it
\* fails; write_session_file() takes its temporary file back.  stop() follows.
StartFails(s) ==
  /\ s \in alive /\ pc[s] \in Starting
  /\ \/ /\ \/ pc[s] \in {"made", "fallback"} /\ ~Housed(s)
           \/ pc[s] = "bound" /\ sock[s] = None
           \/ pc[s] = "listening" /\ dir[s] = None
           \/ pc[s] = "writing" /\ s \notin tmp
           \/ pc[s] = "renamed" /\ s \notin json
        /\ UNCHANGED faults
     \/ Fault
  /\ tmp' = tmp \ {s}
  /\ pc' = [pc EXCEPT ![s] = "unlinking"]
  /\ retries' = [retries EXCEPT ![s] = 1]
  /\ UNCHANGED <<alive, ext, owned, dir, json, sock, fall, server, age>>

Start(s) == \/ MakeDir(s) \/ MakeFallback(s) \/ Bind(s) \/ Listen(s)
            \/ Write(s) \/ Rename(s) \/ Published(s)

-----------------------------------------------------------------------------
(* BridgeSession.stop(), steps 9 and 10, and the end of the process. *)

\* The transport is closed (module BridgeTransport); now the files.  A session
\* that was published is retried as often as it takes.
StopBegin(s) ==
  /\ Go(s, "live", "unlinking")
  /\ retries' = [retries EXCEPT ![s] = 2]
  /\ UNCHANGED <<alive, ext, owned, files, server, age, faults>>

\* The socket, if this session made it.  If it cannot be removed, or if the
\* directory it was in is no longer there, session.json is kept.
UnlinkSocket(s) ==
  /\ s \in alive /\ pc[s] = "unlinking"
  /\ \/ /\ s \in owned => Housed(s)
        /\ sock' = [sock EXCEPT ![s] = IF s \in owned THEN None ELSE @]
        /\ owned' = owned \ {s}
        /\ pc' = [pc EXCEPT ![s] = "forgetting"]
        /\ UNCHANGED faults
     \/ /\ s \in owned
        /\ IF Housed(s) THEN Fault ELSE UNCHANGED faults
        /\ pc' = [pc EXCEPT ![s] = "removing"]
        /\ UNCHANGED <<sock, owned>>
  /\ UNCHANGED <<alive, ext, retries, dir, json, tmp, fall, server, age>>

\* session.json, if start() got as far as noting its identity; else it stays.
UnlinkSession(s) ==
  /\ s \in alive /\ pc[s] = "forgetting"
  /\ \/ /\ json' = (IF retries[s] = 2 THEN json \ {s} ELSE json)
        /\ UNCHANGED faults
     \/ /\ s \in json
        /\ Fault
        /\ UNCHANGED json
  /\ pc' = [pc EXCEPT ![s] = "removing"]
  /\ UNCHANGED <<alive, ext, owned, retries, dir, tmp, sock, fall, server, age>>

Empty(s) == s \notin json \cup tmp /\ (s \in ext \/ sock[s] = None)

\* _remove_dirs(): rmdir refuses a directory that is not empty.
RemoveFallback(s) ==
  /\ s \in alive /\ pc[s] = "removing"
  /\ \/ /\ fall' = (IF sock[s] = None THEN fall \ {s} ELSE fall)
        /\ UNCHANGED faults
     \/ /\ s \in fall
        /\ Fault
        /\ UNCHANGED fall
  /\ pc' = [pc EXCEPT ![s] = "rmdir"]
  /\ UNCHANGED <<alive, ext, owned, retries, dir, json, tmp, sock, server, age>>

\* Mutant: the cleanup is complete whatever is left.
RemoveDirAnyway(s) ==
  /\ s \in alive /\ pc[s] = "rmdir"
  /\ dir' = (IF Empty(s) THEN [dir EXCEPT ![s] = None] ELSE dir)
  /\ pc' = [pc EXCEPT ![s] = "clean"]
  /\ UNCHANGED <<alive, ext, owned, retries, json, tmp, sock, fall, server, age, faults>>

\* The verdict of stop(): complete when every step succeeded, that is when the
\* socket was given up and both directories are gone.
RemoveDir(s) ==
  /\ s \in alive /\ pc[s] = "rmdir"
  /\ \/ /\ dir' = (IF Empty(s) THEN [dir EXCEPT ![s] = None] ELSE dir)
        /\ UNCHANGED faults
     \/ /\ dir[s] # None
        /\ Fault
        /\ UNCHANGED dir
  /\ pc' = [pc EXCEPT ![s] = IF s \notin owned \cup fall /\ dir'[s] = None
                             THEN "clean" ELSE "incomplete"]
  /\ UNCHANGED <<alive, ext, owned, retries, json, tmp, sock, fall, server, age>>

\* stop() again: driver's retry, or the one a failed start() makes itself, after
\* which nobody holds the session any more.
Retry(s) ==
  /\ s \in alive /\ pc[s] = "incomplete"
  /\ \/ /\ retries[s] > 0
        /\ pc' = [pc EXCEPT ![s] = "unlinking"]
        /\ retries' = [retries EXCEPT ![s] = IF @ = 2 THEN 2 ELSE @ - 1]
     \/ /\ retries[s] = 0
        /\ pc' = [pc EXCEPT ![s] = "abandoned"]
        /\ UNCHANGED retries
  /\ UNCHANGED <<alive, ext, owned, files, server, age, faults>>

\* Blender quits, crashes or is killed, at any moment.
ProcessEnds(s) ==
  /\ s \in alive
  /\ alive' = alive \ {s}
  /\ UNCHANGED <<pc, ext, owned, retries, files, server, age, faults>>

StopFiles(s) == \/ UnlinkSocket(s) \/ UnlinkSession(s)
                \/ RemoveFallback(s) \/ RemoveDir(s) \/ Retry(s)

Bridge(s) == Start(s) \/ StartFails(s) \/ StopBegin(s) \/ StopFiles(s) \/ ProcessEnds(s)

-----------------------------------------------------------------------------
(* Discovery._scan() in a server: read, probe, remove. *)

At(d, place) == cand[d].at = place
Move(d, c) == cand' = [cand EXCEPT ![d] = c]
Quiet == UNCHANGED <<bridge, misjudged, age>>

\* An entry of the directory, with its identity; windows, cursor and backlog only
\* decide which scan gets to it.
Enumerate(d, s) ==
  /\ At(d, "idle")
  /\ dir[s] # None
  /\ Move(d, [at |-> "entry", s |-> s, i |-> dir[s]])
  /\ Quiet /\ UNCHANGED <<files, first, faults>>

\* _read_session(), of the directory with the entry's identity.  A session.json that is
\* there but cannot be opened or read, for whatever reason, counts as none.
Read(d) ==
  /\ At(d, "entry")
  /\ LET c == cand[d]
         there == dir[c.s] = c.i /\ c.s \in json
         unreadable(err) == [at |-> "unreadable", s |-> c.s, i |-> c.i, err |-> err]
     IN \/ /\ there
           /\ Move(d, [c EXCEPT !.at = "read"])
           /\ first' = [first EXCEPT ![d][c.i] = None]
           /\ UNCHANGED faults
        \/ /\ there /\ Fault
           /\ Move(d, unreadable(TRUE))
           /\ UNCHANGED first
        \/ /\ ~there
           /\ Move(d, unreadable(FALSE))
           /\ UNCHANGED <<first, faults>>
  /\ Quiet /\ UNCHANGED files

\* Mutant: no grace.
ExpiredAtOnce(d, i) == first[d][i] # None
\* Corrupt for longer than GRACE_SECONDS.
Expired(d, i) == first[d][i] # None /\ first[d][i] > Grace

\* Mutant: every look starts the grace period again.
SeenAgain(a) == 0
\* The first look at an unreadable directory starts its grace period.
Seen(a) == IF a = None THEN 0 ELSE a

\* A directory without a readable session.json is looked at again, and removed
\* when this server has seen it so for longer than GRACE_SECONDS - which does not ask
\* why it was not readable then, or is not now.
Unreadable(d) ==
  /\ At(d, "unreadable")
  /\ LET c == cand[d] IN
     \/ /\ dir[c.s] # c.i
        /\ Move(d, Idle) /\ UNCHANGED <<first, misjudged>>
     \/ /\ dir[c.s] = c.i /\ ~Expired(d, c.i)
        /\ Move(d, Idle)
        /\ first' = [first EXCEPT ![d][c.i] = Seen(@)]
        /\ UNCHANGED misjudged
     \/ /\ dir[c.s] = c.i /\ Expired(d, c.i)
        /\ Move(d, [at |-> "sweep", s |-> c.s, i |-> c.i, why |-> "unreadable"])
        /\ misjudged' = (IF c.err THEN misjudged \cup {c.s} ELSE misjudged)
        /\ UNCHANGED first
  /\ UNCHANGED <<bridge, files, age, faults>>

\* _probe(): is the process there?
ProbeProcess(d) ==
  /\ At(d, "read")
  /\ Move(d, [at |-> "probe", s |-> cand[d].s, i |-> cand[d].i,
              dead |-> cand[d].s \notin alive])
  /\ Quiet /\ UNCHANGED <<files, first, faults>>

Dead(d) == cand[d].dead

Answers(s) == s \in alive /\ pc[s] \in {"listening", "writing", "renamed", "live"}

\* What is removed first: a socket outside the directory needs session.json.
RemovedFirst(s) == IF s \in ext THEN "external" ELSE "sweep"

\* The socket is looked at and, when it is the session's own, a ping sent, which
\* may go unanswered although the session is well.  Both conditions are needed
\* for a removal: no process, and no answer.
ProbeSocket(d) ==
  /\ At(d, "probe")
  /\ LET s == cand[d].s IN
     \/ sock[s] = "wide" /\ Move(d, Idle)
     \/ sock[s] = "private" /\ Answers(s) /\ Move(d, Idle)
     \/ /\ sock[s] # "wide"
        /\ Move(d, IF Dead(d) THEN [at |-> RemovedFirst(s), s |-> s, i |-> cand[d].i, why |-> "dead"]
                   ELSE Idle)
  /\ Quiet /\ UNCHANGED <<files, first, faults>>

\* _remove_external_socket(): the socket and its directory, one after the other,
\* with the identities session.json recorded.
External(d) ==
  /\ At(d, "external")
  /\ LET s == cand[d].s IN
     \/ /\ s \in fall /\ sock[s] # None
        /\ sock' = [sock EXCEPT ![s] = None]
        /\ UNCHANGED <<cand, fall>>
     \/ /\ s \notin fall \/ sock[s] = None
        /\ fall' = fall \ {s}
        /\ Move(d, [cand[d] EXCEPT !.at = "sweep"])
        /\ UNCHANGED sock
  /\ Quiet /\ UNCHANGED <<dir, json, tmp, first, faults>>

\* _remove_session_dir(): opened by its name, checked against the entry's
\* identity; then session.json, its temporary file and the socket, in this order.
\* A socket file that is not private is left, and with it the directory.
Sweep(d) ==
  /\ At(d, "sweep")
  /\ LET s == cand[d].s IN
     IF dir[s] # cand[d].i \/ (s \notin ext /\ sock[s] = "wide" /\ s \notin json \cup tmp)
     THEN Move(d, Idle) /\ UNCHANGED files
     ELSE \/ /\ s \in json
             /\ json' = json \ {s}
             /\ UNCHANGED <<dir, tmp, sock, fall, cand>>
          \/ /\ s \notin json /\ s \in tmp
             /\ tmp' = tmp \ {s}
             /\ UNCHANGED <<dir, json, sock, fall, cand>>
          \/ /\ s \notin json \cup tmp
             /\ sock' = (IF s \in ext THEN sock ELSE [sock EXCEPT ![s] = None])
             /\ Move(d, [cand[d] EXCEPT !.at = "rmdir"])
             /\ UNCHANGED <<dir, json, tmp, fall>>
  /\ Quiet /\ UNCHANGED <<first, faults>>

\* rmdir by name, after a last look at the identity; a complete removal of an
\* unreadable directory ends its grace period.
Rmdir(d) ==
  /\ At(d, "rmdir")
  /\ LET c == cand[d]
         done == dir[c.s] = c.i /\ Empty(c.s)
     IN /\ dir' = (IF done THEN [dir EXCEPT ![c.s] = None] ELSE dir)
        /\ first' = (IF done /\ c.why = "unreadable"
                     THEN [first EXCEPT ![d][c.i] = None] ELSE first)
        /\ Move(d, Idle)
  /\ Quiet /\ UNCHANGED <<json, tmp, sock, fall, faults>>

\* The scan's deadline, or an error, ends the work on a candidate anywhere.
GiveUp(d) ==
  /\ ~At(d, "idle")
  /\ Move(d, Idle)
  /\ Fault
  /\ Quiet /\ UNCHANGED <<files, first>>

\* A new server process starts with nothing seen.
Restart(d) ==
  /\ Move(d, Idle)
  /\ first' = [first EXCEPT ![d] = [i \in Identities |-> None]]
  /\ Fault
  /\ Quiet /\ UNCHANGED files

Work(d) == Read(d) \/ Unreadable(d) \/ ProbeProcess(d) \/ ProbeSocket(d)
           \/ External(d) \/ Sweep(d) \/ Rmdir(d)
Server(d) == (\E s \in Sessions : Enumerate(d, s)) \/ Work(d) \/ GiveUp(d) \/ Restart(d)

-----------------------------------------------------------------------------
Older(a) == IF a \in 0..Grace THEN a + 1 ELSE a

\* Time passes.  A tick is longer than SCAN_DEADLINE, so a scan that is under way
\* has given up before it; and a start() takes less than GRACE_SECONDS.
Tick ==
  /\ \A d \in Servers : At(d, "idle")
  /\ \A s \in alive : pc[s] \in Starting /\ dir[s] # None => age[dir[s]] < Grace
  /\ age' = [i \in Identities |-> Older(age[i])]
  /\ first' = [d \in Servers |-> [i \in Identities |-> Older(first[d][i])]]
  /\ UNCHANGED <<bridge, files, cand, misjudged, faults>>

Next == (\E s \in Sessions : Bridge(s)) \/ (\E d \in Servers : Server(d)) \/ Tick

Spec == Init /\ [][Next]_vars

\* Running code runs, time passes, and the windows of the scans come round to
\* every entry.  A scan takes SCAN_DEADLINE at most and is made when a tool is
\* called, so again and again no server is scanning.
FairSpec == /\ Spec
            /\ \A s \in Sessions : WF_vars(Start(s) \/ StartFails(s)) /\ WF_vars(StopFiles(s))
            /\ \A d \in Servers : WF_vars(Work(d)) /\ \A s \in Sessions : SF_vars(Enumerate(d, s))
            /\ SF_vars(Tick) /\ []<>(\A d \in Servers : At(d, "idle"))

-----------------------------------------------------------------------------
(* Properties. *)

PCs == Starting \cup {"new", "live", "unlinking", "forgetting", "removing", "rmdir",
                      "incomplete", "abandoned", "clean"}
Candidates ==
  {Idle} \cup [at : {"entry", "read"}, s : Sessions, i : Identities]
         \cup [at : {"unreadable"}, s : Sessions, i : Identities, err : BOOLEAN]
         \cup [at : {"probe"}, s : Sessions, i : Identities, dead : BOOLEAN]
         \cup [at : {"external", "sweep", "rmdir"}, s : Sessions, i : Identities,
               why : {"dead", "unreadable"}]

TypeOK ==
  /\ pc \in [Sessions -> PCs]
  /\ alive \subseteq Sessions /\ owned \subseteq Sessions
  /\ retries \in [Sessions -> 0..2]
  /\ dir \in [Sessions -> Identities \cup {None}]
  /\ json \subseteq Sessions /\ tmp \subseteq Sessions /\ fall \subseteq ext /\ ext \subseteq Sessions
  /\ sock \in [Sessions -> {None, "wide", "private"}]
  /\ cand \in [Servers -> Candidates]
  /\ first \in [Servers -> [Identities -> Ages \cup {None}]]
  /\ misjudged \subseteq Sessions
  /\ age \in [Identities -> Ages]
  /\ faults \in 0..MaxFaults

Up(s) == s \in alive /\ pc[s] \in Starting \cup {"live"}

\* No server takes anything away from a session that is coming up or serving,
\* neither while it is half made nor when it is too busy to answer a ping - unless the
\* server fails to read its session.json, longer than GRACE_SECONDS after it first saw
\* none.  And what is found can be called, even then: a session.json points to a
\* private socket behind which its session listens.
LiveUntouched ==
  /\ TypeOK
  /\ \A s \in Sessions : Up(s) =>
       /\ s \in json => sock[s] = "private" /\ Answers(s)
       /\ s \notin misjudged =>
            /\ dir[s] # None
            /\ pc[s] \in {"bound", "listening", "writing", "renamed", "live"} => sock[s] # None
            /\ s \in ext /\ pc[s] # "made" => s \in fall
            /\ pc[s] = "writing" => s \in tmp
            /\ pc[s] \in {"renamed", "live"} => s \in json

\* stop() is complete only when nothing of the session is left, so that no later
\* start and no server finds a trace of it.
CompleteMeansGone ==
  \A s \in Sessions : pc[s] = "clean" =>
    dir[s] = None /\ s \notin json \cup tmp \cup fall \cup owned /\ sock[s] = None

\* session.json is what gives a server authority over a fallback directory under
\* /tmp: however many servers are at it, it is removed only after that directory, or by
\* one that could not read it for too long.
AuthorityKept ==
  [][\A s \in Sessions : s \notin alive /\ s \in json /\ s \notin json'
                           => s \notin fall \/ s \in misjudged]_vars

\* Whatever a dead session left in the directory is removed in the end, wherever
\* it was killed - but for one killed between bind() and chmod(), whose socket
\* is not private and is therefore kept - and in an order that loses nothing.
RemainsRemoved ==
  /\ AuthorityKept
  /\ \A s \in Sessions : s \notin alive /\ dir[s] # None ~>
       dir[s] = None \/ (sock[s] = "wide" /\ s \notin ext)
=============================================================================
