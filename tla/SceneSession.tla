---------------------------- MODULE SceneSession ----------------------------
(***************************************************************************)
(* bridge/blender/driver.py and scene_reader.py: the Blender side of the   *)
(* Bridge.  driver keeps at most one session together with the revision    *)
(* counter its scene reader uses, and three persistent callbacks: the      *)
(* timer that ticks the session, and the depsgraph and load_pre handlers   *)
(* that bump the counter.  A scene_summary is a continuation that reads    *)
(* the scene in batches between which the user edits and loads files; the  *)
(* counter tells it that what it has read is out of date.                  *)
(*                                                                         *)
(* Everything here runs on Blender's main thread, one call at a time, save *)
(* the session's I/O thread, which may set `stopped' at any moment.  Each  *)
(* call of driver is one action whose inner steps may fail (at most        *)
(* MaxFaults times altogether); each next() of a continuation is one       *)
(* action.  Blender reports an edit to the depsgraph handler before any    *)
(* timer runs, so an edit and its callback are one action.                 *)
(***************************************************************************)
EXTENDS Naturals, FiniteSets

CONSTANTS MaxSessions,    \* sessions started
          MaxEdits,       \* edits and file loads
          MaxFaults,      \* failing calls
          MaxObjects,     \* batches of 1024 objects in a scene
          MaxCollections, \* batches of 128 collections
          None            \* not a number

VARIABLES
  session,    \* _state["session"]
  counter,    \* _state["counter"], named by the session it was made for
  status,     \* status[s]: the life of session s
  revision,   \* revision[s]: value and generation of s's RevisionCounter
  callbacks,  \* the callbacks registered with Blender
  inTick,     \* the main thread is in session.tick()
  scene,      \* bpy.data: a version per change, and how many batches it takes
  snap,       \* the continuation of the current scene_summary, or None
  faults,     \* failing calls so far
  blind,      \* history: live sessions that were not told of a change
  dropped,    \* history: Blender lost a callback
  published   \* history: the snapshots returned, with the versions they show

driver == <<session, counter, status, callbacks>>
history == <<blind, dropped, published>>
vars == <<driver, revision, inTick, scene, snap, faults, history>>

Sessions == 1..MaxSessions
Handlers == {"depsgraph", "load_pre"}
Callbacks == Handlers \cup {"timer"}

Init ==
  /\ session = None /\ counter = None
  /\ status = [s \in Sessions |-> "unborn"]
  /\ revision = [s \in Sessions |-> [value |-> 0, generation |-> 0]]
  /\ callbacks = {}
  /\ inTick = FALSE
  /\ scene = [version |-> 0, objects |-> MaxObjects, collections |-> MaxCollections]
  /\ snap = None
  /\ faults = 0
  /\ blind = {} /\ dropped = FALSE /\ published = {}

-----------------------------------------------------------------------------
(* The user and Blender, between ticks. *)

\* bump() and bump_generation().
Bump(s) == [revision EXCEPT ![s].value = @ + 1]
BumpGeneration(s) == [revision EXCEPT ![s].value = @ + 1, ![s].generation = @ + 1]

Change ==
  /\ ~inTick
  /\ scene.version < MaxEdits
  /\ \E o \in 0..MaxObjects, c \in 0..MaxCollections :
       scene' = [version |-> scene.version + 1, objects |-> o, collections |-> c]

\* A change that callback cb does not pass on leaves a session that may still be
\* asked for its scene blind.
Unseen(cb) ==
  blind' = IF cb \in callbacks THEN blind \cup {s \in Sessions \ {counter} : status[s] = "live"}
           ELSE blind \cup {s \in Sessions : status[s] = "live"}

\* _on_depsgraph and _on_load_pre, called by Blender when they are registered.
Notify(cb, bumped) ==
  revision' = IF cb \in callbacks /\ counter # None THEN bumped ELSE revision

Edit == /\ Change
        /\ Notify("depsgraph", Bump(counter))
        /\ Unseen("depsgraph")
        /\ UNCHANGED <<driver, inTick, snap, faults, dropped, published>>

Load == /\ Change
        /\ Notify("load_pre", BumpGeneration(counter))
        /\ Unseen("load_pre")
        /\ UNCHANGED <<driver, inTick, snap, faults, dropped, published>>

\* A reload of the file loses callbacks that were persistent.
DropCallbacks ==
  /\ ~inTick /\ ~dropped
  /\ \E lost \in SUBSET callbacks \ {{}} : callbacks' = callbacks \ lost
  /\ dropped' = TRUE
  /\ UNCHANGED <<session, counter, status, revision, inTick, scene, snap,
                 faults, blind, published>>

-----------------------------------------------------------------------------
(* driver.start(), stop() and the cleaning part of _tick_guard(). *)

Charge(cost) == faults + cost <= MaxFaults /\ faults' = faults + cost

\* The hooks stop() and start() pass on: _unregister_timer, _unregister_handlers.
StopHooks == Callbacks

\* The callbacks session.stop(hooks) can unregister out of those registered: all
\* of them when every step succeeds.  A step that fails does not keep the others
\* from running; within _unregister_handlers the depsgraph handler goes first.
Unregisters(hooks, registered, complete) ==
  {gone \in SUBSET (hooks \cap registered) :
     IF complete THEN gone = hooks \cap registered
     ELSE "load_pre" \in gone => "depsgraph" \notin registered \ gone}

\* Mutant: the session is forgotten although its cleanup did not complete.
ForgetSession(st, s, left, complete, failed, cost) ==
  /\ callbacks' = left
  /\ snap' = None
  /\ session' = None /\ counter' = None
  /\ status' = [st EXCEPT ![s] = IF complete THEN "clean" ELSE failed]
  /\ Charge(IF complete THEN cost ELSE cost + 1)

\* stop() has drained the queue and with it the continuation.  The session is
\* forgotten only when its cleanup was complete, else it is kept for a retry.
EndSession(st, s, left, complete, failed, cost) ==
  /\ callbacks' = left
  /\ snap' = None
  /\ session' = (IF complete THEN None ELSE s)
  /\ counter' = (IF complete THEN None ELSE s)
  /\ status' = [st EXCEPT ![s] = IF complete THEN "clean" ELSE failed]
  /\ Charge(IF complete THEN cost ELSE cost + 1)

\* _ensure_callbacks(), successful.
Ensured == Callbacks

\* _ensure_callbacks() fails: it takes back the callbacks it added, some of which
\* may stay because taking them back fails too; then the session is stopped.
EnsureFails(st, s, before) ==
  \E registered \in SUBSET Callbacks, complete \in BOOLEAN :
    /\ before \subseteq registered
    /\ \E gone \in Unregisters(StopHooks, registered, complete) :
         EndSession(st, s, registered \ gone, complete, "stopped", 1)

\* BridgeSession.start() raises after it has called its own stop(), and once more if
\* that was incomplete; if that fails too, the session is let go with what it has.
StartFails(st, s) ==
  \/ status' = st /\ Charge(1)
  \/ status' = [st EXCEPT ![s] = "lost"] /\ Charge(3)

\* start() from "counter = RevisionCounter()" on: BridgeSession.start() raises, or
\* its session is kept with a counter of its own and the callbacks registered.
StartNew(st, before) ==
  \E s \in Sessions :
    /\ \A n \in Sessions : n < s <=> st[n] # "unborn"
    /\ \/ /\ callbacks' = before
          /\ session' = None /\ counter' = None
          /\ snap' = None
          /\ StartFails(st, s)
       \/ /\ callbacks' = Ensured
          /\ session' = s /\ counter' = s
          /\ status' = [st EXCEPT ![s] = "live"]
          /\ snap' = None
          /\ UNCHANGED faults
       \/ EnsureFails(st, s, before)

Stopped(s) == status[s] \in {"aborted", "stopped"}
Unchanging == UNCHANGED <<revision, inTick, scene, history>>

StartFresh ==
  /\ ~inTick
  /\ session = None
  /\ StartNew(status, callbacks)
  /\ Unchanging

\* A session that is stopped is cleaned up first; start() raises if that fails.
StartOver ==
  /\ ~inTick
  /\ session # None /\ Stopped(session)
  /\ \/ \E gone \in Unregisters(StopHooks, callbacks, TRUE) :
          StartNew([status EXCEPT ![session] = "clean"], callbacks \ gone)
     \/ \E gone \in Unregisters(StopHooks, callbacks, FALSE) :
          EndSession(status, session, callbacks \ gone, FALSE, "stopped", 0)
  /\ Unchanging

\* start() with a live session registers the callbacks that are missing.
StartHeal ==
  /\ ~inTick
  /\ session # None /\ status[session] = "live"
  /\ \/ /\ callbacks' = Ensured
        /\ UNCHANGED <<session, counter, status, snap, faults>>
     \/ EnsureFails(status, session, callbacks)
  /\ Unchanging

\* stop(): the user disconnects, or the add-on is unregistered.
Stop ==
  /\ ~inTick
  /\ session # None
  /\ \E complete \in BOOLEAN : \E gone \in Unregisters(StopHooks, callbacks, complete) :
       EndSession(status, session, callbacks \ gone, complete, "stopped", 0)
  /\ Unchanging

\* Mutant: the guard leaves the timer after one attempt.
CleanOnce ==
  /\ ~inTick
  /\ "timer" \in callbacks /\ session # None /\ Stopped(session)
  /\ \E complete \in BOOLEAN : \E gone \in Unregisters(Handlers, callbacks, complete) :
       EndSession(status, session, (callbacks \ gone) \ {"timer"}, complete, status[session], 0)
  /\ Unchanging

\* The timer finds its session stopped and cleans up.  It stays registered until
\* that is complete and then returns None, which unregisters it.
TimerCleans ==
  /\ ~inTick
  /\ "timer" \in callbacks /\ session # None /\ Stopped(session)
  /\ \E complete \in BOOLEAN : \E gone \in Unregisters(Handlers, callbacks, complete) :
       EndSession(status, session,
                  IF complete THEN (callbacks \ gone) \ {"timer"} ELSE callbacks \ gone,
                  complete, status[session], 0)
  /\ Unchanging

\* The I/O thread of a session gives up for good (BridgeSession._io_loop).
Abort ==
  /\ session # None /\ status[session] = "live"
  /\ status' = [status EXCEPT ![session] = "aborted"]
  /\ Charge(1)
  /\ UNCHANGED <<session, counter, callbacks, revision, inTick, scene, snap, history>>

-----------------------------------------------------------------------------
(* The timer ticks a live session: steps of the scene_summary continuation. *)

Request ==
  /\ session # None /\ status[session] = "live" /\ snap = None
  /\ snap' = [stage |-> "start"]
  /\ UNCHANGED <<driver, revision, inTick, scene, faults, history>>

TickBegin ==
  /\ ~inTick
  /\ "timer" \in callbacks /\ session # None /\ status[session] = "live"
  /\ inTick' = TRUE
  /\ UNCHANGED <<driver, revision, scene, snap, faults, history>>

TickEnd == /\ inTick
           /\ inTick' = FALSE
           /\ UNCHANGED <<driver, revision, scene, snap, faults, history>>

\* _check_marker() raises when the counter has moved since the marker was taken.
Moved(n) == revision[session] # n.marker

Yield(n) == snap' = n /\ UNCHANGED published
\* SnapshotInvalidated or SnapshotLimitExceeded: an error frame is the answer.
Raise == snap' = None /\ UNCHANGED published

See(n) == [n EXCEPT !.next = @ + 1, !.seen = @ \cup {scene.version}]

\* One batch of objects; it may also exceed a limit.
ReadObjects(n) ==
  /\ n.next < n.total
  /\ IF Moved(n) \/ scene.objects # n.total THEN Raise ELSE Raise \/ Yield(See(n))

\* Up to 128 lines are hashed between two yields.
HashLines(n) ==
  /\ n.next = n.total /\ n.total > 0
  /\ IF Moved(n) THEN Raise ELSE Yield([n EXCEPT !.stage = "hash"])

\* Mutant: the last check is left out.
PublishUnchecked(n) ==
  /\ snap' = [stage |-> "encoding"]
  /\ published' = published \cup
       (IF session \in blind THEN {}
        ELSE {[session |-> session, revision |-> n.marker.value,
               shows |-> n.seen \cup {scene.version}]})

\* The name, path and units are read and the snapshot returned; its frame is
\* encoded piece by piece from here on.
Publish(n) ==
  IF Moved(n) THEN Raise
  ELSE /\ snap' = [stage |-> "encoding"]
       /\ published' = published \cup
            (IF session \in blind THEN {}
             ELSE {[session |-> session, revision |-> n.marker.value,
                    shows |-> n.seen \cup {scene.version}]})

ReadCollections(n) ==
  \/ /\ n.next < n.total
     /\ IF Moved(n) \/ scene.collections # n.total THEN Raise ELSE Raise \/ Yield(See(n))
  \/ n.next = n.total /\ Publish(n)

\* The collections are counted when their turn comes, if they are wanted at all.
EnterCollections(n) ==
  \E total \in {0, scene.collections} :
    ReadCollections([n EXCEPT !.stage = "collections", !.next = 0, !.total = total])

\* The first step counts the objects, takes the marker and goes straight on.
Begin ==
  LET n == [stage |-> "objects", next |-> 0, total |-> scene.objects,
            marker |-> revision[session], seen |-> {scene.version}]
  IN ReadObjects(n) \/ (n.total = 0 /\ EnterCollections(n))

\* One next() of the continuation.
Step ==
  /\ inTick /\ snap # None
  /\ \/ snap.stage = "start" /\ Begin
     \/ snap.stage = "objects" /\ (ReadObjects(snap) \/ HashLines(snap))
     \/ snap.stage = "hash" /\ (HashLines(snap) \/ EnterCollections(snap))
     \/ snap.stage = "collections" /\ ReadCollections(snap)
     \/ snap.stage = "encoding" /\ Raise   \* the frame is complete
  /\ UNCHANGED <<driver, revision, inTick, scene, faults, blind, dropped>>

Next == \/ Edit \/ Load \/ DropCallbacks
        \/ StartFresh \/ StartOver \/ StartHeal \/ Stop \/ TimerCleans \/ Abort
        \/ Request \/ TickBegin \/ TickEnd \/ Step

Spec == Init /\ [][Next]_vars

\* Blender runs a registered timer again and again, and a tick comes to its end.
FairSpec == Spec /\ WF_vars(TickEnd) /\ WF_vars(TimerCleans)

-----------------------------------------------------------------------------
(* Properties. *)

Markers == [value : 0..MaxEdits, generation : 0..MaxEdits]
Versions == 0..MaxEdits
Reading == [stage : {"objects", "hash", "collections"}, next : Nat, total : Nat,
            marker : Markers, seen : SUBSET Versions]

TypeOK ==
  /\ session \in Sessions \cup {None} /\ counter \in Sessions \cup {None}
  /\ status \in [Sessions -> {"unborn", "live", "aborted", "stopped", "clean", "lost"}]
  /\ revision \in [Sessions -> Markers]
  /\ callbacks \subseteq Callbacks
  /\ inTick \in BOOLEAN
  /\ scene \in [version : Versions, objects : 0..MaxObjects,
                collections : 0..MaxCollections]
  /\ snap = None \/ snap \in [stage : {"start", "encoding"}] \/ snap \in Reading
  /\ faults \in 0..MaxFaults
  /\ blind \subseteq Sessions /\ dropped \in BOOLEAN
  /\ published \subseteq [session : Sessions, revision : Nat, shows : SUBSET Versions]

\* scene_revision names what a scene_summary shows: no snapshot mixes two states
\* of the scene, and two of one session with one revision show the same state.
\* Nor does a continuation ever put batches of two scenes together, even one it has
\* not answered with: after a load its next step ends it before it touches data that
\* Blender has freed.
RevisionNamesScene ==
  /\ \A p, q \in published :
       /\ Cardinality(p.shows) = 1
       /\ p.session = q.session /\ p.revision = q.revision => p.shows = q.shows
  /\ snap # None /\ snap.stage \in {"objects", "hash", "collections"} /\ session \notin blind
       => Cardinality(snap.seen) = 1

\* Unless Blender itself loses a callback, every change made while a session may
\* be asked for its scene is counted, whatever starts, repairs and failed stops
\* came before.
ChangesCounted == ~dropped => blind = {}

\* The revision a client is given can be relied on: it names one state of the scene,
\* and no change is left out of it (the two parts).
RevisionTrue == RevisionNamesScene /\ ChangesCounted

\* No session whose I/O thread gave up waits for its cleanup, which is the timer's, also
\* when the first attempts fail; unless Blender lost the timer, this comes true again
\* and again.
Tidy == dropped \/ \A s \in Sessions : status[s] # "aborted"

\* Nothing is out of reach: a session that may still own a socket, a thread or a
\* file is the one driver holds, for the panel's Disconnect and the timer to get at,
\* and with no session no callback of the driver stays behind in Blender.  The one
\* exception is a session that could not start and whose own two stops failed: start()
\* logs that and raises, and neither the driver nor a callback refers to it.
NothingLost ==
  /\ TypeOK
  /\ \A s \in Sessions : status[s] \in {"live", "aborted", "stopped"} => session = s
  /\ \A s \in Sessions : status[s] = "lost" => s \notin {session, counter}
  /\ session = None => callbacks = {}
=============================================================================
