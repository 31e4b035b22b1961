--------------------------- MODULE MCSceneAndCalls ----------------------------
(* SceneSession and StatusCalls for TLC, side by side: one behaviour is either that of
   the driver and its scene reader in Blender or that of a client's calls in the
   server. They run in two processes that share only a socket, whose both ends are
   choices in them, so each is checked with the other standing still. *)
EXTENDS StatusCalls

CONSTANTS MaxSessions, MaxEdits, MaxFaults, MaxObjects, MaxCollections, NoSession
ASSUME BoundsAssumption ==
    /\ {MaxSessions, MaxEdits, MaxFaults, MaxObjects, MaxCollections} \subseteq Nat
    /\ NoSession \notin Nat

VARIABLES which,
          session, counter, status, revision, callbacks, inTick, scene, snap,
          faults, blind, dropped, published

Reader == INSTANCE SceneSession WITH None <- NoSession

readerVars == <<session, counter, status, revision, callbacks, inTick, scene, snap,
                faults, blind, dropped, published>>
MCVars == <<which, vars, readerVars>>

\* Changes of the scene and failing calls share one budget, except that a session may
\* be let go by a start and two stops that fail.
Frugal == scene'.version + faults' <=
            IF \E s \in Reader!Sessions : status'[s] = "lost" THEN MaxFaults ELSE MaxEdits
InScene == which = "scene"
InCalls == which = "calls"
MCNext == \/ InScene /\ Reader!Next /\ Frugal /\ UNCHANGED <<which, vars>>
          \/ InCalls /\ Next /\ UNCHANGED <<which, readerVars>>

MCInit == which \in {"scene", "calls"} /\ Init /\ Reader!Init
MCSpec ==
    /\ MCInit /\ [][MCNext]_MCVars
    /\ WF_readerVars(InScene /\ Reader!TickEnd)
    /\ WF_readerVars(InScene /\ Reader!TimerCleans)
    /\ \A c \in Calls :
         /\ WF_vars(InCalls /\ Status(c))
         /\ WF_vars(InCalls /\ Find(c))
         /\ WF_vars(InCalls /\ Summarise(c))
    /\ \A c \in Calls, i \in Instances :
         /\ WF_vars(InCalls /\ Begin(c, i))
         /\ WF_vars(InCalls /\ TimesOut(c, i))

-------------------------------------------------------------------------------
\* A revision names one state of the scene, and every change is counted (SceneSession,
\* where it is explained).
RevisionTrue == Reader!RevisionTrue
\* No session and no callback of the driver is out of reach (SceneSession).
NothingLost == Reader!NothingLost

\* Whatever broke is put away: a session whose I/O thread gave up is cleaned up by the
\* timer although the first attempts fail, and the calls of clients end with every
\* permit given back although bridges stay silent.
BothSettle == []<>CASE which = "scene" -> Reader!Tidy
                    [] which = "calls" -> Settled
===============================================================================
