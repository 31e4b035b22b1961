---------------------------- MODULE DiscoveryCache ----------------------------
(***************************************************************************)
(* server/core/discovery.py, from the caller's side: instances_with_stats, *)
(* its one-second cache, the invalidation signal, and how a scan of run/   *)
(* is spread over several calls.  An enumeration window takes at most      *)
(* Window entries from a directory cursor that stays open from one call to *)
(* the next; of these the Cap newest are read and probed and the others    *)
(* wait in a backlog that the next scans empty first.  A deadline may end  *)
(* a scan at any point.                                                    *)
(*                                                                         *)
(* Several threads call; `_lock' admits one at a time, so what a holder    *)
(* does between two looks at the outside (the directory, the signal) is    *)
(* one action.  Instances are numbered by the age of their directory, a    *)
(* larger number being newer.  How one candidate is read, probed and       *)
(* removed is SessionDirectory's subject: here a live instance is found    *)
(* when it is read, one that cannot be read yet is passed over in silence, *)
(* and one that is gone leaves the scan partial.                           *)
(***************************************************************************)
EXTENDS Naturals, FiniteSets, FiniteSetsExt

CONSTANTS Callers,          \* threads that look for instances
          MaxInstances,     \* instances that ever exist
          Window,           \* MAX_SCAN_ENTRIES
          Cap,              \* MAX_CANDIDATES
          MaxInvalidations, \* calls of invalidate()
          MaxCuts,          \* scans cut short before they have entries, and entries not readable
          Nothing

Instances == 1..MaxInstances

\* A scan in progress: what is still to be read, what was found, and for the properties
\* which instances stayed readable all the time and whether it covers run/ from the beginning.
Scans == [stage : {"begun", "reading", "done"}, epoch : 0..MaxInvalidations,
          window : SUBSET Instances, found : SUBSET Instances,
          partial : BOOLEAN, stayed : SUBSET Instances, whole : BOOLEAN]

ASSUME WindowsAssumption ==
  /\ {Window, Cap} \subseteq Nat \ {0}
  /\ {MaxInstances, MaxInvalidations, MaxCuts} \subseteq Nat
  /\ Nothing \notin Callers /\ Nothing \notin Nat /\ Nothing \notin Scans

VARIABLES
  live,     \* instances whose directory is there
  born,     \* how many there have been
  signal,   \* the one-slot queue _invalidations is full
  epoch,    \* history: calls of invalidate()
  cache,    \* _cache with the stats of its scan, or Nothing
  warm,     \* the cache is younger than the TTL
  cursor,   \* entries _scan_iter and _pending_entry still hold, or Nothing
  backlog,  \* _candidate_backlog
  lock,     \* the holder of _lock, or Nothing
  scan,     \* the scan of the holder, or Nothing
  asked,    \* asked[c]: the epoch c's call began in, or Nothing
  answer,   \* answer[c]: what c's last call returned, or Nothing
  cuts      \* scans cut short and entries not readable so far

world == <<live, born>>
calls == <<asked, answer>>
progress == <<cursor, backlog>>
cacheVars == <<world, signal, epoch, cache, warm, progress, lock, scan, calls, cuts>>

CacheInit ==
  /\ live = {} /\ born = 0
  /\ signal = FALSE /\ epoch = 0
  /\ cache = Nothing /\ warm = FALSE
  /\ cursor = Nothing /\ backlog = {}
  /\ lock = Nothing /\ scan = Nothing
  /\ asked = [c \in Callers |-> Nothing]
  /\ answer = [c \in Callers |-> Nothing]
  /\ cuts = 0

-----------------------------------------------------------------------------
(* Outside: Blenders come and go, time passes, a Bridge fails to answer. *)

\* scandir() may or may not return an entry that is made while it runs.
Appear ==
  /\ born < MaxInstances
  /\ born' = born + 1
  /\ live' = live \cup {born'}
  /\ cursor' \in IF cursor = Nothing THEN {Nothing} ELSE {cursor, cursor \cup {born'}}
  /\ UNCHANGED <<signal, epoch, cache, warm, backlog, lock, scan, calls, cuts>>

\* An instance that goes counts no more as one the scan in progress should report.
Vanish ==
  \E i \in live :
    /\ live' = live \ {i}
    /\ scan' = IF scan = Nothing THEN Nothing ELSE [scan EXCEPT !.stayed = @ \ {i}]
    /\ UNCHANGED <<born, signal, epoch, cache, warm, progress, lock, calls, cuts>>

\* The cache reaches its TTL.
Expire ==
  /\ warm
  /\ warm' = FALSE
  /\ UNCHANGED <<world, signal, epoch, cache, progress, lock, scan, calls, cuts>>

\* invalidate(): put_nowait; a full queue stands for this signal too.
Invalidate ==
  /\ epoch < MaxInvalidations
  /\ epoch' = epoch + 1
  /\ signal' = TRUE
  /\ UNCHANGED <<world, cache, warm, progress, lock, scan, calls, cuts>>

-----------------------------------------------------------------------------
(* instances_with_stats(). *)

Call(c) ==
  /\ asked[c] = Nothing
  /\ asked' = [asked EXCEPT ![c] = epoch]
  /\ answer' = [answer EXCEPT ![c] = Nothing]
  /\ UNCHANGED <<world, signal, epoch, cache, warm, progress, lock, scan, cuts>>

Return(c, result) ==
  /\ answer' = [answer EXCEPT ![c] = [found |-> result.found, partial |-> result.partial,
                                      stale |-> result.epoch < asked[c],
                                      hidden |-> result.hidden, whole |-> result.whole]]
  /\ asked' = [asked EXCEPT ![c] = Nothing]

\* The deadline passes before the lock is free: no instances, and partial.
LockDeadline(c) ==
  /\ asked[c] # Nothing /\ lock # c
  /\ asked' = [asked EXCEPT ![c] = Nothing]
  /\ UNCHANGED <<world, signal, epoch, cache, warm, progress, lock, scan, answer, cuts>>

\* A signal taken on entry or after a scan drops the cache.
Retained == IF signal THEN Nothing ELSE cache

\* The lock is free and the cache is good enough.
FromCache(c) ==
  /\ asked[c] # Nothing /\ lock = Nothing
  /\ Retained # Nothing /\ warm
  /\ signal' = FALSE /\ cache' = Retained
  /\ Return(c, cache)
  /\ UNCHANGED <<world, epoch, warm, progress, lock, scan, cuts>>

\* Otherwise the caller holds the lock and begins a scan.
ScanBegin(c) ==
  /\ asked[c] # Nothing /\ lock = Nothing
  /\ Retained = Nothing \/ ~warm
  /\ signal' = FALSE /\ cache' = Retained
  /\ lock' = c
  /\ scan' = [stage |-> "begun", epoch |-> epoch, window |-> {}, found |-> {},
              partial |-> FALSE, stayed |-> live,
              whole |-> cursor = Nothing /\ backlog = {}]
  /\ UNCHANGED <<world, epoch, warm, progress, calls, cuts>>

\* _scan() ends before it has any entries: its deadline is over, or run/ cannot be
\* opened; the latter, and a cursor that cannot be confirmed, drop cursor and backlog.
ScanCutShort ==
  /\ scan # Nothing /\ scan.stage = "begun"
  /\ cuts < MaxCuts /\ cuts' = cuts + 1
  /\ scan' = [scan EXCEPT !.stage = "done", !.partial = TRUE]
  /\ \/ UNCHANGED progress
     \/ cursor' = Nothing /\ backlog' = {}
  /\ UNCHANGED <<world, signal, epoch, cache, warm, lock, calls>>

\* Mutant: one candidate less than there is room for.
NewestShort(S, n) == {i \in S : Cardinality({j \in S : j > i}) + 1 < n}
Newest(S, n) == {i \in S : Cardinality({j \in S : j > i}) < n}

\* What does not fit waits in _candidate_backlog.
Rest(rest) == rest

\* Mutant: a window that is cut to Cap candidates still counts as complete.
CutCounts(partial, entries) == partial
\* The "candidate cap" reason.
Cut(partial, entries) == partial \/ Cardinality(entries) > Cap

\* The Cap newest entries are read in this scan.
ReadIn(entries, partial) ==
  /\ scan' = [scan EXCEPT !.stage = "reading", !.window = Newest(entries, Cap),
                          !.partial = Cut(partial, entries)]
  /\ backlog' = Rest(entries \ Newest(entries, Cap))

\* A backlog comes first; that there is more to enumerate is then reported.
TakeBacklog ==
  /\ scan # Nothing /\ scan.stage = "begun" /\ backlog # {}
  /\ ReadIn(backlog, cursor # Nothing)
  /\ UNCHANGED <<world, signal, epoch, cache, warm, cursor, lock, calls, cuts>>

\* _enumerate(): up to Window entries from the cursor, opened first if there is none.
\* Fewer come only when the directory is exhausted, which closes the cursor, or the
\* deadline is reached.  A full window never knows that it was the last.  Entries
\* that are gone are not directories any more and are passed over.
TakeWindow(late) ==
  /\ scan # Nothing /\ scan.stage = "begun" /\ backlog = {}
  /\ LET entries == IF cursor = Nothing THEN live ELSE cursor
     IN \E taken \in SUBSET entries :
          /\ Cardinality(taken) <= Window
          /\ ~late => taken = entries \/ Cardinality(taken) = Window
          /\ late => Cardinality(taken) < Window
          /\ cursor' = IF ~late /\ Cardinality(taken) < Window THEN Nothing ELSE entries \ taken
          /\ ReadIn(taken \cap live, late \/ Cardinality(taken) = Window)
  /\ UNCHANGED <<world, signal, epoch, cache, warm, lock, calls, cuts>>

\* _read_session() and _probe() of the next entry.  One whose session.json is not there
\* yet, or cannot be read, is left out without a word while its grace period lasts.
ReadNext ==
  /\ scan # Nothing /\ scan.stage = "reading" /\ scan.window # {}
  /\ LET i == Max(scan.window)
     IN \/ /\ scan' = [scan EXCEPT !.window = @ \ {i},
                                   !.found = IF i \in live THEN @ \cup {i} ELSE @,
                                   !.partial = @ \/ i \notin live]
           /\ UNCHANGED cuts
        \/ /\ i \in live
           /\ cuts < MaxCuts /\ cuts' = cuts + 1
           /\ scan' = [scan EXCEPT !.window = @ \ {i}, !.stayed = @ \ {i}]
  /\ UNCHANGED <<world, signal, epoch, cache, warm, progress, lock, calls>>

\* The deadline passes while sessions are read: the others go back to the backlog.
ReadDeadline ==
  /\ scan # Nothing /\ scan.stage = "reading" /\ scan.window # {}
  /\ scan' = [scan EXCEPT !.stage = "done", !.partial = TRUE, !.window = {}]
  /\ backlog' = Rest(scan.window) \cup backlog
  /\ UNCHANGED <<world, signal, epoch, cache, warm, cursor, lock, calls, cuts>>

Outcome == [found |-> scan.found, partial |-> scan.partial, epoch |-> scan.epoch,
            hidden |-> IF scan.partial THEN {} ELSE scan.stayed \ scan.found, whole |-> scan.whole]

\* Mutant: a scan is published whatever happened while it ran.
PublishAnyway == Outcome
\* A signal that came during the scan keeps its result out of the cache.
Kept == IF signal THEN Nothing ELSE Outcome

ScanEnd ==
  /\ scan # Nothing
  /\ \/ scan.stage = "done"
     \/ scan.stage = "reading" /\ scan.window = {}
  /\ signal' = FALSE
  /\ cache' = Kept
  /\ warm' = (Kept # Nothing)
  /\ Return(lock, Outcome)
  /\ lock' = Nothing /\ scan' = Nothing
  /\ UNCHANGED <<world, epoch, progress, cuts>>

CacheNext == \/ Appear \/ Vanish \/ Expire \/ Invalidate
        \/ \E c \in Callers : Call(c) \/ LockDeadline(c) \/ FromCache(c) \/ ScanBegin(c)
        \/ ScanCutShort \/ TakeBacklog \/ (\E late \in BOOLEAN : TakeWindow(late))
        \/ ReadNext \/ ReadDeadline \/ ScanEnd

CacheSpec == CacheInit /\ [][CacheNext]_cacheVars

\* Tools go on being called, time passes, and again and again a scan has the time
\* for an entry or a window.
CacheFairSpec ==
  /\ CacheSpec
  /\ WF_cacheVars(\E c \in Callers : Call(c))
  /\ SF_cacheVars(\E c \in Callers : ScanBegin(c))
  /\ WF_cacheVars(Expire) /\ WF_cacheVars(ScanEnd) /\ WF_cacheVars(TakeBacklog)
  /\ SF_cacheVars(TakeWindow(FALSE)) /\ WF_cacheVars(\E late \in BOOLEAN : TakeWindow(late))
  /\ SF_cacheVars(ReadNext)

-----------------------------------------------------------------------------
(* Properties. *)

Outcomes == [found : SUBSET Instances, partial : BOOLEAN, epoch : 0..MaxInvalidations,
             hidden : SUBSET Instances, whole : BOOLEAN]

Results == [found : SUBSET Instances, partial : BOOLEAN, stale : BOOLEAN,
            hidden : SUBSET Instances, whole : BOOLEAN]

CacheTypeOK ==
  /\ live \subseteq Instances /\ born \in 0..MaxInstances
  /\ signal \in BOOLEAN /\ epoch \in 0..MaxInvalidations
  /\ cache \in Outcomes \cup {Nothing} /\ warm \in BOOLEAN
  /\ cursor \in (SUBSET Instances) \cup {Nothing} /\ backlog \subseteq Instances
  /\ lock \in Callers \cup {Nothing}
  /\ scan \in Scans \cup {Nothing}
  /\ lock = Nothing <=> scan = Nothing
  /\ asked \in [Callers -> 0..MaxInvalidations \cup {Nothing}]
  /\ answer \in [Callers -> Results \cup {Nothing}]
  /\ cuts \in 0..MaxCuts

\* A call that begins after invalidate() has returned is never answered by a scan
\* that began before it, whether that scan is cached, running or about to publish.
NoStaleAnswer ==
  /\ CacheTypeOK
  /\ \A c \in Callers : answer[c] # Nothing => ~answer[c].stale

\* A scan that covers run/ from its beginning and is not called partial reports
\* every instance that was there, and could be read, all the time it took.
WholeScanHonest ==
  \A c \in Callers : answer[c] # Nothing /\ answer[c].whole => answer[c].hidden = {}

\* docs/architecture.md:80 promises as much of every scan: a limited one reports the
\* part it did not cover through `partial'.
UncoveredIsReported == \A c \in Callers : answer[c] # Nothing => answer[c].hidden = {}

\* The oldest instance does not starve behind the newer ones, which every scan looks
\* at first: as long as it stays it is reported again and again.
OldestReported ==
  []<>(1 \notin live \/ \E c \in Callers : answer[c] # Nothing /\ 1 \in answer[c].found)
=============================================================================
