------------------------- MODULE SceneAndCallsProofs -------------------------
(****************************************************************************)
(* Proofs about the two modules that MCSceneAndCalls checks side by side:   *)
(* StatusCalls, for any calls, permits and finite set of instances, and     *)
(* SceneSession, for any number of sessions, edits, loads and failing calls.*)
(****************************************************************************)
EXTENDS MCSceneAndCalls, FiniteSetTheorems, TLAPS

Pcs == {"new", "admit", "hook", "collect", "cancel", "rows", "fail", "failed", "answered"} \cup Summary
Sts == {None, "queued"} \cup Running \cup Ended

Typed ==
  /\ pc \in [Calls -> Pcs]
  /\ live \in [Calls -> SUBSET Instances] /\ asked \in [Calls -> SUBSET Instances]
  /\ answers \in [Calls -> [Instances -> {None} \cup Ended]]
  /\ skipped \in [Calls -> Nat] /\ stale \subseteq Calls
  /\ st \in [Calls -> [Instances -> Sts]]
  /\ hooked \in [Calls -> SUBSET Instances] /\ permits \in Nat

\* An instance is asked once, and only what was asked has a future.
Futures(c) ==
  /\ live[c] \cap asked[c] = {} /\ hooked[c] \subseteq asked[c]
  /\ \A i \in Instances : st[c][i] # None => i \in asked[c]
  /\ Collected(c) \subseteq asked[c]
  /\ pc[c] = "new" => live[c] = {} /\ asked[c] = {}
  /\ pc[c] \in Summary => hooked[c] = {}

\* Every permit that is out is with a future that will give it back.
Counted == IsFiniteSet(Taken) /\ StatusPermits

\* What a call has counted as skipped so far, and which failures it knows of.
Accounted(c) ==
  /\ pc[c] \in {"new", "admit", "hook", "fail"} => skipped[c] = 0 /\ Collected(c) = {}
  /\ pc[c] = "admit" /\ live[c] = {} => asked[c] = {}
  /\ pc[c] = "collect" => skipped[c] = Cardinality(live[c])
  /\ pc[c] \in {"cancel", "rows", "answered"} => skipped[c] = Cardinality(Unseen(c))
  /\ pc[c] = "cancel" => c \in stale
  /\ pc[c] \in {"rows", "answered"} /\ Missing(c) # {} => c \in stale
  /\ \A i \in asked[c] : answers[c][i] \in {"unavailable", "timeout"} => c \in stale

CallsInv == Typed /\ (\A c \in Calls : Futures(c)) /\ Counted /\ \A c \in Calls : Accounted(c)

-----------------------------------------------------------------------------
(* Counting. *)

LEMMA FewInstances ==
  ASSUME NEW S \in SUBSET Instances
  PROVE  IsFiniteSet(S) /\ Cardinality(S) \in Nat
  BY StatusAssumption, FS_Subset, FS_CardinalityType

LEMMA TwoParts ==
  ASSUME NEW A \in SUBSET Instances, NEW B \in SUBSET Instances, A \cap B = {}
  PROVE  Cardinality(A \cup B) = Cardinality(A) + Cardinality(B)
<1>1. IsFiniteSet(A) /\ Cardinality(A) \in Nat /\ IsFiniteSet(B) /\ Cardinality(B) \in Nat
  BY FewInstances
<1>2. Cardinality(A \cup B) = Cardinality(A) + Cardinality(B) - Cardinality(A \cap B)
  BY <1>1, FS_Union
<1>3. Cardinality(A \cap B) = 0
  BY FS_EmptySet
<1>4. QED BY <1>1, <1>2, <1>3

\* As many futures of one call as instances.
LEMMA FuturesOf ==
  ASSUME NEW c \in Calls, NEW S \in SUBSET Instances
  PROVE  IsFiniteSet({c} \X S) /\ Cardinality({c} \X S) = Cardinality(S)
<1>1. IsFiniteSet({c}) /\ Cardinality({c}) = 1
  BY FS_Singleton
<1>2. IsFiniteSet(S) /\ Cardinality(S) \in Nat
  BY FewInstances
<1>3. IsFiniteSet({c} \X S) /\ Cardinality({c} \X S) = Cardinality({c}) * Cardinality(S)
  BY <1>1, <1>2, FS_Product
<1>4. QED BY <1>1, <1>2, <1>3

\* Futures that are done give back as many permits as they had.
LEMMA GivenBack ==
  ASSUME Counted, permits \in Nat, NEW c \in Calls, NEW S \in SUBSET Instances,
         {c} \X S \subseteq Taken, Taken' = Taken \ ({c} \X S), permits' = permits + Cardinality(S)
  PROVE  Counted' /\ permits' \in Nat
<1> DEFINE F == {c} \X S
<1>1. IsFiniteSet(F) /\ Cardinality(F) = Cardinality(S) /\ Cardinality(S) \in Nat
  BY FuturesOf, FewInstances
<1>2. IsFiniteSet(Taken) /\ permits + Cardinality(Taken) = Permits
  BY DEF Counted, StatusPermits
<1>3. Taken \cap F = F
  OBVIOUS
<1> HIDE DEF F
<1>4. IsFiniteSet(Taken \ F) /\ Cardinality(Taken \ F) = Cardinality(Taken) - Cardinality(F)
  BY <1>2, <1>3, FS_Difference
<1>5. Cardinality(Taken) \in Nat /\ Permits \in Nat
  BY <1>2, FS_CardinalityType, StatusAssumption
<1>6. Taken' = Taken \ F
  BY DEF F
<1>7. IsFiniteSet(Taken') /\ Cardinality(Taken') = Cardinality(Taken) - Cardinality(S)
  BY <1>1, <1>4, <1>6
<1>8. permits' + Cardinality(Taken') = Permits /\ permits' \in Nat
  BY <1>1, <1>2, <1>5, <1>7
<1>9. QED BY <1>7, <1>8 DEF Counted, StatusPermits

LEMMA CountedSame ==
  ASSUME Counted, Taken' = Taken, permits' = permits
  PROVE  Counted'
  BY DEF Counted, StatusPermits

\* Whether a future has a permit depends on its own call only.
HasPermit(c, i) == pc[c] \notin Summary /\ i \in asked[c] /\ ~(st[c][i] \in Ended /\ i \in hooked[c])

\* Steps after which the same futures have permits.
LEMMA SamePermits ==
  ASSUME \A c \in Calls, i \in Instances : HasPermit(c, i)' = HasPermit(c, i)
  PROVE  Taken' = Taken
  BY DEF Taken, HasPermit

\* Steps after which the futures of S have none any more.
LEMMA FewerPermits ==
  ASSUME NEW c \in Calls, NEW S \in SUBSET Instances,
         \A i \in S : HasPermit(c, i),
         \A d \in Calls, i \in Instances : HasPermit(d, i)' = (HasPermit(d, i) /\ ~(d = c /\ i \in S))
  PROVE  {c} \X S \subseteq Taken /\ Taken' = Taken \ ({c} \X S)
<1>1. {c} \X S \subseteq Taken
  BY DEF Taken, HasPermit
<1>2. ASSUME NEW f \in Calls \X Instances
      PROVE  f \in Taken' <=> f \in Taken \ ({c} \X S)
  <2>1. f[1] \in Calls /\ f[2] \in Instances /\ f = <<f[1], f[2]>>
    BY <1>2
  <2>2. f \in Taken' <=> HasPermit(f[1], f[2])'
    BY <1>2 DEF Taken, HasPermit
  <2>3. f \in Taken <=> HasPermit(f[1], f[2])
    BY <1>2 DEF Taken, HasPermit
  <2>4. f \in {c} \X S <=> f[1] = c /\ f[2] \in S
    BY <2>1
  <2>5. QED BY <2>1, <2>2, <2>3, <2>4
<1>3. Taken' \subseteq Calls \X Instances /\ Taken \subseteq Calls \X Instances
  BY DEF Taken
<1>4. QED BY <1>1, <1>2, <1>3

-----------------------------------------------------------------------------
(* The steps. *)

\* Nothing of call d changes, save that the cache may be invalidated on its behalf.
Same(d) ==
  /\ pc'[d] = pc[d] /\ live'[d] = live[d] /\ asked'[d] = asked[d] /\ answers'[d] = answers[d]
  /\ skipped'[d] = skipped[d] /\ st'[d] = st[d] /\ hooked'[d] = hooked[d]
  /\ d \in stale => d \in stale'

LEMMA SameCall ==
  ASSUME NEW d \in Calls, Futures(d), Accounted(d), Same(d)
  PROVE  Futures(d)' /\ Accounted(d)'
<1>1. Collected(d)' = Collected(d) /\ Unseen(d)' = Unseen(d) /\ Missing(d)' = Missing(d)
  BY DEF Same, Collected, Unseen, Missing
<1>2. QED BY <1>1 DEF Same, Futures, Accounted

LEMMA TypedStep == Typed /\ [Next]_vars /\ permits' \in Nat => Typed'
<1> SUFFICES ASSUME Typed, [Next]_vars, permits' \in Nat PROVE Typed'
  OBVIOUS
<1>1. /\ pc \in [Calls -> Pcs]
      /\ live \in [Calls -> SUBSET Instances] /\ asked \in [Calls -> SUBSET Instances]
      /\ answers \in [Calls -> [Instances -> {None} \cup Ended]]
      /\ skipped \in [Calls -> Nat] /\ stale \subseteq Calls
      /\ st \in [Calls -> [Instances -> Sts]]
      /\ hooked \in [Calls -> SUBSET Instances]
  BY DEF Typed
<1>2. ASSUME NEW c \in Calls, NEW p \in Pcs, Goes(c, p) PROVE pc' \in [Calls -> Pcs]
  BY <1>1, <1>2 DEF Goes
<1>3. ASSUME NEW c \in Calls, NEW i \in Instances, NEW s \in Sts, Sets(c, i, s)
      PROVE  st' \in [Calls -> [Instances -> Sts]]
  BY <1>1, <1>3 DEF Sets
<1>4. {"new", "admit", "hook", "collect", "cancel", "rows", "fail", "failed", "answered"} \cup Summary \subseteq Pcs
  BY DEF Pcs
<1>5. {None, "queued"} \cup Running \cup Ended \subseteq Sts
  BY DEF Sts
<1>6. ASSUME NEW c \in Calls, NEW S \in SUBSET Instances
      PROVE  [skipped EXCEPT ![c] = @ + Cardinality(S)] \in [Calls -> Nat]
  <2>1. skipped[c] \in Nat /\ Cardinality(S) \in Nat
    BY <1>1, FewInstances
  <2>2. skipped[c] + Cardinality(S) \in Nat
    BY <2>1
  <2>3. QED BY <1>1, <2>2
<1>7. ASSUME NEW c \in Calls, Discover(c) PROVE Typed'
  <2>1. live' \in [Calls -> SUBSET Instances] BY <1>1, <1>7 DEF Discover
  <2>2. pc' \in [Calls -> Pcs] BY <1>2, <1>4, <1>7 DEF Discover
  <2>3. QED BY <1>1, <1>7, <2>1, <2>2 DEF Discover, Typed
<1>8. ASSUME NEW c \in Calls, Admit(c) PROVE Typed'
  <2> DEFINE i == CHOOSE j \in live[c] : TRUE
  <2>1. i \in Instances BY <1>1, <1>8 DEF Admit
  <2>2. /\ Sets(c, i, "queued")
        /\ live' = [live EXCEPT ![c] = @ \ {i}]
        /\ asked' = [asked EXCEPT ![c] = @ \cup {i}]
    BY <1>8 DEF Admit
  <2> HIDE DEF i
  <2>3. live' \in [Calls -> SUBSET Instances] /\ asked' \in [Calls -> SUBSET Instances]
    BY <1>1, <2>1, <2>2
  <2>4. st' \in [Calls -> [Instances -> Sts]] BY <1>3, <1>5, <2>1, <2>2
  <2>5. pc' \in [Calls -> Pcs] BY <1>2, <1>4, <1>8 DEF Admit
  <2>6. QED BY <1>1, <1>8, <2>3, <2>4, <2>5 DEF Admit, Typed
<1>9. ASSUME NEW c \in Calls, SubmitFails(c) PROVE Typed'
  <2>1. pc' \in [Calls -> Pcs] BY <1>2, <1>4, <1>9 DEF SubmitFails
  <2>2. QED BY <1>1, <1>9, <2>1 DEF SubmitFails, Typed
<1>10. ASSUME NEW c \in Calls, Break(c) PROVE Typed'
  <2>1. pc' \in [Calls -> Pcs] BY <1>2, <1>4, <1>10 DEF Break
  <2>2. skipped' \in [Calls -> Nat] BY <1>1, <1>6, <1>10 DEF Break
  <2>3. QED BY <1>1, <1>10, <2>1, <2>2 DEF Break, Typed
<1>11. ASSUME NEW c \in Calls, Hook(c) PROVE Typed'
  <2>1. pc' \in [Calls -> Pcs] BY <1>2, <1>4, <1>11 DEF Hook
  <2>2. hooked' \in [Calls -> SUBSET Instances] BY <1>1, <1>11 DEF Hook
  <2>3. QED BY <1>1, <1>11, <2>1, <2>2 DEF Hook, Typed
<1>12. ASSUME NEW c \in Calls, Collect(c) PROVE Typed'
  <2>1. PICK i \in asked[c] : /\ st[c][i] \in Outcomes
                              /\ answers' = [answers EXCEPT ![c][i] = st[c][i]]
                              /\ stale' \in {stale, stale \cup {c}}
    BY <1>12 DEF Collect
  <2>2. answers' \in [Calls -> [Instances -> {None} \cup Ended]]
    BY <1>1, <2>1 DEF Ended
  <2>3. QED BY <1>1, <1>12, <2>1, <2>2 DEF Collect, Typed
<1>13. ASSUME NEW c \in Calls, CollectTimeout(c) PROVE Typed'
  <2>1. pc' \in [Calls -> Pcs] BY <1>2, <1>4, <1>13 DEF CollectTimeout
  <2>2. Missing(c) \in SUBSET Instances BY <1>1 DEF Missing
  <2>3. skipped' \in [Calls -> Nat] BY <1>6, <1>13, <2>2 DEF CollectTimeout
  <2>4. QED BY <1>1, <1>13, <2>1, <2>3 DEF CollectTimeout, Typed
<1>14. ASSUME NEW c \in Calls, Cancel(c) PROVE Typed'
  <2>1. pc' \in [Calls -> Pcs] BY <1>2, <1>4, <1>14 DEF Cancel
  <2>2. st' = [st EXCEPT ![c] = [i \in Instances |-> IF i \in Queued(c) THEN "cancelled" ELSE st[c][i]]]
    BY <1>14 DEF Cancel
  <2>3. st' \in [Calls -> [Instances -> Sts]] BY <1>1, <1>5, <2>2 DEF Ended
  <2>4. QED BY <1>1, <1>14, <2>1, <2>3 DEF Cancel, Typed
<1>15. ASSUME NEW c \in Calls, Answer(c) PROVE Typed'
  <2>1. pc' \in [Calls -> Pcs] BY <1>2, <1>4, <1>15 DEF Answer
  <2>2. QED BY <1>1, <1>15, <2>1 DEF Answer, Typed
<1>16. ASSUME NEW c \in Calls, Find(c) PROVE Typed'
  <2>1. CASE Goes(c, "refused") /\ UNCHANGED <<asked, st>>
    <3>1. pc' \in [Calls -> Pcs] BY <1>2, <1>4, <2>1 DEF Summary
    <3>2. QED BY <1>1, <1>16, <2>1, <3>1 DEF Find, Typed
  <2>2. CASE \E i \in Instances : /\ asked' = [asked EXCEPT ![c] = {i}]
                                  /\ Sets(c, i, "connect") /\ Goes(c, "summary")
    <3>1. pc' \in [Calls -> Pcs] BY <1>2, <1>4, <2>2 DEF Summary
    <3>2. asked' \in [Calls -> SUBSET Instances] BY <1>1, <2>2
    <3>3. st' \in [Calls -> [Instances -> Sts]] BY <1>3, <1>5, <2>2 DEF Running
    <3>4. QED BY <1>1, <1>16, <3>1, <3>2, <3>3 DEF Find, Typed
  <2>3. QED BY <1>16, <2>1, <2>2 DEF Find
<1>17. ASSUME NEW c \in Calls, Summarise(c) PROVE Typed'
  <2>1. PICK i \in asked[c] : /\ st[c][i] \in Ended
                              /\ stale' \in {stale, stale \cup {c}}
                              /\ answers' = [answers EXCEPT ![c][i] = st[c][i]]
                              /\ Goes(c, "summarised") \/ Goes(c, "refused")
    BY <1>17 DEF Summarise
  <2>2. answers' \in [Calls -> [Instances -> {None} \cup Ended]] BY <1>1, <2>1
  <2>3. pc' \in [Calls -> Pcs] BY <1>2, <1>4, <2>1 DEF Summary
  <2>4. QED BY <1>1, <1>17, <2>1, <2>2, <2>3 DEF Summarise, Typed
<1>18. ASSUME NEW c \in Calls, CancelSummary(c) PROVE Typed'
  <2>1. PICK i \in asked[c] : Sets(c, i, "cancelled") BY <1>18 DEF CancelSummary
  <2>2. st' \in [Calls -> [Instances -> Sts]] BY <1>1, <1>3, <1>5, <2>1 DEF Ended
  <2>3. QED BY <1>1, <1>18, <2>2 DEF CancelSummary, Typed
<1>19. ASSUME NEW c \in Calls, NEW i \in Instances, NEW s \in Sts, Sets(c, i, s), UNCHANGED callerVars
       PROVE  Typed'
  <2>1. st' \in [Calls -> [Instances -> Sts]] BY <1>3, <1>19
  <2>2. QED BY <1>1, <1>19, <2>1 DEF callerVars, Typed
<1>20. ASSUME NEW c \in Calls, NEW i \in Instances,
              Begin(c, i) \/ Connect(c, i) \/ Send(c, i) \/ Receive(c, i) \/ Breaks(c, i) \/ TimesOut(c, i)
       PROVE  Typed'
  <2>1. \E s \in {"connect", "send", "receive", "own", "busy", "unavailable", "timeout"} :
          Sets(c, i, s) /\ UNCHANGED callerVars
    BY <1>20 DEF Begin, Connect, Send, Receive, Breaks, TimesOut, Step, Finish
  <2>2. {"connect", "send", "receive", "own", "busy", "unavailable", "timeout"} \subseteq Sts
    BY <1>5 DEF Running, Ended, Outcomes
  <2>3. QED BY <1>19, <2>1, <2>2
<1>21. CASE UNCHANGED vars BY <1>1, <1>21 DEF vars, Typed
<1>22. QED
  BY <1>7, <1>8, <1>9, <1>10, <1>11, <1>12, <1>13, <1>14, <1>15, <1>16, <1>17, <1>18, <1>20, <1>21
     DEF Next, Status, Over

\* A step of one call after which its futures have the permits they had.
LEMMA OneKeeps ==
  ASSUME Counted, NEW c \in Calls, \A d \in Calls \ {c} : Same(d), permits' = permits,
         \A i \in Instances : HasPermit(c, i)' = HasPermit(c, i)
  PROVE  Counted'
<1>1. ASSUME NEW d \in Calls, NEW i \in Instances PROVE HasPermit(d, i)' = HasPermit(d, i)
  BY DEF Same, HasPermit
<1>2. QED BY <1>1, SamePermits, CountedSame

\* A step of one call after which the futures of S have given their permits back.
LEMMA OneGivesBack ==
  ASSUME Counted, permits \in Nat, NEW c \in Calls, NEW S \in SUBSET Instances,
         \A d \in Calls \ {c} : Same(d), permits' = permits + Cardinality(S),
         \A i \in S : HasPermit(c, i),
         \A i \in Instances : HasPermit(c, i)' = (HasPermit(c, i) /\ i \notin S)
  PROVE  Counted' /\ permits' \in Nat
<1>1. ASSUME NEW d \in Calls, NEW i \in Instances
      PROVE  HasPermit(d, i)' = (HasPermit(d, i) /\ ~(d = c /\ i \in S))
  BY DEF Same, HasPermit
<1>2. {c} \X S \subseteq Taken /\ Taken' = Taken \ ({c} \X S)
  BY <1>1, FewerPermits
<1>3. QED BY <1>2, GivenBack

\* A step after which one more future has a permit.
LEMMA MorePermits ==
  ASSUME NEW c \in Calls, NEW i \in Instances, ~HasPermit(c, i),
         \A d \in Calls, j \in Instances : HasPermit(d, j)' = (HasPermit(d, j) \/ (d = c /\ j = i))
  PROVE  Taken' = Taken \cup {<<c, i>>} /\ <<c, i>> \notin Taken
<1>1. ASSUME NEW f \in Calls \X Instances
      PROVE  f \in Taken' <=> f \in Taken \cup {<<c, i>>}
  <2>1. f[1] \in Calls /\ f[2] \in Instances /\ f = <<f[1], f[2]>>
    BY <1>1
  <2>2. f \in Taken' <=> HasPermit(f[1], f[2])'
    BY <1>1 DEF Taken, HasPermit
  <2>3. f \in Taken <=> HasPermit(f[1], f[2])
    BY <1>1 DEF Taken, HasPermit
  <2>4. f = <<c, i>> <=> f[1] = c /\ f[2] = i
    BY <2>1
  <2>5. HasPermit(f[1], f[2])' <=> HasPermit(f[1], f[2]) \/ (f[1] = c /\ f[2] = i)
    BY <2>1
  <2>6. QED BY <2>2, <2>3, <2>4, <2>5
<1>2. Taken' \subseteq Calls \X Instances /\ Taken \subseteq Calls \X Instances
  BY DEF Taken
<1>3. <<c, i>> \notin Taken
  BY DEF Taken, HasPermit
<1>4. QED BY <1>1, <1>2, <1>3

\* What a step of call c must leave behind.
Kept(c) ==
  /\ Futures(c)' /\ Accounted(c)' /\ Counted' /\ permits' \in Nat
  /\ \A d \in Calls \ {c} : Same(d)

LEMMA StartKeeps ==
  ASSUME CallsInv, NEW c \in Calls, Discover(c) \/ Find(c)
  PROVE  Kept(c)
<1>1. /\ pc \in [Calls -> Pcs] /\ live \in [Calls -> SUBSET Instances]
      /\ asked \in [Calls -> SUBSET Instances] /\ st \in [Calls -> [Instances -> Sts]]
      /\ permits \in Nat
  BY DEF CallsInv, Typed
<1>2. Futures(c) /\ Accounted(c) /\ Counted
  BY DEF CallsInv
<1>3. pc[c] = "new" /\ asked[c] = {} /\ skipped[c] = 0 /\ Collected(c) = {}
  BY <1>2 DEF Discover, Find, Futures, Accounted
<1>4. CASE Discover(c)
  <2>1. /\ pc'[c] = "admit" /\ UNCHANGED <<asked, answers, skipped, stale, st, hooked, permits>>
        /\ \A d \in Calls \ {c} : Same(d)
    BY <1>1, <1>4 DEF Discover, Goes, Same
  <2>2. Collected(c)' = Collected(c)
    BY <2>1 DEF Collected
  <2>3. Futures(c)' BY <1>2, <1>3, <2>1, <2>2 DEF Futures, Summary
  <2>4. Accounted(c)' BY <1>2, <1>3, <2>1, <2>2 DEF Accounted
  <2>5. Counted' BY <1>2, <1>3, <2>1, OneKeeps DEF HasPermit
  <2>6. QED BY <1>1, <2>1, <2>3, <2>4, <2>5 DEF Kept
<1>5. CASE Find(c)
  <2>1. /\ UNCHANGED <<live, answers, skipped, stale, hooked, permits>>
        /\ \A d \in Calls \ {c} : Same(d)
    BY <1>1, <1>5 DEF Find, Goes, Sets, Same
  <2>2. \/ pc'[c] = "refused" /\ UNCHANGED <<asked, st>>
        \/ pc'[c] = "summary" /\ \E i \in Instances : asked'[c] = {i} /\ st'[c] = [st[c] EXCEPT ![i] = "connect"]
    BY <1>1, <1>5 DEF Find, Goes, Sets
  <2>3. Collected(c)' = Collected(c)
    BY <2>1 DEF Collected
  <2>4. \A i \in Instances : st[c][i] = None
    BY <1>2, <1>3 DEF Futures
  <2>5. live'[c] = {} /\ hooked'[c] = {} /\ skipped'[c] = 0
    BY <1>2, <1>3, <2>1 DEF Find, Futures
  <2>6. pc'[c] \in {"refused", "summary"}
    BY <2>2
  <2>7. \A i \in Instances : st'[c][i] # None => i \in asked'[c]
    BY <1>1, <2>2, <2>4
  <2>8. Futures(c)' BY <1>3, <2>3, <2>5, <2>6, <2>7 DEF Futures
  <2>9. \A i \in Instances : answers'[c][i] = None
    BY <1>3, <2>1 DEF Collected
  <2>10. \A i \in asked'[c] : answers'[c][i] = None
    BY ZenonT(60), <1>1, <1>3, <2>2, <2>9
  <2>11. Accounted(c)' BY <2>6, <2>10 DEF Accounted, None
  <2>12. \A i \in Instances : HasPermit(c, i)' = HasPermit(c, i)
    BY <1>3, <2>6 DEF HasPermit, Summary
  <2>13. Counted' BY <1>2, <2>1, <2>12, OneKeeps
  <2>14. QED BY <1>1, <2>1, <2>8, <2>11, <2>13 DEF Kept
<1>6. QED BY <1>4, <1>5

LEMMA AskingKeeps ==
  ASSUME CallsInv, NEW c \in Calls, Admit(c) \/ SubmitFails(c) \/ Break(c) \/ Hook(c)
  PROVE  Kept(c)
<1>1. /\ pc \in [Calls -> Pcs] /\ live \in [Calls -> SUBSET Instances]
      /\ asked \in [Calls -> SUBSET Instances] /\ st \in [Calls -> [Instances -> Sts]]
      /\ hooked \in [Calls -> SUBSET Instances] /\ skipped \in [Calls -> Nat]
      /\ answers \in [Calls -> [Instances -> {None} \cup Ended]] /\ permits \in Nat
  BY DEF CallsInv, Typed
<1>2. Futures(c) /\ Accounted(c) /\ Counted
  BY DEF CallsInv
<1>3. pc[c] \in {"admit", "hook"} /\ skipped[c] = 0 /\ Collected(c) = {}
  BY <1>2 DEF Admit, SubmitFails, Break, Hook, Accounted
<1>4. \A i \in Instances : answers[c][i] = None
  BY <1>3 DEF Collected
<1>5. CASE Admit(c)
  <2> DEFINE i == CHOOSE j \in live[c] : TRUE
  <2>1. i \in live[c] /\ i \in Instances /\ i \notin asked[c]
    BY <1>1, <1>2, <1>5 DEF Admit, Futures
  <2>2. /\ permits > 0 /\ permits' = permits - 1
        /\ Sets(c, i, "queued") /\ live' = [live EXCEPT ![c] = @ \ {i}]
        /\ asked' = [asked EXCEPT ![c] = @ \cup {i}] /\ Goes(c, "hook")
        /\ UNCHANGED <<answers, skipped, stale, hooked>> /\ pc[c] = "admit"
    BY <1>5 DEF Admit
  <2> HIDE DEF i
  <2>3. /\ live'[c] = live[c] \ {i} /\ asked'[c] = asked[c] \cup {i} /\ pc'[c] = "hook"
        /\ st'[c] = [st[c] EXCEPT ![i] = "queued"]
        /\ \A d \in Calls \ {c} : Same(d)
    BY <1>1, <2>2 DEF Goes, Sets, Same
  <2>4. Collected(c)' = Collected(c)
    BY <2>2 DEF Collected
  <2>5. \A j \in Instances : st'[c][j] # None => j \in asked'[c]
    BY <1>1, <1>2, <2>3 DEF Futures
  <2>6. Futures(c)' BY <1>2, <1>3, <2>2, <2>3, <2>4, <2>5 DEF Futures, Summary
  <2>7. Accounted(c)'
    BY <1>1, <1>3, <1>4, <2>1, <2>2, <2>3, <2>4 DEF Accounted, None
  <2>8. ASSUME NEW d \in Calls, NEW j \in Instances
        PROVE  HasPermit(d, j)' = (HasPermit(d, j) \/ (d = c /\ j = i))
    BY <1>1, <1>2, <2>1, <2>2, <2>3 DEF HasPermit, Same, Futures, Summary, Ended, Outcomes
  <2>9. ~HasPermit(c, i)
    BY <2>1 DEF HasPermit
  <2>10. Taken' = Taken \cup {<<c, i>>} /\ <<c, i>> \notin Taken
    BY <2>1, <2>8, <2>9, MorePermits
  <2>11. IsFiniteSet(Taken) /\ permits + Cardinality(Taken) = Permits
    BY <1>2 DEF Counted, StatusPermits
  <2>12. Cardinality(Taken) \in Nat
    BY <2>11, FS_CardinalityType
  <2>13. IsFiniteSet(Taken') /\ Cardinality(Taken') = Cardinality(Taken) + 1
    BY <2>10, <2>11, FS_AddElement
  <2>14. permits' \in Nat /\ permits' + Cardinality(Taken') = Permits
    BY <1>1, <2>2, <2>11, <2>12, <2>13
  <2>15. QED BY <2>3, <2>6, <2>7, <2>13, <2>14 DEF Kept, Counted, StatusPermits
<1>6. CASE SubmitFails(c)
  <2>1. /\ pc'[c] = "fail" /\ pc[c] = "admit"
        /\ UNCHANGED <<live, asked, answers, skipped, stale, st, hooked, permits>>
        /\ \A d \in Calls \ {c} : Same(d)
    BY <1>1, <1>6 DEF SubmitFails, Goes, Same
  <2>2. Collected(c)' = Collected(c)
    BY <2>1 DEF Collected
  <2>3. Futures(c)' BY <1>2, <2>1, <2>2 DEF Futures, Summary
  <2>4. Accounted(c)' BY <1>2, <1>3, <2>1, <2>2 DEF Accounted
  <2>5. \A j \in Instances : HasPermit(c, j)' = HasPermit(c, j)
    BY <2>1 DEF HasPermit, Summary
  <2>6. Counted' BY <1>2, <2>1, <2>5, OneKeeps
  <2>7. QED BY <1>1, <2>1, <2>3, <2>4, <2>6 DEF Kept
<1>7. CASE Break(c)
  <2>1. /\ pc'[c] = "collect" /\ pc[c] = "admit" /\ skipped'[c] = skipped[c] + Cardinality(live[c])
        /\ UNCHANGED <<live, asked, answers, stale, st, hooked, permits>>
        /\ \A d \in Calls \ {c} : Same(d)
    BY <1>1, <1>7 DEF Break, Goes, Same
  <2>2. Collected(c)' = Collected(c)
    BY <2>1 DEF Collected
  <2>3. Futures(c)' BY <1>2, <2>1, <2>2 DEF Futures, Summary
  <2>4. Cardinality(live[c]) \in Nat
    BY <1>1, FewInstances
  <2>5. skipped'[c] = Cardinality(live'[c])
    BY <1>3, <2>1, <2>4
  <2>6. Accounted(c)' BY <1>2, <2>1, <2>2, <2>5 DEF Accounted
  <2>7. \A j \in Instances : HasPermit(c, j)' = HasPermit(c, j)
    BY <2>1 DEF HasPermit, Summary
  <2>8. Counted' BY <1>2, <2>1, <2>7, OneKeeps
  <2>9. QED BY <1>1, <2>1, <2>3, <2>6, <2>8 DEF Kept
<1>8. CASE Hook(c)
  <2>1. /\ pc'[c] = (IF live[c] = {} THEN "collect" ELSE "admit") /\ pc[c] = "hook"
        /\ hooked'[c] = asked[c] /\ permits' = permits + Cardinality(DoneAlready(c))
        /\ UNCHANGED <<live, asked, answers, skipped, stale, st>>
        /\ \A d \in Calls \ {c} : Same(d)
    BY <1>1, <1>8 DEF Hook, Goes, Same
  <2>2. Collected(c)' = Collected(c)
    BY <2>1 DEF Collected
  <2>3. Futures(c)' BY <1>2, <2>1, <2>2 DEF Futures, Summary
  <2>4. Cardinality({}) = 0
    BY FS_EmptySet
  <2>5. Accounted(c)' BY <1>2, <1>3, <2>1, <2>2, <2>4 DEF Accounted
  <2>6. DoneAlready(c) \in SUBSET Instances
    BY <1>1 DEF DoneAlready
  <2>7. \A j \in DoneAlready(c) : HasPermit(c, j)
    BY <2>1 DEF HasPermit, DoneAlready, Summary
  <2>8. \A j \in Instances : HasPermit(c, j)' = (HasPermit(c, j) /\ j \notin DoneAlready(c))
    BY <1>2, <2>1 DEF HasPermit, DoneAlready, Summary, Futures
  <2>9. Counted' /\ permits' \in Nat
    BY <1>1, <1>2, <2>1, <2>6, <2>7, <2>8, OneGivesBack
  <2>10. QED BY <2>1, <2>3, <2>5, <2>9 DEF Kept
<1>9. QED BY <1>5, <1>6, <1>7, <1>8

LEMMA CollectKeeps ==
  ASSUME CallsInv, NEW c \in Calls, Collect(c) \/ CollectTimeout(c)
  PROVE  Kept(c)
<1>1. /\ pc \in [Calls -> Pcs] /\ live \in [Calls -> SUBSET Instances]
      /\ asked \in [Calls -> SUBSET Instances] /\ skipped \in [Calls -> Nat]
      /\ answers \in [Calls -> [Instances -> {None} \cup Ended]]
      /\ stale \subseteq Calls /\ permits \in Nat
  BY DEF CallsInv, Typed
<1>2. Futures(c) /\ Accounted(c) /\ Counted
  BY DEF CallsInv
<1>3. pc[c] = "collect" /\ skipped[c] = Cardinality(live[c])
  BY <1>2 DEF Collect, CollectTimeout, Accounted
<1>4. CASE Collect(c)
  <2>1. PICK i \in asked[c] \ Collected(c) :
          /\ st[c][i] \in Outcomes
          /\ answers' = [answers EXCEPT ![c][i] = st[c][i]]
          /\ stale' = IF st[c][i] \in {"own", "busy"} THEN stale ELSE stale \cup {c}
    BY <1>4 DEF Collect
  <2>2. /\ UNCHANGED <<pc, live, asked, skipped, st, hooked, permits>>
        /\ \A d \in Calls \ {c} : Same(d)
    BY <1>1, <1>4 DEF Collect, Same
  <2>3. i \in Instances /\ answers'[c] = [answers[c] EXCEPT ![i] = st[c][i]]
    BY <1>1, <2>1
  <2>4. Collected(c)' = Collected(c) \cup {i}
    BY <1>1, <2>1, <2>3 DEF Collected, Outcomes, None
  <2>5. Futures(c)' BY <1>2, <1>3, <2>1, <2>2, <2>4 DEF Futures, Summary
  <2>6. \A j \in asked'[c] : answers'[c][j] \in {"unavailable", "timeout"} => c \in stale'
    BY <1>1, <1>2, <2>1, <2>2, <2>3 DEF Accounted
  <2>7. Accounted(c)' BY <1>3, <2>2, <2>6 DEF Accounted
  <2>8. \A j \in Instances : HasPermit(c, j)' = HasPermit(c, j)
    BY <2>2 DEF HasPermit
  <2>9. Counted' BY <1>2, <2>2, <2>8, OneKeeps
  <2>10. QED BY <1>1, <2>2, <2>5, <2>7, <2>9 DEF Kept
<1>5. CASE CollectTimeout(c)
  <2>1. /\ pc'[c] = "cancel" /\ skipped'[c] = skipped[c] + Cardinality(Missing(c)) /\ c \in stale'
        /\ UNCHANGED <<live, asked, answers, st, hooked, permits>>
        /\ \A d \in Calls \ {c} : Same(d)
    BY <1>1, <1>5 DEF CollectTimeout, Goes, Same
  <2>2. Collected(c)' = Collected(c)
    BY <2>1 DEF Collected
  <2>3. Futures(c)' BY <1>2, <2>1, <2>2 DEF Futures, Summary
  <2>4. Unseen(c) = live[c] \cup Missing(c) /\ live[c] \cap Missing(c) = {}
    BY <1>2 DEF Unseen, Missing, Futures
  <2>5. live[c] \in SUBSET Instances /\ Missing(c) \in SUBSET Instances
    BY <1>1 DEF Missing
  <2>6. Cardinality(Unseen(c)) = Cardinality(live[c]) + Cardinality(Missing(c))
    BY <2>4, <2>5, TwoParts
  <2>7. Unseen(c)' = Unseen(c)
    BY <2>1, <2>2 DEF Unseen
  <2>8. Accounted(c)' BY <1>3, <2>1, <2>6, <2>7 DEF Accounted
  <2>9. \A j \in Instances : HasPermit(c, j)' = HasPermit(c, j)
    BY <1>3, <2>1 DEF HasPermit, Summary
  <2>10. Counted' BY <1>2, <2>1, <2>9, OneKeeps
  <2>11. QED BY <1>1, <2>1, <2>3, <2>8, <2>10 DEF Kept
<1>6. QED BY <1>4, <1>5

LEMMA LeavingKeeps ==
  ASSUME CallsInv, NEW c \in Calls, Cancel(c) \/ Answer(c)
  PROVE  Kept(c)
<1>1. /\ pc \in [Calls -> Pcs] /\ live \in [Calls -> SUBSET Instances]
      /\ asked \in [Calls -> SUBSET Instances] /\ skipped \in [Calls -> Nat]
      /\ st \in [Calls -> [Instances -> Sts]] /\ hooked \in [Calls -> SUBSET Instances]
      /\ permits \in Nat
  BY DEF CallsInv, Typed
<1>2. Futures(c) /\ Accounted(c) /\ Counted
  BY DEF CallsInv
<1>3. CASE Cancel(c)
  <2> DEFINE S == Queued(c) \cap hooked[c]
  <2>1. /\ pc'[c] = (IF pc[c] = "fail" THEN "failed" ELSE "rows")
        /\ pc[c] \in {"cancel", "fail"} \/ (pc[c] = "collect" /\ Missing(c) = {})
        /\ permits' = permits + Cardinality(S)
        /\ UNCHANGED <<live, asked, answers, skipped, stale, hooked>>
    BY <1>1, <1>3 DEF Cancel, Goes
  <2>2. st' = [st EXCEPT ![c] = [i \in Instances |-> IF i \in Queued(c) THEN "cancelled" ELSE st[c][i]]]
    BY <1>3 DEF Cancel
  <2>3. \A d \in Calls \ {c} : Same(d)
    BY <1>1, <1>3, <2>2 DEF Cancel, Goes, Same
  <2>4. \A i \in Instances : st'[c][i] = IF i \in Queued(c) THEN "cancelled" ELSE st[c][i]
    BY <1>1, <2>2
  <2>5. Collected(c)' = Collected(c)
    BY <2>1 DEF Collected
  <2>6. \A i \in Instances : st'[c][i] # None => i \in asked'[c]
    BY <1>2, <2>1, <2>4 DEF Futures, Queued
  <2>7. Futures(c)' BY <1>2, <2>1, <2>5, <2>6 DEF Futures, Summary
  <2>8. Unseen(c)' = Unseen(c) /\ Missing(c)' = Missing(c)
    BY <2>1, <2>5 DEF Unseen, Missing
  <2>9. ASSUME pc[c] = "collect" PROVE Unseen(c) = live[c]
    BY <1>2, <2>1, <2>9 DEF Unseen, Missing, Futures
  <2>10. Accounted(c)' BY <1>2, <2>1, <2>5, <2>8, <2>9 DEF Accounted
  <2>11. S \in SUBSET Instances
    BY <1>1
  <2>12. \A i \in S : HasPermit(c, i)
    BY <2>1 DEF HasPermit, Queued, Summary, Ended, Outcomes
  <2>13. \A i \in Instances : HasPermit(c, i)' = (HasPermit(c, i) /\ i \notin S)
    BY <2>1, <2>4 DEF HasPermit, Queued, Summary, Ended, Outcomes
  <2> HIDE DEF S
  <2>14. Counted' /\ permits' \in Nat
    BY <1>1, <1>2, <2>1, <2>3, <2>11, <2>12, <2>13, OneGivesBack
  <2>15. QED BY <2>3, <2>7, <2>10, <2>14 DEF Kept
<1>4. CASE Answer(c)
  <2>1. /\ pc'[c] = "answered"
        /\ pc[c] = "rows" \/ (pc[c] = "admit" /\ live[c] = {})
        /\ UNCHANGED <<live, asked, answers, skipped, stale, st, hooked, permits>>
        /\ \A d \in Calls \ {c} : Same(d)
    BY <1>1, <1>4 DEF Answer, Goes, Same
  <2>2. Collected(c)' = Collected(c)
    BY <2>1 DEF Collected
  <2>3. Futures(c)' BY <1>2, <2>1, <2>2 DEF Futures, Summary
  <2>4. Unseen(c)' = Unseen(c) /\ Missing(c)' = Missing(c)
    BY <2>1, <2>2 DEF Unseen, Missing
  <2>5. Cardinality({}) = 0
    BY FS_EmptySet
  <2>6. ASSUME pc[c] = "admit" PROVE Unseen(c) = {} /\ Missing(c) = {} /\ skipped[c] = 0
    BY <1>2, <2>1, <2>6 DEF Unseen, Missing, Accounted
  <2>7. Accounted(c)' BY <1>2, <2>1, <2>4, <2>5, <2>6 DEF Accounted
  <2>8. \A j \in Instances : HasPermit(c, j)' = HasPermit(c, j)
    BY <2>1 DEF HasPermit, Summary
  <2>9. Counted' BY <1>2, <2>1, <2>8, OneKeeps
  <2>10. QED BY <1>1, <2>1, <2>3, <2>7, <2>9 DEF Kept
<1>5. QED BY <1>3, <1>4

LEMMA SummaryKeeps ==
  ASSUME CallsInv, NEW c \in Calls, Summarise(c) \/ CancelSummary(c)
  PROVE  Kept(c)
<1>1. /\ pc \in [Calls -> Pcs] /\ asked \in [Calls -> SUBSET Instances]
      /\ answers \in [Calls -> [Instances -> {None} \cup Ended]]
      /\ st \in [Calls -> [Instances -> Sts]] /\ stale \subseteq Calls /\ permits \in Nat
  BY DEF CallsInv, Typed
<1>2. Futures(c) /\ Accounted(c) /\ Counted
  BY DEF CallsInv
<1>3. pc[c] = "summary"
  BY DEF Summarise, CancelSummary
<1>4. CASE Summarise(c)
  <2>1. PICK i \in asked[c] :
          /\ st[c][i] \in Ended
          /\ stale' = IF st[c][i] \in Outcomes \ {"own"} THEN stale \cup {c} ELSE stale
          /\ answers' = [answers EXCEPT ![c][i] = st[c][i]]
          /\ Goes(c, IF st[c][i] = "own" THEN "summarised" ELSE "refused")
    BY <1>4 DEF Summarise
  <2>2. /\ pc'[c] \in {"summarised", "refused"}
        /\ UNCHANGED <<live, asked, skipped, st, hooked, permits>>
        /\ \A d \in Calls \ {c} : Same(d)
    BY <1>1, <1>4, <2>1 DEF Summarise, Goes, Same
  <2>3. i \in Instances /\ answers'[c] = [answers[c] EXCEPT ![i] = st[c][i]]
    BY <1>1, <2>1
  <2>4. Collected(c)' \subseteq Collected(c) \cup {i}
    BY <1>1, <2>3 DEF Collected
  <2>5. Futures(c)' BY <1>2, <1>3, <2>1, <2>2, <2>4 DEF Futures, Summary
  <2>6. \A j \in asked'[c] : answers'[c][j] \in {"unavailable", "timeout"} => c \in stale'
    BY <1>1, <1>2, <2>1, <2>2, <2>3 DEF Accounted, Outcomes
  <2>7. Accounted(c)' BY <2>2, <2>6 DEF Accounted
  <2>8. \A j \in Instances : HasPermit(c, j)' = HasPermit(c, j)
    BY <1>3, <2>2 DEF HasPermit, Summary
  <2>9. Counted' BY <1>2, <2>2, <2>8, OneKeeps
  <2>10. QED BY <1>1, <2>2, <2>5, <2>7, <2>9 DEF Kept
<1>5. CASE CancelSummary(c)
  <2>1. PICK i \in asked[c] : Sets(c, i, "cancelled")
    BY <1>5 DEF CancelSummary
  <2>2. /\ UNCHANGED <<pc, live, asked, answers, skipped, stale, hooked, permits>>
        /\ \A d \in Calls \ {c} : Same(d)
    BY <1>1, <1>5, <2>1 DEF CancelSummary, Sets, Same
  <2>3. Collected(c)' = Collected(c)
    BY <2>2 DEF Collected
  <2>4. \A j \in Instances : st'[c][j] # None => j \in asked'[c]
    BY <1>1, <1>2, <2>1, <2>2 DEF Futures, Sets
  <2>5. Futures(c)' BY <1>2, <2>2, <2>3, <2>4 DEF Futures
  <2>6. Accounted(c)' BY <1>2, <1>3, <2>2 DEF Accounted
  <2>7. \A j \in Instances : HasPermit(c, j)' = HasPermit(c, j)
    BY <1>3, <2>2 DEF HasPermit, Summary
  <2>8. Counted' BY <1>2, <2>2, <2>7, OneKeeps
  <2>9. QED BY <1>1, <2>2, <2>5, <2>6, <2>8 DEF Kept
<1>6. QED BY <1>4, <1>5

LEMMA PoolKeeps ==
  ASSUME CallsInv, NEW c \in Calls, NEW i \in Instances,
         Begin(c, i) \/ Connect(c, i) \/ Send(c, i) \/ Receive(c, i) \/ Breaks(c, i) \/ TimesOut(c, i)
  PROVE  Kept(c)
<1>1. /\ pc \in [Calls -> Pcs] /\ asked \in [Calls -> SUBSET Instances]
      /\ st \in [Calls -> [Instances -> Sts]] /\ permits \in Nat
  BY DEF CallsInv, Typed
<1>2. Futures(c) /\ Accounted(c) /\ Counted
  BY DEF CallsInv
<1>3. st[c][i] \in {"queued"} \cup Running
  BY DEF Begin, Connect, Send, Receive, Breaks, TimesOut, Step, Running, Polled
<1>4. i \in asked[c] /\ st[c][i] \notin Ended
  BY <1>2, <1>3 DEF Futures, Running, None, Ended, Outcomes
<1>5. ASSUME NEW s, Sets(c, i, s), UNCHANGED callerVars
      PROVE  Futures(c)' /\ Accounted(c)' /\ \A d \in Calls \ {c} : Same(d)
  <2>1. /\ UNCHANGED <<pc, live, asked, answers, skipped, stale, hooked>>
        /\ \A d \in Calls \ {c} : Same(d)
        /\ st'[c] = [st[c] EXCEPT ![i] = s]
    BY <1>1, <1>5 DEF callerVars, Sets, Same
  <2>2. Collected(c)' = Collected(c)
    BY <2>1 DEF Collected
  <2>3. Unseen(c)' = Unseen(c) /\ Missing(c)' = Missing(c)
    BY <2>1, <2>2 DEF Unseen, Missing
  <2>4. \A j \in Instances : st'[c][j] # None => j \in asked'[c]
    BY <1>1, <1>2, <1>4, <2>1 DEF Futures
  <2>5. Futures(c)' BY <1>2, <2>1, <2>2, <2>4 DEF Futures
  <2>6. Accounted(c)' BY <1>2, <2>1, <2>2, <2>3 DEF Accounted
  <2>7. QED BY <2>1, <2>5, <2>6
<1>6. CASE Begin(c, i) \/ Connect(c, i) \/ Send(c, i)
  <2>1. PICK s \in Running : Sets(c, i, s) /\ UNCHANGED callerVars /\ permits' = permits
    BY <1>6 DEF Begin, Connect, Send, Step, Running
  <2>2. \A j \in Instances : HasPermit(c, j)' = HasPermit(c, j)
    BY <1>1, <1>4, <2>1 DEF HasPermit, Sets, callerVars, Running, Ended, Outcomes
  <2>3. Counted' BY <1>2, <1>5, <2>1, <2>2, OneKeeps
  <2>4. QED BY <1>1, <1>5, <2>1, <2>3 DEF Kept
<1>7. CASE Receive(c, i) \/ Breaks(c, i) \/ TimesOut(c, i)
  <2>1. PICK s \in Outcomes : Finish(c, i, s)
    BY <1>7 DEF Receive, Breaks, TimesOut, Outcomes
  <2>2. Sets(c, i, s) /\ UNCHANGED callerVars /\ permits' = permits + (IF i \in hooked[c] THEN 1 ELSE 0)
    BY <2>1 DEF Finish
  <2>3. \A d \in Calls \ {c} : Same(d)
    BY <1>5, <2>2
  <2>4. s \in Ended
    BY DEF Ended
  <2>5. CASE i \in hooked[c]
    <3>1. pc[c] \notin Summary
      BY <1>2, <2>5 DEF Futures
    <3>2. \A j \in {i} : HasPermit(c, j)
      BY <1>4, <3>1 DEF HasPermit
    <3>3. \A j \in Instances : HasPermit(c, j)' = (HasPermit(c, j) /\ j \notin {i})
      BY <1>1, <2>2, <2>4, <2>5 DEF HasPermit, Sets, callerVars
    <3>4. Cardinality({i}) = 1
      BY FS_Singleton
    <3>5. permits' = permits + Cardinality({i})
      BY <2>2, <2>5, <3>4
    <3>6. Counted' /\ permits' \in Nat
      BY <1>1, <1>2, <2>3, <3>2, <3>3, <3>5, OneGivesBack
    <3>7. QED BY <1>5, <2>2, <3>6 DEF Kept
  <2>6. CASE i \notin hooked[c]
    <3>1. \A j \in Instances : HasPermit(c, j)' = HasPermit(c, j)
      BY <1>1, <2>2, <2>6 DEF HasPermit, Sets, callerVars
    <3>2. permits' = permits
      BY <1>1, <2>2, <2>6
    <3>3. Counted' BY <1>2, <2>3, <3>1, <3>2, OneKeeps
    <3>4. QED BY <1>1, <1>5, <2>2, <3>2, <3>3 DEF Kept
  <2>7. QED BY <2>5, <2>6
<1>8. QED BY <1>6, <1>7

LEMMA CallsStep == CallsInv /\ [Next]_vars => CallsInv'
<1> SUFFICES ASSUME CallsInv, [Next]_vars PROVE CallsInv'
  OBVIOUS
<1>1. ASSUME NEW c \in Calls, Kept(c) PROVE CallsInv'
  <2>1. \A d \in Calls : Futures(d)' /\ Accounted(d)'
    BY <1>1, SameCall DEF Kept, CallsInv
  <2>2. Typed'
    BY <1>1, TypedStep DEF Kept, CallsInv
  <2>3. QED BY <1>1, <2>1, <2>2 DEF Kept, CallsInv
<1>2. CASE UNCHANGED vars
  <2>1. \A d \in Calls : Same(d)
    BY <1>2 DEF vars, Same
  <2>2. \A d \in Calls : Futures(d)' /\ Accounted(d)'
    BY <2>1, SameCall DEF CallsInv
  <2>3. Taken' = Taken /\ permits' = permits
    BY <1>2 DEF vars, Taken
  <2>4. Counted' /\ permits' \in Nat
    BY <2>3, CountedSame DEF CallsInv, Typed
  <2>5. Typed'
    BY <2>4, TypedStep DEF CallsInv
  <2>6. QED BY <2>2, <2>4, <2>5 DEF CallsInv
<1>3. CASE \E c \in Calls : Status(c) \/ Find(c) \/ Summarise(c) \/ CancelSummary(c)
  <2>1. PICK c \in Calls : Status(c) \/ Find(c) \/ Summarise(c) \/ CancelSummary(c)
    BY <1>3
  <2>2. Kept(c)
    BY <2>1, StartKeeps, AskingKeeps, CollectKeeps, LeavingKeeps, SummaryKeeps DEF Status
  <2>3. QED BY <1>1, <2>2
<1>4. CASE \E c \in Calls, i \in Instances :
             Begin(c, i) \/ Connect(c, i) \/ Send(c, i) \/ Receive(c, i) \/ Breaks(c, i) \/ TimesOut(c, i)
  BY <1>1, <1>4, PoolKeeps
<1>5. QED BY <1>2, <1>3, <1>4 DEF Next, Over

LEMMA CallsStart == Init => CallsInv
<1> SUFFICES ASSUME Init PROVE CallsInv
  OBVIOUS
<1>1. Typed
  BY StatusAssumption DEF Init, Typed, Pcs, Sts
<1>2. Taken = {}
  BY DEF Init, Taken
<1>3. Counted
  BY <1>2, FS_EmptySet, StatusAssumption DEF Init, Counted, StatusPermits
<1>4. \A c \in Calls : Collected(c) = {}
  BY DEF Init, Collected
<1>5. \A c \in Calls : Futures(c) /\ Accounted(c)
  BY <1>4 DEF Init, Futures, Accounted, Summary, None
<1>6. QED BY <1>1, <1>3, <1>5 DEF CallsInv

LEMMA CallsAlways == Spec => []CallsInv
BY CallsStart, CallsStep, PTL DEF Spec

-----------------------------------------------------------------------------
\* At any moment each permit of the status pool is either free or with one future that
\* will give it back, however futures finish while callbacks are added and callers leave.
THEOREM PermitsAlwaysExact == Spec => []StatusPermits
<1>1. CallsInv => StatusPermits
  BY DEF CallsInv, Counted
<1>2. QED BY <1>1, CallsAlways, PTL

\* Every status answer counts as skipped exactly the live instances it has nothing of,
\* and no call that met a failing bridge ends without invalidating the cache.
THEOREM AnswersAddUp == Spec => []StatusAddsUp
<1>1. CallsInv => StatusAddsUp
  <2> SUFFICES ASSUME CallsInv, NEW c \in Calls
               PROVE  /\ pc[c] = "answered" => skipped[c] = Cardinality(Unseen(c))
                      /\ pc[c] \in Done /\ Failing(c) # {} => c \in stale
    BY DEF StatusAddsUp
  <2>1. Accounted(c) /\ asked[c] \in SUBSET Instances
    BY DEF CallsInv, Typed
  <2>2. ASSUME NEW i \in Failing(c) PROVE c \in stale
    <3>1. i \in asked[c] /\ i \in Instances
      BY <2>1, <2>2 DEF Failing
    <3>2. CASE answers[c][i] \in {"unavailable", "timeout"}
      BY <2>1, <3>1, <3>2 DEF Accounted
    <3>3. CASE answers[c][i] = None /\ pc[c] = "answered"
      <4>1. i \in Missing(c)
        BY <3>1, <3>3 DEF Missing, Collected
      <4>2. QED BY <2>1, <3>3, <4>1 DEF Accounted
    <3>4. QED BY <2>2, <3>2, <3>3 DEF Failing
  <2>3. QED BY <2>1, <2>2 DEF Accounted
<1>2. QED BY <1>1, CallsAlways, PTL

-----------------------------------------------------------------------------
(* The scene reader and the driver. *)

\* A session the driver must hold on to.
Owned == {"live", "aborted", "stopped"}
Held ==
  /\ counter = session
  /\ \A s \in Reader!Sessions : status[s] \in Owned => session = s
  /\ session # NoSession => status[session] \in Owned
  /\ session = NoSession => callbacks = {} /\ ~inTick

\* A live session is told of every change, while Blender loses no callback.
Watched ==
  ~dropped => /\ blind = {}
              /\ session # NoSession /\ status[session] = "live" => Reader!Handlers \subseteq callbacks

\* A counter counts no more than there was.
Bounded == \A s \in Reader!Sessions :
             revision[s].generation <= revision[s].value /\ revision[s].value <= scene.version

\* The session can be asked for the scene and knows of its changes: the counter and the
\* scene move together.
Fresh == session # NoSession /\ session \notin blind /\ (status[session] = "live" \/ inTick)
InStep(value, v) == v + revision[session].value = scene.version + value

\* What was published, and what a continuation has read, is one version each.
Shown ==
  /\ \A p \in published : \E v \in Reader!Versions : p.shows = {v}
  /\ \A p \in published : status[p.session] # "unborn"
  /\ \A p, q \in published : p.session = q.session =>
       \A v \in p.shows, w \in q.shows : v + q.revision = w + p.revision
  /\ \A p \in published : Fresh /\ p.session = session => \A v \in p.shows : InStep(p.revision, v)
SeenOne ==
  snap # NoSession /\ snap \in Reader!Reading /\ session \notin blind =>
    /\ \E v \in Reader!Versions : snap.seen = {v}
    /\ Fresh => \A v \in snap.seen : InStep(snap.marker.value, v)

SceneInv == Reader!TypeOK /\ Held /\ Watched /\ Bounded /\ Shown /\ SeenOne

-----------------------------------------------------------------------------
(* The calls of driver. *)

Lives == {"unborn", "live", "aborted", "stopped", "clean", "lost"}

\* What starting, repairing, stopping and cleaning up come to: no session and no callback,
\* a session to be cleaned up again, or a live one with all its callbacks.
Renewed ==
  /\ session' \in Reader!Sessions \cup {NoSession} /\ counter' = session'
  /\ callbacks' \subseteq Reader!Callbacks /\ (session' = NoSession => callbacks' = {})
  /\ status' \in [Reader!Sessions -> Lives]
  /\ \A s \in Reader!Sessions : status'[s] \in Owned => session' = s
  /\ \A s \in Reader!Sessions : status[s] # "unborn" => status'[s] # "unborn"
  /\ session' # NoSession => status'[session'] \in Owned
  /\ session' # NoSession /\ status'[session'] = "live" =>
       /\ callbacks' = Reader!Callbacks
       /\ (session' = session /\ status[session] = "live") \/ status[session'] = "unborn"
  /\ snap' = NoSession \/ (snap' = snap /\ session' = session /\ status' = status)
  /\ faults' \in 0..MaxFaults
  /\ ~inTick /\ UNCHANGED <<revision, inTick, scene, blind, dropped, published>>

LEMMA Numbers ==
  /\ MaxSessions \in Nat /\ MaxEdits \in Nat /\ MaxFaults \in Nat /\ MaxObjects \in Nat
  /\ MaxCollections \in Nat /\ NoSession \notin Reader!Sessions
  BY BoundsAssumption DEF Reader!Sessions

LEMMA ChargeBounded ==
  ASSUME faults \in 0..MaxFaults, NEW cost \in Nat, Reader!Charge(cost)
  PROVE  faults' \in 0..MaxFaults
  BY Numbers DEF Reader!Charge

LEMMA EndRenews ==
  ASSUME NEW lives \in [Reader!Sessions -> Lives], NEW s \in Reader!Sessions,
         NEW left \in SUBSET Reader!Callbacks, NEW complete \in BOOLEAN,
         NEW failed \in {"stopped", "aborted"}, NEW cost \in Nat,
         Reader!EndSession(lives, s, left, complete, failed, cost),
         \A n \in Reader!Sessions : lives[n] \in Owned => n = s,
         \A n \in Reader!Sessions : status[n] # "unborn" => lives[n] # "unborn",
         complete => left = {}, ~inTick, Reader!Unchanging, faults \in 0..MaxFaults
  PROVE  Renewed
<1>1. /\ callbacks' = left /\ snap' = NoSession
      /\ session' = (IF complete THEN NoSession ELSE s)
      /\ counter' = (IF complete THEN NoSession ELSE s)
      /\ status' = [lives EXCEPT ![s] = IF complete THEN "clean" ELSE failed]
  BY DEF Reader!EndSession
<1>2. faults' \in 0..MaxFaults
  <2>1. (IF complete THEN cost ELSE cost + 1) \in Nat
    OBVIOUS
  <2>2. QED BY <2>1, ChargeBounded DEF Reader!EndSession
<1>3. UNCHANGED <<revision, inTick, scene, blind, dropped, published>>
  BY DEF Reader!Unchanging, Reader!history
<1>4. status' \in [Reader!Sessions -> Lives]
  BY <1>1 DEF Lives
<1>5. \A n \in Reader!Sessions : status'[n] = IF n = s THEN (IF complete THEN "clean" ELSE failed) ELSE lives[n]
  BY <1>1
<1>6. QED BY <1>1, <1>2, <1>3, <1>4, <1>5, Numbers DEF Renewed, Owned

LEMMA AllGone ==
  ASSUME NEW registered \in SUBSET Reader!Callbacks, NEW complete \in BOOLEAN,
         NEW gone \in Reader!Unregisters(Reader!StopHooks, registered, complete)
  PROVE  registered \ gone \in SUBSET Reader!Callbacks /\ (complete => registered \ gone = {})
  BY DEF Reader!Unregisters, Reader!StopHooks

LEMMA EnsureRenews ==
  ASSUME NEW lives \in [Reader!Sessions -> Lives], NEW s \in Reader!Sessions, NEW before,
         Reader!EnsureFails(lives, s, before),
         \A n \in Reader!Sessions : lives[n] \in Owned => n = s,
         \A n \in Reader!Sessions : status[n] # "unborn" => lives[n] # "unborn",
         ~inTick, Reader!Unchanging, faults \in 0..MaxFaults
  PROVE  Renewed
<1>1. PICK registered \in SUBSET Reader!Callbacks, complete \in BOOLEAN :
        \E gone \in Reader!Unregisters(Reader!StopHooks, registered, complete) :
          Reader!EndSession(lives, s, registered \ gone, complete, "stopped", 1)
  BY DEF Reader!EnsureFails
<1>2. PICK gone \in Reader!Unregisters(Reader!StopHooks, registered, complete) :
        Reader!EndSession(lives, s, registered \ gone, complete, "stopped", 1)
  BY <1>1
<1> DEFINE left == registered \ gone
<1>3. left \in SUBSET Reader!Callbacks /\ (complete => left = {})
  BY AllGone
<1>4. Reader!EndSession(lives, s, left, complete, "stopped", 1)
  BY <1>2
<1> HIDE DEF left
<1>5. QED BY <1>3, <1>4, EndRenews

LEMMA NewRenews ==
  ASSUME NEW lives \in [Reader!Sessions -> Lives], Reader!StartNew(lives, {}),
         \A n \in Reader!Sessions : lives[n] \notin Owned,
         \A n \in Reader!Sessions : status[n] # "unborn" => lives[n] # "unborn",
         ~inTick, Reader!Unchanging, faults \in 0..MaxFaults
  PROVE  Renewed
<1>1. PICK s \in Reader!Sessions :
        /\ \A n \in Reader!Sessions : n < s <=> lives[n] # "unborn"
        /\ \/ /\ callbacks' = {}
              /\ session' = NoSession /\ counter' = NoSession
              /\ snap' = NoSession
              /\ Reader!StartFails(lives, s)
           \/ /\ callbacks' = Reader!Ensured
              /\ session' = s /\ counter' = s
              /\ status' = [lives EXCEPT ![s] = "live"]
              /\ snap' = NoSession
              /\ UNCHANGED faults
           \/ Reader!EnsureFails(lives, s, {})
  BY DEF Reader!StartNew
<1>2. lives[s] = "unborn" /\ status[s] = "unborn"
  BY <1>1 DEF Reader!Sessions
<1>3. UNCHANGED <<revision, inTick, scene, blind, dropped, published>>
  BY DEF Reader!Unchanging, Reader!history
<1>4. CASE /\ callbacks' = {} /\ session' = NoSession /\ counter' = NoSession /\ snap' = NoSession
           /\ Reader!StartFails(lives, s)
  <2>1. faults' \in 0..MaxFaults
    BY <1>4, ChargeBounded DEF Reader!StartFails
  <2>2. /\ status' \in [Reader!Sessions -> Lives]
        /\ \A n \in Reader!Sessions : status'[n] \in {lives[n], "lost"}
    BY <1>4 DEF Lives, Reader!StartFails
  <2>3. QED BY <1>3, <1>4, <2>1, <2>2 DEF Renewed, Owned
<1>5. CASE callbacks' = Reader!Ensured /\ session' = s /\ counter' = s
           /\ status' = [lives EXCEPT ![s] = "live"] /\ snap' = NoSession /\ UNCHANGED faults
  <2>1. status' \in [Reader!Sessions -> Lives]
    BY <1>5 DEF Lives
  <2>2. \A n \in Reader!Sessions : status'[n] = IF n = s THEN "live" ELSE lives[n]
    BY <1>5
  <2>3. QED BY <1>2, <1>3, <1>5, <2>1, <2>2, Numbers DEF Renewed, Owned, Reader!Ensured
<1>6. CASE Reader!EnsureFails(lives, s, {})
  BY <1>6, EnsureRenews
<1>7. QED BY <1>1, <1>4, <1>5, <1>6

LEMMA DriverRenews ==
  ASSUME Reader!TypeOK, Held,
         Reader!StartFresh \/ Reader!StartOver \/ Reader!StartHeal \/ Reader!Stop \/ Reader!TimerCleans
  PROVE  Renewed
<1>1. /\ status \in [Reader!Sessions -> Lives] /\ callbacks \in SUBSET Reader!Callbacks
      /\ faults \in 0..MaxFaults /\ session \in Reader!Sessions \cup {NoSession}
  BY DEF Reader!TypeOK, Lives
<1>2. ~inTick /\ Reader!Unchanging
  BY DEF Reader!StartFresh, Reader!StartOver, Reader!StartHeal, Reader!Stop, Reader!TimerCleans
<1>3. CASE Reader!StartFresh
  <2>1. callbacks = {} /\ (\A n \in Reader!Sessions : status[n] \notin Owned) /\ Reader!StartNew(status, {})
    BY <1>3, Numbers DEF Reader!StartFresh, Held
  <2>2. QED BY <1>1, <1>2, <2>1, NewRenews
<1>4. ASSUME session # NoSession PROVE session \in Reader!Sessions /\ \A n \in Reader!Sessions : status[n] \in Owned => n = session
  BY <1>1, <1>4 DEF Held
<1>5. CASE Reader!StartOver
  <2>1. CASE \E gone \in Reader!Unregisters(Reader!StopHooks, callbacks, TRUE) :
               Reader!StartNew([status EXCEPT ![session] = "clean"], callbacks \ gone)
    <3> DEFINE lives == [status EXCEPT ![session] = "clean"]
    <3>0. PICK gone \in Reader!Unregisters(Reader!StopHooks, callbacks, TRUE) :
            Reader!StartNew(lives, callbacks \ gone)
      BY <2>1
    <3>1. callbacks \ gone = {}
      BY <1>1 DEF Reader!Unregisters, Reader!StopHooks
    <3>2. /\ lives \in [Reader!Sessions -> Lives] /\ \A n \in Reader!Sessions : lives[n] \notin Owned
          /\ \A n \in Reader!Sessions : status[n] # "unborn" => lives[n] # "unborn"
      BY <1>1, <1>4, <1>5 DEF Reader!StartOver, Lives, Owned
    <3> HIDE DEF lives
    <3>3. Reader!StartNew(lives, {})
      BY <3>0, <3>1
    <3>4. QED BY <1>1, <1>2, <3>2, <3>3, NewRenews
  <2>2. CASE \E gone \in Reader!Unregisters(Reader!StopHooks, callbacks, FALSE) :
               Reader!EndSession(status, session, callbacks \ gone, FALSE, "stopped", 0)
    <3>1. PICK gone \in Reader!Unregisters(Reader!StopHooks, callbacks, FALSE) :
            Reader!EndSession(status, session, callbacks \ gone, FALSE, "stopped", 0)
      BY <2>2
    <3> DEFINE left == callbacks \ gone
    <3>2. left \in SUBSET Reader!Callbacks
      BY <1>1
    <3>3. Reader!EndSession(status, session, left, FALSE, "stopped", 0) /\ session # NoSession
      BY <1>5, <3>1 DEF Reader!StartOver
    <3> HIDE DEF left
    <3>4. QED BY <1>1, <1>2, <1>4, <3>2, <3>3, EndRenews
  <2>3. QED BY <1>5, <2>1, <2>2 DEF Reader!StartOver
<1>6. CASE Reader!StartHeal
  <2>1. CASE callbacks' = Reader!Ensured /\ UNCHANGED <<session, counter, status, snap, faults>>
    <3>1. UNCHANGED <<revision, inTick, scene, blind, dropped, published>>
      BY <1>2 DEF Reader!Unchanging, Reader!history
    <3>2. session # NoSession /\ status[session] = "live"
      BY <1>6 DEF Reader!StartHeal
    <3>3. QED BY <1>1, <1>2, <1>4, <2>1, <3>1, <3>2 DEF Renewed, Held, Owned, Reader!Ensured
  <2>2. CASE Reader!EnsureFails(status, session, callbacks)
    <3>1. session # NoSession
      BY <1>6 DEF Reader!StartHeal
    <3>2. QED BY <1>1, <1>2, <1>4, <2>2, <3>1, EnsureRenews
  <2>3. QED BY <1>6, <2>1, <2>2 DEF Reader!StartHeal
<1>7. CASE Reader!Stop
  <2>0. PICK complete \in BOOLEAN :
          \E gone \in Reader!Unregisters(Reader!StopHooks, callbacks, complete) :
            Reader!EndSession(status, session, callbacks \ gone, complete, "stopped", 0)
    BY <1>7 DEF Reader!Stop
  <2>1. PICK gone \in Reader!Unregisters(Reader!StopHooks, callbacks, complete) :
          Reader!EndSession(status, session, callbacks \ gone, complete, "stopped", 0)
    BY <2>0
  <2> DEFINE left == callbacks \ gone
  <2>2. left \in SUBSET Reader!Callbacks /\ (complete => left = {})
    BY <1>1, AllGone
  <2>3. Reader!EndSession(status, session, left, complete, "stopped", 0) /\ session # NoSession
    BY <1>7, <2>1 DEF Reader!Stop
  <2> HIDE DEF left
  <2>4. QED BY <1>1, <1>2, <1>4, <2>2, <2>3, EndRenews
<1>8. CASE Reader!TimerCleans
  <2>0. PICK complete \in BOOLEAN :
          \E gone \in Reader!Unregisters(Reader!Handlers, callbacks, complete) :
            Reader!EndSession(status, session,
                    IF complete THEN (callbacks \ gone) \ {"timer"} ELSE callbacks \ gone,
                    complete, status[session], 0)
    BY <1>8 DEF Reader!TimerCleans
  <2>1. PICK gone \in Reader!Unregisters(Reader!Handlers, callbacks, complete) :
          Reader!EndSession(status, session,
                  IF complete THEN (callbacks \ gone) \ {"timer"} ELSE callbacks \ gone,
                  complete, status[session], 0)
    BY <2>0
  <2> DEFINE left == IF complete THEN (callbacks \ gone) \ {"timer"} ELSE callbacks \ gone
  <2>2. left \in SUBSET Reader!Callbacks /\ (complete => left = {})
    BY <1>1 DEF Reader!Unregisters, Reader!Handlers, Reader!Callbacks
  <2>3. /\ Reader!EndSession(status, session, left, complete, status[session], 0)
        /\ session # NoSession /\ status[session] \in {"stopped", "aborted"}
    BY <1>8, <2>1 DEF Reader!TimerCleans, Reader!Stopped
  <2> HIDE DEF left
  <2>4. QED BY <1>1, <1>2, <1>4, <2>2, <2>3, EndRenews
<1>9. QED BY <1>3, <1>5, <1>6, <1>7, <1>8

LEMMA RenewedKeeps == SceneInv /\ Renewed => SceneInv'
<1> SUFFICES ASSUME SceneInv, Renewed PROVE SceneInv'
  OBVIOUS
<1>1. Reader!TypeOK'
  BY DEF SceneInv, Renewed, Lives, Reader!TypeOK
<1>2. Held' BY DEF SceneInv, Held, Renewed
<1>3. Watched' BY DEF SceneInv, Watched, Renewed, Reader!Callbacks
<1>4. Bounded' BY DEF SceneInv, Bounded, Renewed
<1>5. Shown'
  <2>1. /\ \A p \in published' : \E v \in Reader!Versions : p.shows = {v}
        /\ \A p, q \in published' : p.session = q.session =>
             \A v \in p.shows, w \in q.shows : v + q.revision = w + p.revision
    BY DEF SceneInv, Shown, Renewed
  <2>2. ASSUME NEW p \in published' PROVE p.session \in Reader!Sessions /\ status[p.session] # "unborn"
    BY <2>2 DEF SceneInv, Shown, Renewed, Reader!TypeOK
  <2>3. \A p \in published' : status'[p.session] # "unborn"
    BY <2>2 DEF Renewed
  <2>4. ASSUME NEW p \in published', Fresh', p.session = session', NEW v \in p.shows
        PROVE  InStep(p.revision, v)'
    <3>1. session' = session /\ status[session] = "live" /\ session # NoSession
      BY <2>2, <2>4 DEF Fresh, Renewed
    <3>2. Fresh
      BY <2>4, <3>1 DEF Fresh, Renewed
    <3>3. InStep(p.revision, v)
      BY <2>4, <3>1, <3>2 DEF SceneInv, Shown, Renewed
    <3>4. QED BY <3>1, <3>3 DEF InStep, Renewed
  <2>5. QED BY <2>1, <2>3, <2>4 DEF Shown
<1>6. SeenOne'
  <2>1. CASE snap' = NoSession
    BY <2>1 DEF SeenOne
  <2>2. CASE snap' = snap /\ session' = session /\ status' = status
    BY <2>2 DEF SceneInv, SeenOne, Fresh, InStep, Renewed
  <2>3. QED BY <2>1, <2>2 DEF Renewed
<1>7. QED BY <1>1, <1>2, <1>3, <1>4, <1>5, <1>6 DEF SceneInv

-----------------------------------------------------------------------------
(* A step of the continuation. *)

\* What a continuation may be at the end of a step, or at a point in it.
Good(n) ==
  /\ n \in Reader!Reading
  /\ session \notin blind => /\ \E v \in Reader!Versions : n.seen = {v}
                             /\ \A v \in n.seen : InStep(n.marker.value, v)

Ends == snap' = NoSession /\ published' = published
Yields(n) == snap' = n /\ published' = published
Publishes(n) ==
  /\ ~Reader!Moved(n)
  /\ snap' = [stage |-> "encoding"]
  /\ published' = published \cup
       (IF session \in blind THEN {}
        ELSE {[session |-> session, revision |-> n.marker.value,
               shows |-> n.seen \cup {scene.version}]})
Stepped == Ends \/ \E n : Good(n) /\ (Yields(n) \/ Publishes(n))

LEMMA SeeGood ==
  ASSUME Reader!TypeOK, session \in Reader!Sessions, NEW n, Good(n), ~Reader!Moved(n)
  PROVE  Good(Reader!See(n))
<1> DEFINE m == [n EXCEPT !.next = @ + 1, !.seen = @ \cup {scene.version}]
<1>1. n \in Reader!Reading
  BY DEF Good
<1>2. /\ scene.version \in Reader!Versions /\ scene.version \in Nat
      /\ revision[session].value \in Nat /\ n.marker = revision[session]
  BY Numbers DEF Reader!TypeOK, Reader!Versions, Reader!Markers, Reader!Moved
<1>3. /\ m \in Reader!Reading /\ m.marker = n.marker /\ m.seen = n.seen \cup {scene.version}
  <2>1. n.next + 1 \in Nat /\ n.seen \cup {scene.version} \in SUBSET Reader!Versions
    BY <1>1, <1>2 DEF Reader!Reading
  <2>2. m = [n EXCEPT !.next = n.next + 1, !.seen = n.seen \cup {scene.version}]
    OBVIOUS
  <2> HIDE DEF m
  <2>3. QED BY <1>1, <2>1, <2>2 DEF Reader!Reading
<1>4. ASSUME session \notin blind PROVE n.seen = {scene.version}
  <2>1. PICK v \in Reader!Versions : n.seen = {v}
    BY <1>4 DEF Good
  <2>2. v + revision[session].value = scene.version + n.marker.value /\ v \in Nat
    BY <1>4, <2>1, Numbers DEF Good, InStep, Reader!Versions
  <2>3. v = scene.version
    BY <1>2, <2>2
  <2>4. QED BY <2>1, <2>3
<1>5. scene.version + revision[session].value = scene.version + n.marker.value
  BY <1>2
<1>6. Good(m)
  <2>1. ASSUME session \notin blind PROVE m.seen = {scene.version}
    BY <1>3, <1>4, <2>1
  <2>2. QED BY <1>2, <1>3, <1>5, <2>1 DEF Good, InStep
<1>7. QED BY <1>6 DEF Reader!See

LEMMA ReadsStep ==
  ASSUME Reader!TypeOK, session \in Reader!Sessions, NEW n, Good(n),
         Reader!ReadObjects(n) \/ Reader!HashLines(n) \/ Reader!ReadCollections(n)
  PROVE  Stepped
<1>1. n \in Reader!Reading
  BY DEF Good
<1>2. CASE Reader!ReadObjects(n)
  <2>1. Ends \/ (~Reader!Moved(n) /\ Yields(Reader!See(n)))
    BY <1>2 DEF Reader!ReadObjects, Reader!Raise, Reader!Yield, Ends, Yields
  <2>2. QED BY <2>1, SeeGood DEF Stepped
<1>3. CASE Reader!HashLines(n)
  <2> DEFINE m == [n EXCEPT !.stage = "hash"]
  <2>1. m \in Reader!Reading /\ m.marker = n.marker /\ m.seen = n.seen
    BY <1>1 DEF Reader!Reading
  <2>2. Good(m)
    BY <2>1 DEF Good
  <2>3. Ends \/ Yields(m)
    BY <1>3 DEF Reader!HashLines, Reader!Raise, Reader!Yield, Ends, Yields
  <2> HIDE DEF m
  <2>4. QED BY <2>2, <2>3 DEF Stepped
<1>4. CASE Reader!ReadCollections(n)
  <2>1. Ends \/ (~Reader!Moved(n) /\ Yields(Reader!See(n))) \/ Publishes(n)
    BY <1>4 DEF Reader!ReadCollections, Reader!Publish, Reader!Raise, Reader!Yield, Ends, Yields, Publishes
  <2>2. QED BY <2>1, SeeGood DEF Stepped
<1>5. QED BY <1>2, <1>3, <1>4

LEMMA CollectionsStep ==
  ASSUME Reader!TypeOK, session \in Reader!Sessions, NEW n, Good(n), Reader!EnterCollections(n)
  PROVE  Stepped
<1>1. PICK total \in {0, scene.collections} :
        Reader!ReadCollections([n EXCEPT !.stage = "collections", !.next = 0, !.total = total])
  BY DEF Reader!EnterCollections
<1> DEFINE m == [n EXCEPT !.stage = "collections", !.next = 0, !.total = total]
<1>2. total \in Nat
  BY Numbers DEF Reader!TypeOK
<1>3. m \in Reader!Reading /\ m.marker = n.marker /\ m.seen = n.seen
  BY <1>2 DEF Good, Reader!Reading
<1>4. Good(m)
  BY <1>3 DEF Good
<1>5. Reader!ReadCollections(m)
  BY <1>1
<1> HIDE DEF m
<1>6. QED BY <1>4, <1>5, ReadsStep

LEMMA StepSteps ==
  ASSUME SceneInv, Reader!Step
  PROVE  /\ Stepped /\ inTick /\ session \in Reader!Sessions
         /\ UNCHANGED <<session, counter, status, callbacks, revision, inTick, scene, faults, blind, dropped>>
<1>1. /\ inTick /\ snap # NoSession
      /\ UNCHANGED <<session, counter, status, callbacks, revision, inTick, scene, faults, blind, dropped>>
  BY DEF Reader!Step, Reader!driver
<1>2. session \in Reader!Sessions /\ Reader!TypeOK
  BY <1>1 DEF SceneInv, Held, Reader!TypeOK
<1>3. CASE snap.stage = "start" /\ Reader!Begin
  <2> DEFINE n == [stage |-> "objects", next |-> 0, total |-> scene.objects,
                   marker |-> revision[session], seen |-> {scene.version}]
  <2>1. /\ scene.objects \in Nat /\ scene.version \in Reader!Versions
        /\ revision[session] \in Reader!Markers
    BY <1>2, Numbers DEF Reader!TypeOK
  <2>2. n \in Reader!Reading
    BY <2>1 DEF Reader!Reading
  <2>3. Good(n)
    BY <2>1, <2>2 DEF Good, InStep
  <2>4. Reader!ReadObjects(n) \/ Reader!EnterCollections(n)
    BY <1>3 DEF Reader!Begin
  <2> HIDE DEF n
  <2>5. Stepped BY <1>2, <2>3, <2>4, ReadsStep, CollectionsStep
  <2>6. QED BY <1>1, <1>2, <2>5
<1>4. CASE snap.stage = "encoding" /\ Reader!Raise
  BY <1>1, <1>2, <1>4 DEF Reader!Raise, Stepped, Ends
<1>5. CASE /\ snap.stage \in {"objects", "hash", "collections"}
           /\ \/ Reader!ReadObjects(snap) \/ Reader!HashLines(snap)
              \/ Reader!EnterCollections(snap) \/ Reader!ReadCollections(snap)
  <2>1. snap \in Reader!Reading
    BY <1>1, <1>2, <1>5 DEF Reader!TypeOK
  <2>2. session # NoSession
    BY <1>2, Numbers
  <2>3. Good(snap)
    BY <1>1, <2>1, <2>2 DEF SceneInv, SeenOne, Fresh, Good
  <2>4. Stepped BY <1>2, <1>5, <2>3, ReadsStep, CollectionsStep
  <2>5. QED BY <1>1, <1>2, <2>4
<1>6. QED BY <1>3, <1>4, <1>5 DEF Reader!Step

LEMMA SteppedKeeps == SceneInv /\ Reader!Step => SceneInv'
<1> SUFFICES ASSUME SceneInv, Reader!Step PROVE SceneInv'
  OBVIOUS
<1>1. /\ Stepped /\ inTick /\ session \in Reader!Sessions /\ session # NoSession
      /\ UNCHANGED <<session, counter, status, callbacks, revision, inTick, scene, faults, blind, dropped>>
  BY StepSteps, Numbers
<1>2. Reader!TypeOK /\ Held /\ Watched /\ Bounded /\ Shown
  BY DEF SceneInv
<1>3. Held' /\ Watched' /\ Bounded'
  BY <1>1, <1>2 DEF Held, Watched, Bounded
<1>4. Fresh' = Fresh /\ (session \notin blind => Fresh) /\ status[session] # "unborn"
  BY <1>1, <1>2 DEF Fresh, Held, Owned
<1>5. ASSUME published' = published PROVE Shown'
  BY <1>1, <1>2, <1>4, <1>5 DEF Shown, InStep
<1>6. CASE Ends
  <2>1. Reader!TypeOK' BY <1>1, <1>2, <1>6 DEF Ends, Reader!TypeOK
  <2>2. SeenOne' BY <1>6 DEF Ends, SeenOne
  <2>3. QED BY <1>3, <1>5, <1>6, <2>1, <2>2 DEF Ends, SceneInv
<1>7. ASSUME NEW n, Good(n), Yields(n) PROVE SceneInv'
  <2>1. Reader!TypeOK' BY <1>1, <1>2, <1>7 DEF Good, Yields, Reader!TypeOK
  <2>2. SeenOne' BY <1>1, <1>7 DEF Good, Yields, SeenOne, InStep
  <2>3. QED BY <1>3, <1>5, <1>7, <2>1, <2>2 DEF Yields, SceneInv
<1>8. ASSUME NEW n, Good(n), Publishes(n) PROVE SceneInv'
  <2>1. /\ n \in Reader!Reading /\ n.marker = revision[session] /\ snap' = [stage |-> "encoding"]
        /\ n.marker.value \in Nat /\ n.marker.value = revision[session].value
        /\ scene.version \in Reader!Versions /\ scene.version \in Nat
    BY <1>2, <1>8, Numbers
       DEF Good, Publishes, Reader!Moved, Reader!TypeOK, Reader!Versions, Reader!Reading, Reader!Markers
  <2>2. SeenOne' BY <2>1 DEF SeenOne, Reader!Reading
  <2>3. CASE session \in blind
    <3>1. published' = published
      BY <1>8, <2>3 DEF Publishes
    <3>2. Reader!TypeOK' BY <1>1, <1>2, <2>1, <3>1 DEF Reader!TypeOK
    <3>3. QED BY <1>3, <1>5, <2>2, <3>1, <3>2 DEF SceneInv
  <2>4. CASE session \notin blind
    <3> DEFINE new == [session |-> session, revision |-> n.marker.value, shows |-> {scene.version}]
    <3>1. n.seen = {scene.version}
      <4>1. PICK v \in Reader!Versions : n.seen = {v}
        BY <1>8, <2>4 DEF Good
      <4>2. v + revision[session].value = scene.version + n.marker.value /\ v \in Nat
        BY <1>8, <2>4, <4>1, Numbers DEF Good, InStep, Reader!Versions
      <4>3. v = scene.version
        BY <2>1, <4>2
      <4>4. QED BY <4>1, <4>3
    <3>2. published' = published \cup {new}
      BY <1>8, <2>4, <3>1 DEF Publishes
    <3>3. new \in [session : Reader!Sessions, revision : Nat, shows : SUBSET Reader!Versions]
      BY <1>1, <2>1
    <3>4. /\ new.session = session /\ new.revision = n.marker.value /\ new.shows = {scene.version}
      OBVIOUS
    <3> HIDE DEF new
    <3>5. Reader!TypeOK' BY <1>1, <1>2, <2>1, <3>2, <3>3 DEF Reader!TypeOK
    <3>6. \A v \in new.shows : InStep(new.revision, v)
      BY <2>1, <3>4 DEF InStep
    <3>7. \A p \in published' : \E v \in Reader!Versions : p.shows = {v}
      BY <1>2, <2>1, <3>2, <3>4 DEF Shown
    <3>8. \A p \in published' : status[p.session] # "unborn"
      BY <1>2, <1>4, <3>2, <3>4 DEF Shown
    <3>9. \A p \in published' : p.session = session => \A v \in p.shows : InStep(p.revision, v)
      BY <1>2, <1>4, <2>4, <3>2, <3>6 DEF Shown
    <3>10. ASSUME NEW p \in published', NEW q \in published', p.session = q.session,
                  NEW v \in p.shows, NEW w \in q.shows
           PROVE  v + q.revision = w + p.revision
      <4>1. (p \in published /\ q \in published) \/ (p.session = session /\ q.session = session)
        BY <3>2, <3>4, <3>10
      <4>2. CASE p \in published /\ q \in published
        BY <1>2, <3>10, <4>2 DEF Shown
      <4>3. CASE p.session = session /\ q.session = session
        <5>1. v + revision[session].value = scene.version + p.revision
          BY <3>9, <3>10, <4>3 DEF InStep
        <5>2. w + revision[session].value = scene.version + q.revision
          BY <3>9, <3>10, <4>3 DEF InStep
        <5>3. p \in [session : Reader!Sessions, revision : Nat, shows : SUBSET Reader!Versions]
          BY <3>5 DEF Reader!TypeOK
        <5>4. q \in [session : Reader!Sessions, revision : Nat, shows : SUBSET Reader!Versions]
          BY <3>5 DEF Reader!TypeOK
        <5>5. p.revision \in Nat /\ q.revision \in Nat /\ v \in Nat /\ w \in Nat
          BY <3>10, <5>3, <5>4, Numbers DEF Reader!Versions
        <5>6. scene.version \in Nat /\ revision[session].value \in Nat
          BY <2>1
        <5>7. QED BY <5>1, <5>2, <5>5, <5>6
      <4>4. QED BY <4>1, <4>2, <4>3
    <3>11. Shown'
      BY <1>1, <3>7, <3>8, <3>9, <3>10 DEF Shown, InStep
    <3>12. QED BY <1>3, <2>2, <3>5, <3>11 DEF SceneInv
  <2>5. QED BY <2>3, <2>4
<1>9. QED BY <1>1, <1>6, <1>7, <1>8 DEF Stepped

-----------------------------------------------------------------------------
(* What happens between the calls. *)

LEMMA ChangeKeeps ==
  ASSUME SceneInv, Reader!Edit \/ Reader!Load
  PROVE  SceneInv'
<1>1. PICK cb \in Reader!Handlers :
        /\ Reader!Change /\ Reader!Unseen(cb)
        /\ Reader!Notify(cb, Reader!Bump(counter)) \/ Reader!Notify(cb, Reader!BumpGeneration(counter))
  BY DEF Reader!Edit, Reader!Load, Reader!Handlers
<1>2. UNCHANGED <<session, counter, status, callbacks, inTick, snap, faults, dropped, published>> /\ ~inTick
  BY DEF Reader!Edit, Reader!Load, Reader!driver, Reader!Change
<1>3. Reader!TypeOK /\ Held /\ Watched /\ Bounded /\ Shown /\ SeenOne
  BY DEF SceneInv
<1>4. /\ scene.version \in Nat /\ scene.version < MaxEdits /\ scene'.version = scene.version + 1
      /\ scene' \in [version : Reader!Versions, objects : 0..MaxObjects, collections : 0..MaxCollections]
  <2>1. scene.version \in Nat /\ scene.version < MaxEdits
    BY <1>1, <1>3, Numbers DEF Reader!Change, Reader!TypeOK, Reader!Versions
  <2>2. scene.version + 1 \in Reader!Versions
    BY <2>1, Numbers DEF Reader!Versions
  <2>3. QED BY <1>1, <2>1, <2>2 DEF Reader!Change
<1>5. /\ revision \in [Reader!Sessions -> Reader!Markers]
      /\ session \in Reader!Sessions \cup {NoSession} /\ counter = session
      /\ blind \subseteq Reader!Sessions
  BY <1>3 DEF Reader!TypeOK, Held
<1> DEFINE told == cb \in callbacks /\ session # NoSession
<1>6. ASSUME ~told PROVE revision' = revision
  BY <1>1, <1>5, <1>6 DEF Reader!Notify
<1>7. ASSUME told
      PROVE  /\ session \in Reader!Sessions
             /\ \E g \in {revision[session].generation, revision[session].generation + 1} :
                  revision' = [revision EXCEPT ![session] =
                                 [value |-> revision[session].value + 1, generation |-> g]]
  <2>1. session \in Reader!Sessions /\ revision[session] \in [value : 0..MaxEdits, generation : 0..MaxEdits]
    BY <1>5, <1>7 DEF Reader!Markers
  <2>2. revision' \in {Reader!Bump(session), Reader!BumpGeneration(session)}
    BY <1>1, <1>5, <1>7 DEF Reader!Notify
  <2>3. CASE revision' = Reader!Bump(session)
    <3>1. [revision[session] EXCEPT !.value = @ + 1] =
            [value |-> revision[session].value + 1, generation |-> revision[session].generation]
      BY <2>1
    <3>2. QED BY <2>1, <2>3, <3>1 DEF Reader!Bump
  <2>4. CASE revision' = Reader!BumpGeneration(session)
    BY <1>5, <2>1, <2>4 DEF Reader!BumpGeneration
  <2>5. QED BY <2>1, <2>2, <2>3, <2>4
<1> HIDE DEF told
<1>8. ASSUME NEW s \in Reader!Sessions
      PROVE  /\ revision'[s] \in Reader!Markers
             /\ revision'[s].generation <= revision'[s].value /\ revision'[s].value <= scene'.version
  <2>1. revision[s] \in [value : 0..MaxEdits, generation : 0..MaxEdits]
    BY <1>5 DEF Reader!Markers
  <2>2. /\ revision[s].value \in Nat /\ revision[s].generation \in Nat
        /\ revision[s].generation <= revision[s].value /\ revision[s].value <= scene.version
    BY <1>3, <2>1, Numbers DEF Bounded
  <2>3. CASE revision'[s] = revision[s]
    BY <1>4, <1>5, <2>2, <2>3
  <2>4. CASE \E g \in {revision[s].generation, revision[s].generation + 1} :
               revision'[s] = [value |-> revision[s].value + 1, generation |-> g]
    <3>1. PICK g \in {revision[s].generation, revision[s].generation + 1} :
            revision'[s] = [value |-> revision[s].value + 1, generation |-> g]
      BY <2>4
    <3>2. g \in 0..MaxEdits /\ revision[s].value + 1 \in 0..MaxEdits /\ g <= revision[s].value + 1
      BY <1>4, <2>2, <3>1, Numbers
    <3>3. revision[s].value + 1 <= scene'.version
      BY <1>4, <2>2
    <3>4. QED BY <3>1, <3>2, <3>3 DEF Reader!Markers
  <2>5. QED BY <1>5, <1>6, <1>7, <2>3, <2>4
<1>9. revision' \in [Reader!Sessions -> Reader!Markers]
  <2>1. \E f : revision' = [s \in Reader!Sessions |-> f[s]]
    <3>1. CASE ~told BY <1>5, <1>6, <3>1
    <3>2. CASE told BY <1>5, <1>7, <3>2
    <3>3. QED BY <3>1, <3>2
  <2>2. QED BY <1>8, <2>1
<1>10. Bounded'
  BY <1>8 DEF Bounded
<1>11. Reader!TypeOK'
  <2>1. blind' \subseteq Reader!Sessions
    BY <1>1, <1>5 DEF Reader!Unseen
  <2>2. QED BY <1>2, <1>3, <1>4, <1>9, <2>1 DEF Reader!TypeOK
<1>12. Held' BY <1>2, <1>3 DEF Held
\* A live session that was not told is blind from now on; Blender has lost a callback.
<1>13. ASSUME session # NoSession, status[session] = "live", session \notin blind' PROVE told
  BY <1>1, <1>5, <1>13 DEF Reader!Unseen, told
<1>14. blind \subseteq blind'
  BY <1>1 DEF Reader!Unseen
<1>15. Watched'
  <2>1. ASSUME ~dropped PROVE blind' = {}
    <3>1. CASE \A s \in Reader!Sessions : status[s] # "live"
      BY <1>1, <1>3, <2>1, <3>1 DEF Reader!Unseen, Watched
    <3>2. CASE \E s \in Reader!Sessions : status[s] = "live"
      <4>1. session # NoSession /\ status[session] = "live"
        BY <1>3, <3>2, Numbers DEF Held, Owned
      <4>2. cb \in callbacks
        BY <1>1, <1>3, <2>1, <4>1 DEF Watched
      <4>3. \A s \in Reader!Sessions \ {counter} : status[s] # "live"
        BY <1>3 DEF Held, Owned
      <4>4. QED BY <1>1, <1>3, <2>1, <4>2, <4>3 DEF Reader!Unseen, Watched
    <3>3. QED BY <3>1, <3>2
  <2>2. QED BY <1>2, <1>3, <2>1 DEF Watched
\* The counter moves with the scene for as long as the session is not blind.
<1>16. ASSUME Fresh' PROVE Fresh /\ revision'[session].value = revision[session].value + 1
  <2>1. session # NoSession /\ status[session] = "live" /\ session \notin blind'
    BY <1>2, <1>16 DEF Fresh
  <2>2. Fresh
    BY <1>14, <2>1 DEF Fresh
  <2>3. QED BY <1>5, <1>7, <1>13, <2>1, <2>2
<1>17. ASSUME NEW value \in Nat, NEW v \in Nat, Fresh', InStep(value, v) PROVE InStep(value, v)'
  <2>1. revision[session].value \in Nat
    <3>1. session \in Reader!Sessions
      BY <1>5, <1>16, <1>17 DEF Fresh
    <3>2. QED BY <1>5, <3>1, Numbers DEF Reader!Markers
  <2>2. v + revision[session].value = scene.version + value
    BY <1>17 DEF InStep
  <2>3. v + revision'[session].value = scene'.version + value
    BY <1>4, <1>16, <1>17, <2>1, <2>2
  <2>4. QED BY <1>2, <2>3 DEF InStep
<1>18. Shown'
  <2>1. ASSUME NEW p \in published, Fresh', p.session = session, NEW v \in p.shows
        PROVE  InStep(p.revision, v)'
    <3>1. p \in [session : Reader!Sessions, revision : Nat, shows : SUBSET Reader!Versions]
      BY <1>3 DEF Reader!TypeOK
    <3>2. p.revision \in Nat /\ v \in Nat
      BY <2>1, <3>1, Numbers DEF Reader!Versions
    <3>3. InStep(p.revision, v)
      BY <1>3, <1>16, <2>1 DEF Shown
    <3>4. QED BY <1>17, <2>1, <3>2, <3>3
  <2>2. QED BY <1>2, <1>3, <2>1 DEF Shown
<1>19. SeenOne'
  <2> SUFFICES ASSUME snap # NoSession, snap \in Reader!Reading, session \notin blind'
               PROVE  /\ \E v \in Reader!Versions : snap.seen = {v}
                      /\ Fresh' => \A v \in snap.seen : InStep(snap.marker.value, v)'
    BY <1>2 DEF SeenOne
  <2>1. session \notin blind
    BY <1>14
  <2>2. PICK v \in Reader!Versions : snap.seen = {v}
    BY <1>3, <2>1 DEF SeenOne
  <2>3. v \in Nat /\ snap.marker.value \in Nat
    BY <2>2, Numbers DEF Reader!Versions, Reader!Reading, Reader!Markers
  <2>4. ASSUME Fresh' PROVE InStep(snap.marker.value, v)'
    <3>1. InStep(snap.marker.value, v)
      BY <1>3, <1>16, <2>1, <2>2, <2>4 DEF SeenOne
    <3>2. ASSUME NEW value \in Nat, value = snap.marker.value PROVE InStep(value, v)'
      BY <1>17, <2>3, <2>4, <3>1, <3>2
    <3>3. QED BY <1>2, <2>3, <3>2 DEF InStep
  <2>5. QED BY <2>2, <2>4
<1>20. QED BY <1>10, <1>11, <1>12, <1>15, <1>18, <1>19 DEF SceneInv

LEMMA SceneStep == SceneInv /\ [Reader!Next]_readerVars => SceneInv'
<1> SUFFICES ASSUME SceneInv, [Reader!Next]_readerVars PROVE SceneInv'
  OBVIOUS
<1>1. Reader!TypeOK /\ Held /\ Watched /\ Bounded /\ Shown /\ SeenOne
  BY DEF SceneInv
<1>2. CASE Reader!Edit \/ Reader!Load
  BY <1>2, ChangeKeeps
<1>3. CASE Reader!DropCallbacks
  <2>1. /\ callbacks' \subseteq callbacks /\ dropped' = TRUE
        /\ UNCHANGED <<session, counter, status, revision, inTick, scene, snap, faults, blind, published>>
    BY <1>3 DEF Reader!DropCallbacks
  <2>2. Reader!TypeOK' BY <1>1, <2>1 DEF Reader!TypeOK
  <2>3. Held' /\ Watched' /\ Bounded' BY <1>1, <2>1 DEF Held, Watched, Bounded
  <2>4. Shown' /\ SeenOne' BY <1>1, <2>1 DEF Shown, SeenOne, Fresh, InStep
  <2>5. QED BY <2>2, <2>3, <2>4 DEF SceneInv
<1>4. CASE Reader!StartFresh \/ Reader!StartOver \/ Reader!StartHeal \/ Reader!Stop \/ Reader!TimerCleans
  BY <1>1, <1>4, DriverRenews, RenewedKeeps
<1>5. CASE Reader!Abort
  <2>1. /\ session # NoSession /\ status' = [status EXCEPT ![session] = "aborted"] /\ Reader!Charge(1)
        /\ UNCHANGED <<session, counter, callbacks, revision, inTick, scene, snap, blind, dropped, published>>
    BY <1>5 DEF Reader!Abort, Reader!history
  <2>2. session \in Reader!Sessions /\ status \in [Reader!Sessions -> Lives] /\ faults \in 0..MaxFaults
    BY <1>1, <2>1 DEF Reader!TypeOK, Lives
  <2>3. faults' \in 0..MaxFaults
    BY <2>1, <2>2, ChargeBounded
  <2>4. \A s \in Reader!Sessions : status'[s] = IF s = session THEN "aborted" ELSE status[s]
    BY <2>1, <2>2
  <2>5. Reader!TypeOK' BY <1>1, <2>1, <2>2, <2>3 DEF Reader!TypeOK, Lives
  <2>6. Held' /\ Watched' /\ Bounded' BY <1>1, <2>1, <2>2, <2>4 DEF Held, Watched, Bounded, Owned
  <2>7. Fresh' => Fresh
    BY <2>1, <2>2, <2>4 DEF Fresh
  <2>8. \A p \in published : p.session \in Reader!Sessions
    BY <1>1 DEF Reader!TypeOK
  <2>9. Shown' /\ SeenOne' BY <1>1, <2>1, <2>4, <2>7, <2>8 DEF Shown, SeenOne, InStep
  <2>10. QED BY <2>5, <2>6, <2>9 DEF SceneInv
<1>6. CASE Reader!Request
  <2>1. /\ snap' = [stage |-> "start"]
        /\ UNCHANGED <<session, counter, status, callbacks, revision, inTick, scene, faults, blind, dropped, published>>
    BY <1>6 DEF Reader!Request, Reader!driver, Reader!history
  <2>2. Reader!TypeOK' BY <1>1, <2>1 DEF Reader!TypeOK
  <2>3. Held' /\ Watched' /\ Bounded' BY <1>1, <2>1 DEF Held, Watched, Bounded
  <2>4. Shown' /\ SeenOne' BY <1>1, <2>1 DEF Shown, SeenOne, Fresh, InStep, Reader!Reading
  <2>5. QED BY <2>2, <2>3, <2>4 DEF SceneInv
<1>7. CASE Reader!TickBegin \/ Reader!TickEnd
  <2>1. /\ inTick' \in BOOLEAN /\ (inTick' => session # NoSession /\ status[session] = "live")
        /\ UNCHANGED <<session, counter, status, callbacks, revision, scene, snap, faults, blind, dropped, published>>
    BY <1>7 DEF Reader!TickBegin, Reader!TickEnd, Reader!driver, Reader!history
  <2>2. Reader!TypeOK' BY <1>1, <2>1 DEF Reader!TypeOK
  <2>3. Held' /\ Watched' /\ Bounded' BY <1>1, <2>1 DEF Held, Watched, Bounded
  <2>4. Fresh' => Fresh BY <2>1 DEF Fresh
  <2>5. Shown' /\ SeenOne' BY <1>1, <2>1, <2>4 DEF Shown, SeenOne, InStep
  <2>6. QED BY <2>2, <2>3, <2>5 DEF SceneInv
<1>8. CASE Reader!Step
  BY <1>8, SteppedKeeps
<1>9. CASE UNCHANGED readerVars
  BY <1>1, <1>9 DEF readerVars, SceneInv, Reader!TypeOK, Held, Watched, Bounded, Shown, SeenOne, Fresh, InStep
<1>10. QED
  BY <1>2, <1>3, <1>4, <1>5, <1>6, <1>7, <1>8, <1>9 DEF Reader!Next

LEMMA SceneStart == Reader!Init => SceneInv
<1> SUFFICES ASSUME Reader!Init PROVE SceneInv
  OBVIOUS
<1>1. 0 \in 0..MaxEdits /\ 0 \in 0..MaxFaults /\ MaxObjects \in 0..MaxObjects /\ MaxCollections \in 0..MaxCollections
  BY Numbers
<1>2. Reader!TypeOK
  BY <1>1 DEF Reader!Init, Reader!TypeOK, Reader!Markers, Reader!Versions
<1>3. Held /\ Watched /\ Bounded /\ Shown /\ SeenOne
  BY DEF Reader!Init, Held, Owned, Watched, Bounded, Shown, SeenOne
<1>4. QED BY <1>2, <1>3 DEF SceneInv

LEMMA SceneAlways == MCSpec => []SceneInv
<1>1. MCInit => SceneInv
  BY SceneStart DEF MCInit
<1>2. SceneInv /\ [MCNext]_MCVars => SceneInv'
  BY SceneStep DEF MCNext, MCVars
<1>3. QED BY <1>1, <1>2, PTL DEF MCSpec

-----------------------------------------------------------------------------
\* A scene_revision names one state of the scene, for however many sessions, edits,
\* loads and failing calls, and no change goes uncounted unless Blender loses a callback.
THEOREM RevisionsHold == MCSpec => []RevisionTrue
<1>1. SceneInv => RevisionTrue
  <2> SUFFICES ASSUME SceneInv PROVE RevisionTrue
    OBVIOUS
  <2>1. Reader!ChangesCounted
    BY DEF SceneInv, Watched, Reader!ChangesCounted
  <2>2. ASSUME NEW p \in published PROVE Cardinality(p.shows) = 1
    BY <2>2, FS_Singleton DEF SceneInv, Shown
  <2>3. ASSUME NEW p \in published, NEW q \in published, p.session = q.session, p.revision = q.revision
        PROVE  p.shows = q.shows
    <3>1. PICK v \in Reader!Versions : p.shows = {v} BY DEF SceneInv, Shown
    <3>2. PICK w \in Reader!Versions : q.shows = {w} BY DEF SceneInv, Shown
    <3>3. v + q.revision = w + p.revision BY <2>3, <3>1, <3>2 DEF SceneInv, Shown
    <3>4. p \in [session : Reader!Sessions, revision : Nat, shows : SUBSET Reader!Versions]
      BY DEF SceneInv, Reader!TypeOK
    <3>5. v \in Nat /\ w \in Nat /\ p.revision \in Nat
      BY <3>4, Numbers DEF Reader!Versions
    <3>6. v = w BY <2>3, <3>3, <3>5
    <3>7. QED BY <3>1, <3>2, <3>6
  <2>4. ASSUME snap # NoSession, snap.stage \in {"objects", "hash", "collections"}, session \notin blind
        PROVE  Cardinality(snap.seen) = 1
    <3>1. snap \in Reader!Reading
      BY <2>4 DEF SceneInv, Reader!TypeOK
    <3>2. PICK v \in Reader!Versions : snap.seen = {v}
      BY <2>4, <3>1 DEF SceneInv, SeenOne
    <3>3. QED BY <3>2, FS_Singleton
  <2>5. Reader!RevisionNamesScene
    <3>1. \A p, q \in published :
            /\ Cardinality(p.shows) = 1
            /\ p.session = q.session /\ p.revision = q.revision => p.shows = q.shows
      BY <2>2, <2>3
    <3>2. snap # NoSession /\ snap.stage \in {"objects", "hash", "collections"} /\ session \notin blind
            => Cardinality(snap.seen) = 1
      BY <2>4
    <3>3. ASSUME NEW S PROVE Reader!Cardinality(S) = Cardinality(S)
      BY DEF Reader!Cardinality, Cardinality
    <3>4. QED BY <3>1, <3>2, <3>3 DEF Reader!RevisionNamesScene
  <2>6. QED BY <2>1, <2>5 DEF RevisionTrue, Reader!RevisionTrue
<1>2. QED BY <1>1, SceneAlways, PTL

\* A session that may still own a socket, a thread or a file is the one driver holds, and
\* without a session no callback of driver is left in Blender.
THEOREM NothingGetsLost == MCSpec => []NothingLost
<1>1. SceneInv => NothingLost
  BY Numbers DEF SceneInv, Held, Owned, NothingLost, Reader!NothingLost
<1>2. QED BY <1>1, SceneAlways, PTL
===============================================================================
