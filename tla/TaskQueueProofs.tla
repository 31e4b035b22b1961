-------------------------- MODULE TaskQueueProofs --------------------------
(***************************************************************************)
(* Proofs about TaskQueue for any set of requests and any limits.           *)
(***************************************************************************)
EXTENDS TaskQueue, FiniteSetTheorems, TLAPS

LEMMA WaitingAppend ==
  ASSUME NEW s \in Seq(Requests), NEW r \in Requests
  PROVE  Range(Append(s, r)) = Range(s) \cup {r}
<1> DEFINE a == Append(s, r)
<1>1. /\ a \in Seq(Requests) /\ DOMAIN a = 1..(Len(s) + 1) /\ DOMAIN s = 1..Len(s)
      /\ Len(s) \in Nat
      /\ \A i \in 1..Len(s) : a[i] = s[i]
      /\ a[Len(s) + 1] = r
  OBVIOUS
<1>2. ASSUME NEW x \in Range(a) PROVE x \in Range(s) \cup {r}
  BY <1>1, <1>2 DEF Range
<1>3. ASSUME NEW x \in Range(s) PROVE x \in Range(a)
  BY <1>1, <1>3 DEF Range
<1>4. r \in Range(a)
  <2>1. Len(s) + 1 \in DOMAIN a
    BY <1>1
  <2>2. QED BY <1>1, <2>1 DEF Range
<1> HIDE DEF a
<1>5. QED BY <1>2, <1>3, <1>4 DEF a

LEMMA WaitingTail ==
  ASSUME NEW s \in Seq(Requests), s # <<>>,
         \A i, j \in 1..Len(s) : s[i] = s[j] => i = j
  PROVE  /\ Head(s) \in Requests
         /\ Tail(s) \in Seq(Requests)
         /\ Range(s) = Range(Tail(s)) \cup {Head(s)}
         /\ Head(s) \notin Range(Tail(s))
         /\ \A i, j \in 1..Len(Tail(s)) : Tail(s)[i] = Tail(s)[j] => i = j
         /\ Len(s) = Len(Tail(s)) + 1
<1> DEFINE t == Tail(s)
<1>1. /\ Head(s) \in Requests /\ t \in Seq(Requests) /\ Len(s) = Len(t) + 1
      /\ Len(t) \in Nat /\ DOMAIN t = 1..Len(t) /\ DOMAIN s = 1..Len(s)
      /\ \A i \in 1..Len(t) : t[i] = s[i + 1]
      /\ Head(s) = s[1]
  OBVIOUS
<1> HIDE DEF t
<1>2. \A i, j \in 1..Len(t) : t[i] = t[j] => i = j
  <2> SUFFICES ASSUME NEW i \in 1..Len(t), NEW j \in 1..Len(t), t[i] = t[j]
               PROVE i = j
    OBVIOUS
  <2>1. s[i + 1] = s[j + 1] /\ i + 1 \in 1..Len(s) /\ j + 1 \in 1..Len(s)
    BY <1>1
  <2>2. QED BY <2>1, <1>1
<1>3. Head(s) \notin Range(t)
  <2> SUFFICES ASSUME NEW i \in 1..Len(t), t[i] = s[1] PROVE FALSE
    BY <1>1 DEF Range
  <2>1. s[i + 1] = s[1] /\ i + 1 \in 1..Len(s) /\ 1 \in 1..Len(s)
    BY <1>1
  <2>2. QED BY <2>1, <1>1
<1>4. ASSUME NEW x \in Range(s) PROVE x \in Range(t) \cup {Head(s)}
  <2>1. PICK i \in 1..Len(s) : x = s[i]
    BY <1>1, <1>4 DEF Range
  <2>2. CASE i = 1
    BY <2>1, <2>2, <1>1
  <2>3. CASE i # 1
    <3>1. i - 1 \in 1..Len(t) /\ t[i - 1] = s[i]
      BY <2>3, <1>1
    <3>2. QED BY <3>1, <2>1, <1>1 DEF Range
  <2>4. QED BY <2>2, <2>3
<1>5. ASSUME NEW x \in Range(t) \cup {Head(s)} PROVE x \in Range(s)
  <2>1. CASE x = Head(s)
    <3>1. 1 \in DOMAIN s
      BY <1>1
    <3>2. QED BY <2>1, <3>1, <1>1 DEF Range
  <2>2. CASE x \in Range(t)
    <3>1. PICK i \in 1..Len(t) : x = t[i]
      BY <2>2, <1>1 DEF Range
    <3>2. i + 1 \in DOMAIN s /\ x = s[i + 1]
      BY <3>1, <1>1
    <3>3. QED BY <3>2 DEF Range
  <2>3. QED BY <1>5, <2>1, <2>2
<1>6. Range(s) = Range(t) \cup {Head(s)}
  BY <1>4, <1>5
<1>7. QED BY <1>1, <1>2, <1>3, <1>6 DEF t
LEMMA AppendNoDup ==
  ASSUME NEW s \in Seq(Requests), NEW r \in Requests, r \notin Range(s),
         \A i, j \in 1..Len(s) : s[i] = s[j] => i = j
  PROVE  \A i, j \in 1..Len(Append(s, r)) :
            Append(s, r)[i] = Append(s, r)[j] => i = j
<1> DEFINE a == Append(s, r)
<1>1. /\ Len(s) \in Nat /\ Len(a) = Len(s) + 1 /\ DOMAIN s = 1..Len(s)
      /\ \A i \in 1..Len(s) : a[i] = s[i] /\ s[i] # r
      /\ a[Len(s) + 1] = r
  BY DEF Range
<1> HIDE DEF a
<1>2. \A i, j \in 1..Len(a) : a[i] = a[j] => i = j
  BY <1>1
<1>3. QED BY <1>2 DEF a

-----------------------------------------------------------------------------
\* The main thread holds a task exactly while it is between Pop and the action
\* that completes or requeues it.
CurWhileBusy == cur = NoRequest <=> pc \in {"idle", "loop", "draining"}

\* TypeOK, with counters that might be negative: that they are not needs
\* SlotsExact (see TypeCorrect).
Typed ==
  /\ tasks \in Seq(Requests)
  /\ active \in Int /\ summaries \in Int
  /\ pc \in PCs
  /\ cur \in Requests \cup {NoRequest}
  /\ taken \subseteq Requests
  /\ spent \in BOOLEAN
  /\ gen \in [Requests -> {"none", "suspended", "finished"}]
  /\ cancelled \subseteq Requests /\ expired \subseteq Requests
  /\ phase \in [Requests -> Service!Phases]
  /\ replies \in [Requests -> Nat]

\* The main thread's program counter says whether a task is in its hands.
THEOREM TypedInvariant == Spec => [](Typed /\ CurWhileBusy)
<1> USE RequestsAssumption, LimitsAssumption
<1>1. Init => Typed /\ CurWhileBusy
  <2>1. <<>> \in Seq(Requests)
    OBVIOUS
  <2>2. ASSUME Init PROVE Typed
    <3>1. tasks \in Seq(Requests) /\ active \in Int /\ summaries \in Int
      BY <2>1, <2>2 DEF Init
    <3>2. /\ pc \in PCs /\ cur \in Requests \cup {NoRequest} /\ spent \in BOOLEAN
          /\ taken \subseteq Requests
          /\ cancelled \subseteq Requests /\ expired \subseteq Requests
      BY <2>2 DEF Init, PCs
    <3>3. gen \in [Requests -> {"none", "suspended", "finished"}]
      BY <2>2 DEF Init
    <3>4. phase \in [Requests -> Service!Phases]
      BY <2>2 DEF Init, Service!Phases
    <3>5. replies \in [Requests -> Nat]
      BY <2>2 DEF Init
    <3>6. QED BY <3>1, <3>2, <3>3, <3>4, <3>5 DEF Typed
  <2>3. QED
    BY <2>2 DEF Init, CurWhileBusy
<1>2. Typed /\ CurWhileBusy /\ [Next]_vars => Typed' /\ CurWhileBusy'
  <2> SUFFICES ASSUME Typed, CurWhileBusy, [Next]_vars
               PROVE  Typed' /\ CurWhileBusy'
    OBVIOUS
  <2> USE DEF Typed, CurWhileBusy, PCs, Service!Phases, shared, thread, caller
  <2>1. ASSUME NEW r \in Requests, Submit(r) PROVE Typed' /\ CurWhileBusy'
    <3>1. phase' \in [Requests -> Service!Phases]
      BY <2>1 DEF Submit
    <3>2. tasks' \in Seq(Requests) /\ summaries' \in Int /\ active' \in Int
      <4>1. CASE Full(r)
        BY <2>1, <4>1 DEF Submit
      <4>2. CASE ~Full(r)
        <5>1. tasks' = Append(tasks, r)
          BY <2>1, <4>2 DEF Submit
        <5>2. summaries' \in Int /\ active' \in Int
          BY <2>1, <4>2 DEF Submit
        <5>3. QED BY <5>1, <5>2
      <4>3. QED BY <4>1, <4>2
    <3>3. QED BY <2>1, <3>1, <3>2 DEF Submit
  <2>2. ASSUME NEW r \in Requests, Cancel(r) \/ Expire(r)
        PROVE Typed' /\ CurWhileBusy'
    BY <2>2 DEF Cancel, Expire
  <2>3. CASE SpendBudget \/ TickStart \/ TickReturn
    BY <2>3 DEF SpendBudget, TickStart, TickReturn
  <2>4. CASE Pop
    BY <2>4 DEF Pop
  <2>0. CASE EndWithoutReply
    <3>1. gen' \in [Requests -> {"none", "suspended", "finished"}]
      BY <2>0 DEF EndWithoutReply, Closed
    <3>2. phase' \in [Requests -> Service!Phases]
      BY <2>0 DEF EndWithoutReply
    <3>3. summaries' \in Int /\ active' \in Int
      BY <2>0 DEF EndWithoutReply, CompleteActive
    <3>4. QED BY <2>0, <3>1, <3>2, <3>3 DEF EndWithoutReply, CompleteActive
  <2>5. CASE DropStale \/ DropBeforeStep
    BY <2>0, <2>5 DEF DropStale, DropBeforeStep
  <2>6. CASE RunHandler
    BY <2>6 DEF RunHandler
  <2>7. CASE TakeContinuation
    BY <2>7 DEF TakeContinuation
  <2>8. CASE YieldBudget
    BY <2>8 DEF YieldBudget, Requeue
  <2>9. CASE Step
    BY <2>9 DEF Step
  <2>10. CASE AfterYield
    <3>1. CASE Requeue /\ pc = "yielded" /\ pc' = "loop"
               /\ UNCHANGED <<taken, spent, gen, caller>>
      BY <3>1 DEF Requeue
    <3>2. QED BY <2>0, <2>10, <3>1 DEF AfterYield
  <2>11. CASE CheckFrame
    BY <2>0, <2>11 DEF CheckFrame
  <2>12. CASE Reply
    BY <2>12 DEF Reply
  <2>13. CASE FinishReply
    BY <2>13 DEF FinishReply, CompleteActive
  <2>14. CASE DrainTake
    <3>1. Waiting \subseteq Requests
      BY DEF Waiting, Range
    <3>2. Cardinality(Waiting \cap Summaries) \in Nat
      BY <3>1, FS_Subset, FS_CardinalityType
    <3>3. QED BY <2>14, <3>1, <3>2 DEF DrainTake
  <2>15. CASE DrainClose
    BY <2>15 DEF DrainClose
  <2>16. CASE UNCHANGED vars
    BY <2>16 DEF vars
  <2>17. QED
    BY <2>1, <2>2, <2>3, <2>4, <2>5, <2>6, <2>7, <2>8, <2>9, <2>10, <2>11,
       <2>12, <2>13, <2>14, <2>15, <2>16 DEF Next, IOThread, Tick
<1>3. QED
  BY <1>1, <1>2, PTL DEF Spec
-----------------------------------------------------------------------------
\* An answer has been handed over, and its slot not given back, only between
\* Reply and FinishReply.
AnsweredAtReplied ==
  \A r \in Requests : phase[r] = "answered" <=> pc = "replied" /\ cur = r

Places == OnePlace /\ AnsweredAtReplied

\* A request is in one place: it waits once, or is worked on, and its caller
\* still waits for exactly these (bridge/core/queue.py, every path of tick()).
THEOREM RequestsInOnePlace == Spec => []Places
<1> USE RequestsAssumption, LimitsAssumption
<1>1. Init => Places
  <2>1. Range(<<>>) = {}
    BY DEF Range
  <2>2. QED
    BY <2>1 DEF Init, Places, OnePlace, AnsweredAtReplied, Held, Waiting
<1>2. Typed /\ CurWhileBusy /\ Places /\ [Next]_vars => Places'
  <2> SUFFICES ASSUME Typed, CurWhileBusy, Places, [Next]_vars PROVE Places'
    OBVIOUS
  <2> USE DEF Places, shared, thread, caller
  <2>t. /\ tasks \in Seq(Requests) /\ cur \in Requests \cup {NoRequest}
        /\ Waiting \subseteq Requests /\ DOMAIN phase = Requests
    BY DEF Typed, Waiting, Range
  <2>s. ASSUME UNCHANGED <<tasks, cur, phase>>,
               pc' = "replied" <=> pc = "replied"
        PROVE Places'
    BY <2>s DEF OnePlace, AnsweredAtReplied, Held, Waiting
  <2>e. ASSUME CompleteActive, cur # NoRequest,
               \E p \in {"done", "dropped"} : phase' = [phase EXCEPT ![cur] = p]
        PROVE Places'
    <3>1. Waiting' = Waiting /\ cur' = NoRequest /\ pc' = "loop" /\ tasks' = tasks
      BY <2>e DEF CompleteActive, Waiting
    <3>2. \A r \in Requests : phase'[r] = phase[r] \/ r = cur
      BY <2>e, <2>t
    <3>3. phase'[cur] \in {"done", "dropped"}
      BY <2>e, <2>t
    <3>4. AnsweredAtReplied'
      BY <3>1, <3>2, <3>3 DEF AnsweredAtReplied
    <3>5. OnePlace'
      BY <3>1, <3>2, <3>3, <2>t, <2>e DEF OnePlace, Held
    <3>6. QED BY <3>4, <3>5
  <2>r. ASSUME Requeue, cur # NoRequest, phase' = phase,
               pc # "replied", pc' # "replied"
        PROVE Places'
    <3>1. Waiting' = Waiting \cup {cur} /\ cur' = NoRequest
          /\ tasks' = Append(tasks, cur)
      BY <2>r, <2>t, WaitingAppend DEF Requeue, Waiting
    <3>2. \A i, j \in 1..Len(tasks') : tasks'[i] = tasks'[j] => i = j
      BY <3>1, <2>t, <2>r, AppendNoDup DEF OnePlace, Waiting
    <3>3. QED
      BY <3>1, <3>2, <2>r, <2>t DEF OnePlace, AnsweredAtReplied, Held
  <2>1. ASSUME NEW r \in Requests, Submit(r) PROVE Places'
    <3>1. CASE Full(r)
      <4>1. UNCHANGED <<tasks, cur, pc>> /\ phase' = [phase EXCEPT ![r] = "rejected"]
        BY <2>1, <3>1 DEF Submit
      <4>2. QED
        BY <4>1, <2>1, <2>t DEF Submit, OnePlace, AnsweredAtReplied, Held, Waiting
    <3>2. CASE ~Full(r)
      <4>1. /\ UNCHANGED <<cur, pc>> /\ phase' = [phase EXCEPT ![r] = "accepted"]
            /\ tasks' = Append(tasks, r) /\ phase[r] = "new"
        BY <2>1, <3>2 DEF Submit
      <4>2. r \notin Held
        BY <4>1 DEF OnePlace
      <4>3. Waiting' = Waiting \cup {r}
        BY <4>1, <2>t, WaitingAppend DEF Waiting
      <4>4. \A i, j \in 1..Len(tasks') : tasks'[i] = tasks'[j] => i = j
        BY <4>1, <4>2, <2>t, AppendNoDup DEF OnePlace, Held, Waiting
      <4>5. QED
        BY <4>1, <4>2, <4>3, <4>4, <2>t DEF OnePlace, AnsweredAtReplied, Held
    <3>3. QED BY <3>1, <3>2
  <2>2. ASSUME NEW r \in Requests, Cancel(r) \/ Expire(r) PROVE Places'
    BY <2>2, <2>s DEF Cancel, Expire
  <2>3. CASE SpendBudget \/ TickStart \/ TickReturn
    BY <2>3, <2>s DEF SpendBudget, TickStart, TickReturn
  <2>4. CASE Pop
    <3>1. /\ cur' = Head(tasks) /\ tasks' = Tail(tasks) /\ tasks # <<>>
          /\ pc = "loop" /\ pc' = "popped" /\ phase' = phase
      BY <2>4 DEF Pop
    <3>2. /\ cur' \in Requests /\ Waiting = Waiting' \cup {cur'}
          /\ cur' \notin Waiting'
          /\ \A i, j \in 1..Len(tasks') : tasks'[i] = tasks'[j] => i = j
      BY <3>1, <2>t, WaitingTail DEF OnePlace, Waiting
    <3>3. cur = NoRequest
      BY <3>1 DEF CurWhileBusy
    <3>4. QED
      BY <3>1, <3>2, <3>3 DEF OnePlace, AnsweredAtReplied, Held
  <2>5. CASE DropStale \/ DropBeforeStep
    BY <2>5, <2>e DEF DropStale, DropBeforeStep, EndWithoutReply, CurWhileBusy
  <2>6. CASE RunHandler \/ TakeContinuation \/ Step
    BY <2>6, <2>s DEF RunHandler, TakeContinuation, Step
  <2>7. CASE YieldBudget
    BY <2>7, <2>r DEF YieldBudget, CurWhileBusy
  <2>8. CASE AfterYield
    BY <2>8, <2>e, <2>r DEF AfterYield, EndWithoutReply, CurWhileBusy
  <2>9. CASE CheckFrame
    BY <2>9, <2>e, <2>s DEF CheckFrame, EndWithoutReply, CurWhileBusy
  <2>10. CASE Reply
    <3>1. /\ UNCHANGED <<tasks, cur>> /\ phase' = [phase EXCEPT ![cur] = "answered"]
          /\ pc = "replying" /\ pc' = "replied" /\ cur \in Requests
      BY <2>10, <2>t DEF Reply, CurWhileBusy
    <3>2. QED
      BY <3>1, <2>t DEF OnePlace, AnsweredAtReplied, Held, Waiting
  <2>11. CASE FinishReply
    BY <2>11, <2>e DEF FinishReply, CurWhileBusy
  <2>12. CASE DrainTake
    <3>1. /\ tasks' = <<>> /\ cur' = cur /\ pc = "idle" /\ pc' = "draining"
          /\ phase' = [r \in Requests |-> IF r \in Waiting THEN "drained" ELSE phase[r]]
      BY <2>12 DEF DrainTake
    <3>2. cur = NoRequest
      BY <3>1 DEF CurWhileBusy
    <3>3. Waiting' = {} /\ Len(tasks') = 0
      BY <3>1 DEF Waiting, Range
    <3>4. QED
      BY <3>1, <3>2, <3>3 DEF OnePlace, AnsweredAtReplied, Held
  <2>13. CASE DrainClose
    BY <2>13, <2>s DEF DrainClose
  <2>14. CASE UNCHANGED vars
    BY <2>14, <2>s DEF vars
  <2>15. QED
    BY <2>1, <2>2, <2>3, <2>4, <2>5, <2>6, <2>7, <2>8, <2>9, <2>10, <2>11,
       <2>12, <2>13, <2>14 DEF Next, IOThread, Tick
<1>3. QED
  BY <1>1, <1>2, TypedInvariant, PTL DEF Spec
-----------------------------------------------------------------------------
\* Every held request takes exactly one slot.
OneSlotEach == Cardinality(Held) = Len(tasks) + active

Counters == SlotsExact /\ OneSlotEach /\ WithinLimits

\* Counters is inductive: _active and _scene_summaries follow the tasks.
THEOREM CountersInvariant == Spec => []Counters
<1> USE RequestsAssumption, LimitsAssumption
<1>1. Init => Counters
  <2> SUFFICES ASSUME Init PROVE Counters
    OBVIOUS
  <2>1. tasks = <<>> /\ cur = NoRequest /\ active = 0 /\ summaries = 0
    BY DEF Init
  <2>2. Held = {} /\ Len(tasks) = 0
    BY <2>1 DEF Held, Waiting, Range
  <2>3. Cardinality({}) = 0 /\ Held \cap Summaries = {}
    BY <2>2, FS_EmptySet
  <2>4. QED
    BY <2>1, <2>2, <2>3 DEF Counters, SlotsExact, OneSlotEach, WithinLimits
<1>2. Typed /\ CurWhileBusy /\ Places /\ Counters /\ [Next]_vars => Counters'
  <2> SUFFICES ASSUME Typed, CurWhileBusy, Places, Counters, [Next]_vars
               PROVE  Counters'
    OBVIOUS
  <2> USE DEF shared, thread, caller
  <2> DEFINE Sums(S) == Cardinality(S \cap Summaries)
  <2>t. /\ tasks \in Seq(Requests) /\ cur \in Requests \cup {NoRequest}
        /\ Held \subseteq Requests /\ Len(tasks) \in Nat
        /\ Waiting = Range(tasks) /\ cur \notin Waiting
    BY DEF Typed, Held, Waiting, Range, Places, OnePlace
  <2>f. IsFiniteSet(Held) /\ IsFiniteSet(Held \cap Summaries)
        /\ Cardinality(Held) \in Nat /\ Sums(Held) \in Nat
    BY <2>t, FS_Subset, FS_CardinalityType
  <2>c. /\ active = (IF cur = NoRequest THEN 0 ELSE 1) /\ summaries = Sums(Held)
        /\ Cardinality(Held) = Len(tasks) + active
        /\ Len(tasks) + active <= Capacity /\ Sums(Held) <= MaxSummaries
    BY DEF Counters, SlotsExact, OneSlotEach, WithinLimits
  <2>a. ASSUME NEW r \in Requests, r \notin Held
        PROVE  /\ Cardinality(Held \cup {r}) = Cardinality(Held) + 1
               /\ Sums(Held \cup {r}) =
                    Sums(Held) + (IF r \in Summaries THEN 1 ELSE 0)
    <3>1. Cardinality(Held \cup {r}) = Cardinality(Held) + 1
      BY <2>f, <2>a, FS_AddElement
    <3>2. CASE r \in Summaries
      <4>1. (Held \cup {r}) \cap Summaries = (Held \cap Summaries) \cup {r}
        BY <3>2
      <4>2. QED BY <3>1, <3>2, <4>1, <2>f, <2>a, FS_AddElement
    <3>3. CASE r \notin Summaries
      <4>1. (Held \cup {r}) \cap Summaries = Held \cap Summaries
        BY <3>3
      <4>2. Sums(Held \cup {r}) = Sums(Held)
        BY <4>1
      <4> HIDE DEF Sums
      <4>3. QED BY <3>1, <3>3, <4>2, <2>f
    <3>4. QED BY <3>2, <3>3
  <2>d. ASSUME cur # NoRequest
        PROVE  /\ Cardinality(Held \ {cur}) = Cardinality(Held) - 1
               /\ Sums(Held \ {cur}) =
                    Sums(Held) - (IF cur \in Summaries THEN 1 ELSE 0)
    <3>0. cur \in Held
      BY <2>d DEF Held
    <3>1. Cardinality(Held \ {cur}) = Cardinality(Held) - 1
      BY <2>f, <3>0, FS_RemoveElement
    <3>2. CASE cur \in Summaries
      <4>1. (Held \ {cur}) \cap Summaries = (Held \cap Summaries) \ {cur}
        BY <3>2
      <4>2. QED BY <3>0, <3>1, <3>2, <4>1, <2>f, FS_RemoveElement
    <3>3. CASE cur \notin Summaries
      <4>1. (Held \ {cur}) \cap Summaries = Held \cap Summaries
        BY <3>3
      <4>2. Sums(Held \ {cur}) = Sums(Held)
        BY <4>1
      <4> HIDE DEF Sums
      <4>3. QED BY <3>1, <3>3, <4>2, <2>f
    <3>4. QED BY <3>2, <3>3
  <2> HIDE DEF Sums
  <2>u. ASSUME Held' = Held, active' = active, summaries' = summaries,
               cur' = cur, Len(tasks') = Len(tasks)
        PROVE  Counters'
    BY <2>u, <2>c DEF Counters, SlotsExact, OneSlotEach, WithinLimits, Sums
  <2>s. ASSUME UNCHANGED <<tasks, active, summaries, cur>> PROVE Counters'
    BY <2>s, <2>u DEF Held, Waiting
  <2>q. ASSUME active' = (IF cur' = NoRequest THEN 0 ELSE 1),
               summaries' = Sums(Held'),
               Cardinality(Held') = Len(tasks') + active',
               Len(tasks') + active' <= Capacity, Sums(Held') <= MaxSummaries
        PROVE  Counters'
    BY <2>q DEF Counters, SlotsExact, OneSlotEach, WithinLimits, Sums
  <2>e. ASSUME CompleteActive, cur # NoRequest PROVE Counters'
    <3>1. /\ tasks' = tasks /\ cur' = NoRequest /\ active' = active - 1
          /\ summaries' = summaries - (IF cur \in Summaries THEN 1 ELSE 0)
      BY <2>e, <2>c, <2>f DEF CompleteActive
    <3>2. Held' = Held \ {cur}
      BY <3>1, <2>t, <2>e DEF Held, Waiting
    <3>3. QED BY <3>1, <3>2, <2>e, <2>d, <2>c, <2>f, <2>t, <2>q
  <2>r. ASSUME Requeue, cur # NoRequest PROVE Counters'
    <3>1. /\ tasks' = Append(tasks, cur) /\ cur' = NoRequest
          /\ active' = active - 1 /\ summaries' = summaries
      BY <2>r DEF Requeue
    <3>2. Held' = Held
      BY <3>1, <2>t, <2>r, WaitingAppend DEF Held, Waiting
    <3>3. Len(tasks') = Len(tasks) + 1
      BY <3>1, <2>t
    <3>4. QED BY <3>1, <3>2, <3>3, <2>r, <2>c, <2>f, <2>t, <2>q
  <2>1. ASSUME NEW r \in Requests, Submit(r) PROVE Counters'
    <3>1. CASE Full(r)
      BY <2>1, <3>1, <2>s DEF Submit
    <3>2. CASE ~Full(r)
      <4>1. /\ cur' = cur /\ active' = active /\ tasks' = Append(tasks, r)
            /\ summaries' = summaries + (IF r \in Summaries THEN 1 ELSE 0)
            /\ phase[r] = "new"
        BY <2>1, <3>2, <2>c, <2>f DEF Submit
      <4>2. r \notin Held
        BY <4>1 DEF Places, OnePlace
      <4>3. Held' = Held \cup {r} /\ Len(tasks') = Len(tasks) + 1
        BY <4>1, <2>t, WaitingAppend DEF Held, Waiting
      <4>4. Len(tasks) + active < Capacity
            /\ (r \in Summaries => Sums(Held) < MaxSummaries)
        BY <3>2, <2>c, <2>f, <2>t DEF Full
      <4>5. QED BY <4>1, <4>2, <4>3, <4>4, <2>a, <2>c, <2>f, <2>t, <2>q
    <3>3. QED BY <3>1, <3>2
  <2>2. ASSUME NEW r \in Requests, Cancel(r) \/ Expire(r) PROVE Counters'
    BY <2>2, <2>s DEF Cancel, Expire
  <2>3. CASE SpendBudget \/ TickStart \/ TickReturn
    BY <2>3, <2>s DEF SpendBudget, TickStart, TickReturn
  <2>4. CASE Pop
    <3>1. /\ cur' = Head(tasks) /\ tasks' = Tail(tasks) /\ tasks # <<>>
          /\ active' = active + 1 /\ summaries' = summaries /\ pc = "loop"
      BY <2>4 DEF Pop
    <3>2. cur = NoRequest
      BY <3>1 DEF CurWhileBusy
    <3>3. /\ cur' \in Requests /\ Len(tasks) = Len(tasks') + 1
          /\ Waiting = Waiting' \cup {cur'} /\ Len(tasks') \in Nat
      BY <3>1, <2>t, WaitingTail DEF Places, OnePlace, Waiting
    <3>4. Held' = Held
      BY <3>2, <3>3 DEF Held
    <3>5. QED BY <3>1, <3>2, <3>3, <3>4, <2>c, <2>f, <2>q
  <2>5. CASE DropStale \/ DropBeforeStep
    BY <2>5, <2>e DEF DropStale, DropBeforeStep, EndWithoutReply, CurWhileBusy
  <2>6. CASE RunHandler \/ TakeContinuation \/ Step \/ Reply
    BY <2>6, <2>s DEF RunHandler, TakeContinuation, Step, Reply
  <2>7. CASE YieldBudget
    BY <2>7, <2>r DEF YieldBudget, CurWhileBusy
  <2>8. CASE AfterYield
    BY <2>8, <2>e, <2>r DEF AfterYield, EndWithoutReply, CurWhileBusy
  <2>9. CASE CheckFrame
    BY <2>9, <2>e, <2>s DEF CheckFrame, EndWithoutReply, CurWhileBusy
  <2>10. CASE FinishReply
    BY <2>10, <2>e DEF FinishReply, CurWhileBusy
  <2>11. CASE DrainTake
    <3>1. /\ tasks' = <<>> /\ cur' = cur /\ pc = "idle" /\ active' = active
          /\ summaries' = summaries - Cardinality(Waiting \cap Summaries)
      BY <2>11 DEF DrainTake
    <3>2. cur = NoRequest
      BY <3>1 DEF CurWhileBusy
    <3>3. Held = Waiting /\ Held' = {} /\ Len(tasks') = 0
      BY <3>1, <3>2 DEF Held, Waiting, Range
    <3>4. Cardinality({}) = 0 /\ Sums({}) = 0 /\ summaries' = 0
      BY <3>1, <3>3, <2>c, <2>f, FS_EmptySet DEF Sums
    <3>5. QED BY <3>1, <3>2, <3>3, <3>4, <2>c, <2>q
  <2>12. CASE DrainClose
    BY <2>12, <2>s DEF DrainClose
  <2>13. CASE UNCHANGED vars
    BY <2>13, <2>s DEF vars
  <2>14. QED
    BY <2>1, <2>2, <2>3, <2>4, <2>5, <2>6, <2>7, <2>8, <2>9, <2>10, <2>11,
       <2>12, <2>13 DEF Next, IOThread, Tick
<1>3. QED
  BY <1>1, <1>2, TypedInvariant, RequestsInOnePlace, PTL DEF Spec

\* The counters that submit() decides on are exact in every interleaving of
\* submit, tick and drain, and no limit is ever exceeded, while a continuation
\* is in the main thread's hands included.
THEOREM CountersExact == Spec => []AdmissionExact
<1>1. Counters => AdmissionExact
  BY DEF Counters, AdmissionExact
<1>2. QED
  BY <1>1, CountersInvariant, PTL

\* Type correctness: the counters are never negative either.
THEOREM TypeCorrect == Spec => []TypeOK
<1>1. Typed /\ Counters => TypeOK
  <2> SUFFICES ASSUME Typed, Counters PROVE TypeOK
    OBVIOUS
  <2>1. Held \cap Summaries \subseteq Requests
    BY DEF Typed, Held, Waiting, Range
  <2>2. summaries \in Nat /\ active \in Nat
    BY <2>1, RequestsAssumption, FS_Subset, FS_CardinalityType
       DEF Counters, SlotsExact
  <2>3. QED BY <2>2 DEF Typed, TypeOK
<1>2. QED
  BY <1>1, TypedInvariant, CountersInvariant, PTL

-----------------------------------------------------------------------------
\* What the main thread knows of the continuation in its hands.
GenInHand ==
  /\ pc \in {"stepping", "yielded"} => gen[cur] = "suspended"
  /\ pc \in {"framed", "replying", "replied"} => gen[cur] # "suspended"
  /\ taken # {} => pc = "draining"

Continuations == NoLeakedContinuation /\ GenInHand

\* No path of tick() or drain() forgets a started generator.
THEOREM ContinuationsClosed == Spec => []NoLeakedContinuation
<1> USE RequestsAssumption, LimitsAssumption
<1>1. Init => Continuations
  BY DEF Init, Continuations, NoLeakedContinuation, GenInHand
<1>2. Typed /\ CurWhileBusy /\ Places /\ Continuations /\ [Next]_vars
        => Continuations'
  <2> SUFFICES ASSUME Typed, CurWhileBusy, Places, Continuations, [Next]_vars
               PROVE  Continuations'
    OBVIOUS
  <2> USE DEF shared, thread, caller, Continuations
  <2>t. /\ tasks \in Seq(Requests) /\ cur \in Requests \cup {NoRequest}
        /\ gen \in [Requests -> {"none", "suspended", "finished"}]
        /\ Waiting = Range(tasks) /\ Waiting \subseteq Requests /\ pc \in PCs
    BY DEF Typed, Waiting, Range
  <2>s. ASSUME UNCHANGED <<tasks, cur, pc, taken, gen>> PROVE Continuations'
    BY <2>s DEF NoLeakedContinuation, GenInHand, Held, Waiting
  <2>e. ASSUME CompleteActive, taken' = taken, cur # NoRequest,
               \/ gen' = Closed(cur)
               \/ gen' = gen /\ gen[cur] # "suspended"
        PROVE Continuations'
    <3>1. /\ Waiting' = Waiting /\ cur' = NoRequest /\ pc' = "loop"
      BY <2>e DEF CompleteActive, Waiting
    <3>2. gen'[cur] # "suspended" /\ \A r \in Requests \ {cur} : gen'[r] = gen[r]
      BY <2>e, <2>t DEF Closed
    <3>3. taken = {}
      BY <2>e DEF GenInHand, CurWhileBusy
    <3>4. QED
      BY <3>1, <3>2, <3>3, <2>e DEF NoLeakedContinuation, GenInHand, Held
  <2>r. ASSUME Requeue, taken' = taken, gen' = gen, cur # NoRequest,
               pc' \in {"loop", "idle"}
        PROVE Continuations'
    <3>1. Held' = Held
      BY <2>r, <2>t, WaitingAppend DEF Requeue, Held, Waiting
    <3>2. taken = {}
      BY <2>r DEF GenInHand, CurWhileBusy
    <3>3. QED BY <2>r, <3>1, <3>2 DEF NoLeakedContinuation, GenInHand
  <2>1. ASSUME NEW r \in Requests, Submit(r) PROVE Continuations'
    <3>1. Held \subseteq Held'
      <4>1. CASE Full(r)
        BY <2>1, <4>1 DEF Submit, Held, Waiting
      <4>2. CASE ~Full(r)
        <5>1. tasks' = Append(tasks, r) /\ cur' = cur
          BY <2>1, <4>2 DEF Submit
        <5>2. QED BY <5>1, <2>t, WaitingAppend DEF Held, Waiting
      <4>3. QED BY <4>1, <4>2
    <3>2. UNCHANGED <<pc, cur, taken, gen>>
      BY <2>1 DEF Submit
    <3>3. QED BY <3>1, <3>2 DEF NoLeakedContinuation, GenInHand
  <2>2. ASSUME NEW r \in Requests, Cancel(r) \/ Expire(r) PROVE Continuations'
    BY <2>2, <2>s DEF Cancel, Expire
  <2>3. CASE SpendBudget
    BY <2>3, <2>s DEF SpendBudget
  <2>4. CASE TickStart \/ TickReturn
    BY <2>4 DEF TickStart, TickReturn, NoLeakedContinuation, GenInHand, Held, Waiting
  <2>5. CASE Pop
    <3>1. /\ cur' = Head(tasks) /\ tasks' = Tail(tasks) /\ tasks # <<>>
          /\ pc = "loop" /\ pc' = "popped" /\ UNCHANGED <<taken, gen>>
      BY <2>5 DEF Pop
    <3>2. Held' = Held
      BY <3>1, <2>t, WaitingTail DEF Places, OnePlace, Held, Waiting, CurWhileBusy
    <3>3. QED BY <3>1, <3>2 DEF NoLeakedContinuation, GenInHand
  <2>6. CASE DropStale \/ DropBeforeStep
    BY <2>6, <2>e DEF DropStale, DropBeforeStep, EndWithoutReply, CurWhileBusy
  <2>7. CASE RunHandler
    <3>1. /\ cur \in Requests /\ pc = "popped" /\ Held' = Held /\ cur \in Held
          /\ UNCHANGED <<cur, taken>>
      BY <2>7, <2>t DEF RunHandler, CurWhileBusy, Held, Waiting
    <3>2. CASE pc' = "framed" /\ UNCHANGED gen /\ gen[cur] = "none"
      BY <3>1, <3>2 DEF NoLeakedContinuation, GenInHand
    <3>3. CASE gen' = [gen EXCEPT ![cur] = "suspended"] /\ pc' = "stepping"
      BY <3>1, <3>3, <2>t DEF NoLeakedContinuation, GenInHand
    <3>4. QED BY <2>7, <3>2, <3>3 DEF RunHandler
  <2>8. CASE TakeContinuation
    BY <2>8 DEF TakeContinuation, NoLeakedContinuation, GenInHand, Held, Waiting
  <2>9. CASE YieldBudget
    BY <2>9, <2>r DEF YieldBudget, CurWhileBusy
  <2>10. CASE Step
    <3>1. /\ cur \in Requests /\ pc = "stepping" /\ Held' = Held
          /\ UNCHANGED <<cur, taken>>
      BY <2>10, <2>t DEF Step, CurWhileBusy, Held, Waiting
    <3>2. CASE pc' = "yielded" /\ UNCHANGED gen
      BY <3>1, <3>2 DEF NoLeakedContinuation, GenInHand
    <3>3. CASE pc' = "framed" /\ gen' = [gen EXCEPT ![cur] = "finished"]
      BY <3>1, <3>3, <2>t DEF NoLeakedContinuation, GenInHand
    <3>4. QED BY <2>10, <3>2, <3>3 DEF Step
  <2>11. CASE AfterYield
    BY <2>11, <2>e, <2>r DEF AfterYield, EndWithoutReply, CurWhileBusy
  <2>12. CASE CheckFrame
    <3>1. CASE UNCHANGED <<tasks, cur, taken, gen>> /\ pc = "framed"
               /\ pc' = "replying"
      BY <3>1 DEF NoLeakedContinuation, GenInHand, Held, Waiting
    <3>2. QED BY <2>12, <2>e, <3>1 DEF CheckFrame, EndWithoutReply, CurWhileBusy
  <2>13. CASE Reply
    BY <2>13 DEF Reply, NoLeakedContinuation, GenInHand, Held, Waiting
  <2>14. CASE FinishReply
    BY <2>14, <2>e DEF FinishReply, CurWhileBusy, GenInHand
  <2>15. CASE DrainTake
    <3>1. /\ tasks' = <<>> /\ cur' = cur /\ pc = "idle" /\ pc' = "draining"
          /\ taken' = Waiting /\ gen' = gen
      BY <2>15 DEF DrainTake
    <3>2. cur = NoRequest /\ taken = {}
      BY <3>1 DEF CurWhileBusy, GenInHand
    <3>3. QED BY <3>1, <3>2 DEF NoLeakedContinuation, GenInHand, Held
  <2>16. CASE DrainClose
    <3>1. /\ UNCHANGED <<tasks, cur>> /\ taken' = {} /\ pc' = "idle"
          /\ gen' = [r \in Requests |-> IF r \in taken /\ gen[r] = "suspended"
                                        THEN "finished" ELSE gen[r]]
      BY <2>16 DEF DrainClose
    <3>2. \A r \in Requests : gen'[r] = "suspended" =>
                                 gen[r] = "suspended" /\ r \notin taken
      BY <3>1
    <3>3. QED BY <3>1, <3>2 DEF NoLeakedContinuation, GenInHand, Held, Waiting
  <2>17. CASE UNCHANGED vars
    BY <2>17, <2>s DEF vars
  <2>18. QED
    BY <2>1, <2>2, <2>3, <2>4, <2>5, <2>6, <2>7, <2>8, <2>9, <2>10, <2>11,
       <2>12, <2>13, <2>14, <2>15, <2>16, <2>17 DEF Next, IOThread, Tick
<1>3. Continuations => NoLeakedContinuation
  BY DEF Continuations
<1>4. QED
  BY <1>1, <1>2, <1>3, TypedInvariant, RequestsInOnePlace, PTL DEF Spec

\* On every path of tick() and drain() a task is handed on, with its
\* continuation, or ended for good.
THEOREM NothingMislaid == Spec => []TasksKept
<1>1. Places /\ NoLeakedContinuation => TasksKept
  BY DEF Places, TasksKept
<1>2. QED
  BY <1>1, RequestsInOnePlace, ContinuationsClosed, PTL

-----------------------------------------------------------------------------
\* Every accepted request is answered at most once, and goes without an answer
\* only when it was cancelled, late, or abandoned by drain().
THEOREM NoSilentLoss == Spec => []AnsweredOrExcused
<1> USE RequestsAssumption, LimitsAssumption
<1>1. Init => AnsweredOrExcused
  BY DEF Init, AnsweredOrExcused
<1>2. Typed /\ CurWhileBusy /\ Places /\ AnsweredOrExcused /\ [Next]_vars
        => AnsweredOrExcused'
  <2> SUFFICES ASSUME Typed, CurWhileBusy, Places, AnsweredOrExcused, [Next]_vars
               PROVE  AnsweredOrExcused'
    OBVIOUS
  <2> USE DEF shared, thread, caller, Stale
  <2>t. /\ cur \in Requests \cup {NoRequest}
        /\ phase \in [Requests -> Service!Phases] /\ replies \in [Requests -> Nat]
    BY DEF Typed
  <2>p. ASSUME cur # NoRequest
        PROVE /\ cur \in Requests
              /\ phase[cur] = (IF pc = "replied" THEN "answered" ELSE "accepted")
              /\ replies[cur] = (IF pc = "replied" THEN 1 ELSE 0)
    BY <2>p, <2>t DEF Places, OnePlace, AnsweredAtReplied, Held, AnsweredOrExcused
  <2>s. ASSUME UNCHANGED <<phase, replies>>, cancelled \subseteq cancelled',
               expired \subseteq expired'
        PROVE AnsweredOrExcused'
    BY <2>s DEF AnsweredOrExcused
  <2>m. ASSUME NEW r \in Requests, NEW p \in {"rejected", "accepted"},
               phase[r] = "new", phase' = [phase EXCEPT ![r] = p],
               UNCHANGED <<cancelled, expired, replies>>
        PROVE AnsweredOrExcused'
    BY <2>m, <2>t DEF AnsweredOrExcused
  <2>e. ASSUME EndWithoutReply, Stale(cur), cur # NoRequest, pc # "replied"
        PROVE AnsweredOrExcused'
    <3>1. phase' = [phase EXCEPT ![cur] = "dropped"]
          /\ UNCHANGED <<cancelled, expired, replies>>
      BY <2>e DEF EndWithoutReply
    <3>2. QED BY <3>1, <2>e, <2>p, <2>t DEF AnsweredOrExcused
  <2>1. ASSUME NEW r \in Requests, Submit(r) PROVE AnsweredOrExcused'
    <3>1. CASE Full(r)
      BY <2>1, <3>1, <2>m DEF Submit
    <3>2. CASE ~Full(r)
      BY <2>1, <3>2, <2>m DEF Submit
    <3>3. QED BY <3>1, <3>2
  <2>2. ASSUME NEW r \in Requests, Cancel(r) \/ Expire(r) PROVE AnsweredOrExcused'
    BY <2>2, <2>s DEF Cancel, Expire
  <2>3. CASE SpendBudget \/ TickStart \/ TickReturn \/ Pop
    BY <2>3, <2>s DEF SpendBudget, TickStart, TickReturn, Pop
  <2>4. CASE DropStale \/ DropBeforeStep
    BY <2>4, <2>e DEF DropStale, DropBeforeStep, CurWhileBusy
  <2>5. CASE RunHandler \/ TakeContinuation \/ YieldBudget \/ Step
    BY <2>5, <2>s DEF RunHandler, TakeContinuation, YieldBudget, Step
  <2>6. CASE AfterYield
    BY <2>6, <2>e, <2>s DEF AfterYield, CurWhileBusy
  <2>7. CASE CheckFrame
    BY <2>7, <2>e, <2>s DEF CheckFrame, CurWhileBusy
  <2>8. CASE Reply
    <3>1. /\ pc = "replying" /\ phase' = [phase EXCEPT ![cur] = "answered"]
          /\ replies' = [replies EXCEPT ![cur] = replies[cur] + 1]
          /\ UNCHANGED <<cancelled, expired>>
      BY <2>8 DEF Reply
    <3>2. QED BY <3>1, <2>p, <2>t DEF AnsweredOrExcused, CurWhileBusy
  <2>9. CASE FinishReply
    <3>1. /\ pc = "replied" /\ phase' = [phase EXCEPT ![cur] = "done"]
          /\ UNCHANGED <<cancelled, expired, replies>>
      BY <2>9 DEF FinishReply
    <3>2. QED BY <3>1, <2>p, <2>t DEF AnsweredOrExcused, CurWhileBusy
  <2>10. CASE DrainTake
    <3>1. /\ pc = "idle" /\ UNCHANGED <<cancelled, expired, replies>>
          /\ phase' = [r \in Requests |-> IF r \in Waiting THEN "drained" ELSE phase[r]]
      BY <2>10 DEF DrainTake
    <3>2. \A r \in Requests : r \in Waiting => phase[r] = "accepted"
      BY <3>1 DEF Places, OnePlace, AnsweredAtReplied, Held
    <3>3. QED BY <3>1, <3>2 DEF AnsweredOrExcused
  <2>11. CASE DrainClose
    BY <2>11, <2>s DEF DrainClose
  <2>12. CASE UNCHANGED vars
    BY <2>12, <2>s DEF vars
  <2>13. QED
    BY <2>1, <2>2, <2>3, <2>4, <2>5, <2>6, <2>7, <2>8, <2>9, <2>10, <2>11,
       <2>12 DEF Next, IOThread, Tick
<1>3. QED
  BY <1>1, <1>2, TypedInvariant, RequestsInOnePlace, PTL DEF Spec
-----------------------------------------------------------------------------
\* TaskQueue implements RequestService: to its callers the queue is a service
\* that refuses only at a limit, answers at most once and loses nothing
\* without an excuse.
THEOREM QueueImplementsService == Spec => ImplementsService
<1> USE RequestsAssumption, LimitsAssumption
<1>1. Init => Service!SInit
  BY DEF Init, Service!SInit
<1>2. Typed /\ CurWhileBusy /\ Places /\ Counters /\ [Next]_vars
        => [Service!SNext]_(Service!svars)
  <2> SUFFICES ASSUME Typed, CurWhileBusy, Places, Counters, [Next]_vars
               PROVE  [Service!SNext]_(Service!svars)
    OBVIOUS
  <2> USE DEF shared, thread, caller
  <2>t. /\ cur \in Requests \cup {NoRequest} /\ Waiting \subseteq Requests
        /\ phase \in [Requests -> Service!Phases]
        /\ Len(tasks) \in Nat /\ active \in Int
    BY DEF Typed, Waiting, Range
  <2>h. Service!Holding = Held
    BY <2>t DEF Service!Holding, Places, OnePlace, Held
  <2>p. cur # NoRequest =>
          /\ cur \in Requests
          /\ phase[cur] = (IF pc = "replied" THEN "answered" ELSE "accepted")
    BY <2>t DEF Places, OnePlace, AnsweredAtReplied, Held
  <2>s. ASSUME UNCHANGED caller PROVE [Service!SNext]_(Service!svars)
    BY <2>s DEF Service!svars
  <2>e. ASSUME EndWithoutReply, Stale(cur), cur # NoRequest, pc # "replied"
        PROVE Service!SNext
    <3>1. phase[cur] = "accepted" /\ cur \in Requests
      BY <2>e, <2>p
    <3>2. Service!Drop(cur)
      BY <2>e, <3>1 DEF Service!Drop, EndWithoutReply, Stale
    <3>3. QED BY <3>1, <3>2 DEF Service!SNext
  <2>1. ASSUME NEW r \in Requests, Submit(r) PROVE Service!SNext
    <3>1. Service!AtLimit(r) <=> Full(r)
      <4>0. ASSUME NEW S PROVE Service!Cardinality(S) = Cardinality(S)
        BY DEF Service!Cardinality, Cardinality
      <4>1. Cardinality(Service!Holding) = Len(tasks) + active
        BY <2>h DEF Counters, OneSlotEach
      <4>2. Cardinality(Service!Holding \cap Summaries) = summaries
        BY <2>h DEF Counters, SlotsExact
      <4>3. QED BY <4>0, <4>1, <4>2 DEF Service!AtLimit, Full
    <3>2. CASE Full(r)
      <4>1. Service!Admit(r)
        BY <2>1, <3>1, <3>2 DEF Submit, Service!Admit
      <4>2. QED BY <4>1 DEF Service!SNext
    <3>3. CASE ~Full(r)
      <4>1. Service!Admit(r)
        BY <2>1, <3>1, <3>3 DEF Submit, Service!Admit
      <4>2. QED BY <4>1 DEF Service!SNext
    <3>4. QED BY <3>2, <3>3
  <2>2. ASSUME NEW r \in Requests, Cancel(r) \/ Expire(r) PROVE Service!SNext
    BY <2>2 DEF Cancel, Expire, Service!SNext, Service!Excuse
  <2>3. CASE SpendBudget \/ TickStart \/ TickReturn \/ Pop
    BY <2>3, <2>s DEF SpendBudget, TickStart, TickReturn, Pop
  <2>4. CASE DropStale \/ DropBeforeStep
    BY <2>4, <2>e DEF DropStale, DropBeforeStep, CurWhileBusy
  <2>5. CASE RunHandler \/ TakeContinuation \/ YieldBudget \/ Step
    BY <2>5, <2>s DEF RunHandler, TakeContinuation, YieldBudget, Step
  <2>6. CASE AfterYield
    BY <2>6, <2>e, <2>s DEF AfterYield, CurWhileBusy, Stale
  <2>7. CASE CheckFrame
    BY <2>7, <2>e, <2>s DEF CheckFrame, CurWhileBusy
  <2>8. CASE Reply
    <3>1. cur \in Requests /\ phase[cur] = "accepted"
      BY <2>8, <2>p DEF Reply, CurWhileBusy
    <3>2. Service!Answer(cur)
      BY <2>8, <3>1 DEF Reply, Service!Answer
    <3>3. QED BY <3>1, <3>2 DEF Service!SNext
  <2>9. CASE FinishReply
    <3>1. cur \in Requests /\ phase[cur] = "answered"
      BY <2>9, <2>p DEF FinishReply, CurWhileBusy
    <3>2. Service!Release(cur)
      BY <2>9, <3>1 DEF FinishReply, Service!Release
    <3>3. QED BY <3>1, <3>2 DEF Service!SNext
  <2>10. CASE DrainTake
    <3>1. pc = "idle" /\ UNCHANGED <<cancelled, expired, replies>>
          /\ phase' = [r \in Requests |-> IF r \in Waiting THEN "drained" ELSE phase[r]]
      BY <2>10 DEF DrainTake
    <3>2. \A r \in Requests : r \in Waiting <=> phase[r] = "accepted"
      BY <3>1 DEF Places, OnePlace, AnsweredAtReplied, Held, CurWhileBusy
    <3>3. Service!Abandon
      BY <3>1, <3>2 DEF Service!Abandon
    <3>4. QED BY <3>3 DEF Service!SNext
  <2>11. CASE DrainClose
    BY <2>11, <2>s DEF DrainClose
  <2>12. CASE UNCHANGED vars
    BY <2>12, <2>s DEF vars
  <2>13. QED
    BY <2>1, <2>2, <2>3, <2>4, <2>5, <2>6, <2>7, <2>8, <2>9, <2>10, <2>11,
       <2>12 DEF Next, IOThread, Tick
<1>3. QED
  BY <1>1, <1>2, TypedInvariant, RequestsInOnePlace, CountersInvariant, PTL
     DEF Spec, ImplementsService, Service!SSpec

-----------------------------------------------------------------------------
\* A queue keeps its order when its head is taken, it is emptied, or a task that does
\* not wait in it goes to its end.
Turns(s, t, c) ==
  \A i, j \in 1..Len(s), k, l \in 1..Len(t) :
    /\ t[k] = s[i] /\ t[l] = s[j] /\ i < j => k < l
    /\ t[k] = c /\ t[l] = s[i] => l < k

LEMMA OrderKept ==
  ASSUME NEW S, NEW s \in Seq(S), NEW t \in Seq(S), NEW c, NEW x \in S,
         \A i, j \in 1..Len(s) : s[i] = s[j] => i = j,
         c \notin Range(s),
         \/ t = s \/ t = <<>> \/ (s # <<>> /\ t = Tail(s))
         \/ t = Append(s, x) /\ x \notin Range(s)
  PROVE  Turns(s, t, c)
<1>1. Len(s) \in Nat /\ \A i \in 1..Len(s) : s[i] \in Range(s)
  BY DEF Range
<1>2. CASE t = s
  BY <1>1, <1>2 DEF Turns
<1>3. CASE t = <<>>
  BY <1>3 DEF Turns
<1>4. CASE s # <<>> /\ t = Tail(s)
  <2>1. Len(t) = Len(s) - 1 /\ \A k \in 1..Len(t) : t[k] = s[k + 1]
    BY <1>4
  <2>2. QED BY <1>1, <2>1 DEF Turns
<1>5. CASE t = Append(s, x) /\ x \notin Range(s)
  <2>1. Len(t) = Len(s) + 1 /\ t[Len(t)] = x /\ \A k \in 1..Len(s) : t[k] = s[k]
    BY <1>5
  <2>2. QED BY <1>1, <1>5, <2>1 DEF Turns
<1>6. QED BY <1>2, <1>3, <1>4, <1>5

\* Of two tasks that stay in the queue neither overtakes the other, and a task that comes
\* back from its turn queues behind all that wait (tick() pops on the left, appends on the right).
THEOREM TurnsInOrder == Spec => RoundRobin
<1> USE RequestsAssumption, LimitsAssumption
<1>1. Typed /\ Typed' /\ CurWhileBusy /\ Places /\ [Next]_vars => Turns(tasks, tasks', cur)
  <2> SUFFICES ASSUME Typed, Typed', CurWhileBusy, Places, [Next]_vars
               PROVE  Turns(tasks, tasks', cur)
    OBVIOUS
  <2>1. /\ tasks \in Seq(Requests) /\ tasks' \in Seq(Requests)
        /\ \A i, j \in 1..Len(tasks) : tasks[i] = tasks[j] => i = j
        /\ cur \notin Range(tasks)
        /\ \A r \in Range(tasks) : phase[r] \in {"accepted", "answered"}
    <3>1. Range(tasks) \subseteq Requests
      BY DEF Typed, Range
    <3>2. QED BY <3>1 DEF Typed, Places, OnePlace, Held, Waiting
  <2>2. \/ tasks' = tasks \/ tasks' = <<>> \/ (tasks # <<>> /\ tasks' = Tail(tasks))
        \/ \E x \in Requests : tasks' = Append(tasks, x) /\ x \notin Range(tasks)
    <3>1. ASSUME NEW r \in Requests, Submit(r)
          PROVE  tasks' = tasks \/ (tasks' = Append(tasks, r) /\ r \notin Range(tasks))
      BY <3>1, <2>1 DEF Submit, shared
    <3>2. ASSUME Requeue, pc \in {"stepping", "yielded"}
          PROVE  cur \in Requests /\ tasks' = Append(tasks, cur)
      BY <3>2 DEF Requeue, CurWhileBusy, Typed
    <3>3. CASE IOThread
      BY <3>1, <3>3 DEF IOThread, Cancel, shared
    <3>4. CASE YieldBudget
      BY <3>2, <3>4, <2>1 DEF YieldBudget
    <3>5. CASE AfterYield
      BY <3>2, <3>5, <2>1 DEF AfterYield, EndWithoutReply, CompleteActive
    <3>6. CASE UNCHANGED tasks
      BY <3>6
    <3>7. CASE Pop \/ DrainTake
      BY <3>7 DEF Pop, DrainTake
    <3>8. QED
      BY <3>3, <3>4, <3>5, <3>6, <3>7
         DEF Next, Tick, vars, shared, Expire, SpendBudget, TickStart, TickReturn, DropStale,
             RunHandler, TakeContinuation, DropBeforeStep, Step, CheckFrame, Reply,
             FinishReply, DrainClose, EndWithoutReply, CompleteActive
  <2>3. QED
    <3>1. CASE \E x \in Requests : tasks' = Append(tasks, x) /\ x \notin Range(tasks)
      BY <2>1, <3>1, OrderKept
    <3>2. CASE tasks' = tasks \/ tasks' = <<>> \/ (tasks # <<>> /\ tasks' = Tail(tasks))
      <4>1. CASE Requests = {}
        <5>1. tasks = <<>> /\ tasks' = <<>>
          BY <2>1, <4>1
        <5>2. QED BY <5>1 DEF Turns
      <4>2. CASE Requests # {}
        BY <2>1, <3>2, <4>2, OrderKept
      <4>3. QED BY <4>1, <4>2
    <3>3. QED BY <2>2, <3>1, <3>2
<1>2. Typed /\ Typed' /\ CurWhileBusy /\ Places /\ [Next]_vars =>
        [\A i, j \in 1..Len(tasks), k, l \in 1..Len(tasks') :
           /\ tasks'[k] = tasks[i] /\ tasks'[l] = tasks[j] /\ i < j => k < l
           /\ tasks'[k] = cur /\ tasks'[l] = tasks[i] => l < k]_vars
  BY <1>1 DEF Turns
<1>3. QED
  BY <1>2, TypedInvariant, RequestsInOnePlace, PTL DEF Spec, RoundRobin
=============================================================================
