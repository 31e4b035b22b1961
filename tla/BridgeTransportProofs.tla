------------------------ MODULE BridgeTransportProofs ------------------------
(***************************************************************************)
(* Proofs about BridgeTransport, for any number of connections, descriptors *)
(* and faults, and any limits.                                              *)
(*                                                                          *)
(* The argument: an entry of the table whose socket is closed is the one    *)
(* stop() is about to remove, so that a descriptor given out again never    *)
(* hides a connection; a connection that leaves the table has an empty      *)
(* outbox, so that the sum over the table bounds all of them; a request is  *)
(* pending, queued for its peer or on the wire, and in one of these only;   *)
(* and the pipe holds a byte whenever a wake is under way.                  *)
(***************************************************************************)
EXTENDS BridgeTransport, FiniteSetTheorems, SequenceTheorems, TLAPS

(* The inductive invariant. *)

IoTypes == [pc : IoPcs, conn : Conns \cup {None}, back : {"drops", "flush", "read"},
            snap : SUBSET Conns, want : SUBSET Conns, r : SUBSET Conns,
            w : SUBSET Conns, acc : BOOLEAN, head : 0..MaxRequests]
MainTypes == [pc : MainPcs, reply : Requests \cup {<<None, 0>>}, todo : SUBSET (Fds \X Conns),
              entry : (Fds \X Conns) \cup {<<0, None>>}, failed : BOOLEAN]

\* The local variables are those of the step a thread is at.
LocalsSound ==
    /\ main \in MainTypes
    /\ io.pc \in {"mark", "close", "insert", "sending", "sent", "busy", "busyWake"} => io.conn \in Conns
    /\ io.pc \in {"sending", "sent", "busy"} => io.head # 0
    /\ main.pc \in {"reply", "wake"} => main.reply \in Requests
    /\ main.pc \in {"closeOne", "popOne"} => main.entry \in Fds \X Conns
    /\ main.pc \notin {"run", "reply", "wake"} \/ ~listening \/ ~piped \/ io.pc = "exited" => stopped
    /\ wakePending = pipe

\* A connection that has been in the table, or was closed instead of being put there.
Settled(c) == c \in accepted /\ c \notin pendingClose /\ ~(io.pc = "insert" /\ io.conn = c)

\* An entry that stop() took a copy of.
Copied(f, c) == Settled(c) /\ fd[c] \in {f, None}

TableSound ==
    /\ SocketsTracked
    /\ \A c, d \in Conns : Open(c) /\ fd[c] = fd[d] => c = d
    /\ \A c \in Conns : Open(c) => c \in accepted
    /\ \A f \in Fds : conns[f] # None => Settled(conns[f])
    /\ pendingClose \subseteq accepted
    /\ io.pc = "insert" => io.conn \in accepted /\ io.conn \notin pendingClose /\ Open(io.conn)
    /\ \A f \in Fds, c \in Conns : <<f, c>> \in main.todo => Copied(f, c)
    /\ main.pc \in {"closeOne", "popOne"} => Copied(main.entry[1], main.entry[2])
    /\ main.pc = "popOne" => ~Open(main.entry[2])
    /\ \A f \in Fds : conns[f] # None /\ ~Open(conns[f]) =>
          main.pc = "popOne" /\ main.entry = <<f, conns[f]>>

\* The connections the I/O thread works on, and those whose requests are worked on.
WorkSound ==
    /\ \A c \in io.snap \cup io.want \cup io.r \cup io.w : Settled(c)
    /\ io.pc \in {"mark", "close", "sending", "sent", "busy", "busyWake"} => Settled(io.conn)
    /\ \A q \in queue : Settled(q[1]) /\ q[2] \in 1..received[q[1]]
    /\ \A c \in Conns : received[c] # 0 => Settled(c)
    /\ io.pc = "close" => io.conn \in cancelled
    /\ complete => main.pc = "run"
    /\ main.pc \in {"drain", "verdict"} /\ ~main.failed => io.pc = "exited"
    /\ main.pc = "verdict" /\ ~main.failed => queue = {}

\* What is bounded: the table, and the outboxes of what is in it.
Emptied(c) == c \in closing /\ outbox[c] = <<>>
LimitsSound ==
    /\ Cardinality({f \in Fds : conns[f] # None}) <= MaxConns
    /\ \A c \in Conns : bytes[c] = Len(outbox[c]) /\ bytes[c] <= MaxOutbox
    /\ Total(bytes, Current) <= MaxTotal
    /\ \A c \in Conns : outbox[c] # <<>> => c \in Current
    /\ io.pc = "close" => Emptied(io.conn)
    /\ main.pc \in {"closeOne", "popOne"} => Emptied(main.entry[2])

\* What is on a wire w, what is in the outbox o and how far its head is sent, of a connection that may
\* be dead, of which the frame `head' is being sent (0: none), was sent whole, or whose requests are
\* 1..n: the frame whose first half is the last thing on the wire is the head of the outbox, and no
\* request is at once on the wire and in the outbox, the one being sent excepted.
Whole(w) ==
    /\ \A i \in 1..Len(w) : w[i][2] = (IF i % 2 = 1 THEN 1 ELSE 2)
    /\ \A i \in 1..Len(w) : i % 2 = 0 => w[i][1] = w[i - 1][1]
    /\ \A i, j \in 1..Len(w) : w[i] = w[j] => i = j
Cut(w, o, off, dead, sent) ==
    /\ Len(w) % 2 = 1 => (dead /\ o = <<>>) \/ (off = 1 /\ o # <<>> /\ o[1] = w[Len(w)][1])
    /\ off = 1 => Len(w) % 2 = 1 \/ sent
InHand(w, o, sent, head) ==
    /\ head # 0 => o # <<>> /\ o[1] = head
    /\ sent => Len(w) % 2 = 0 /\ w # <<>> /\ w[Len(w)][1] = head /\ head # 0
Apart(w, o, sent) ==
    /\ \A i, j \in 1..Len(o) : o[i] = o[j] => i = j
    /\ \A i \in 1..Len(o), j \in 1..Len(w) : o[i] = w[j][1] =>
         i = 1 /\ IF sent THEN j >= Len(w) - 1 ELSE Len(w) % 2 = 1 /\ j = Len(w)
Asked(w, o, n) ==
    /\ \A i \in 1..Len(o) : o[i] <= n
    /\ \A j \in 1..Len(w) : w[j][1] <= n
Frames(w, o, off, dead, sent, head, n) ==
    Whole(w) /\ Cut(w, o, off, dead, sent) /\ InHand(w, o, sent, head) /\ Apart(w, o, sent) /\ Asked(w, o, n)

Sent(c) == io.pc = "sent" /\ io.conn = c
InHandOf(c) == IF io.pc \in {"sending", "sent"} /\ io.conn = c THEN io.head ELSE 0
WireSound(c) ==
    Frames(wire[c], outbox[c], offset[c], c \in closing, Sent(c), InHandOf(c), received[c])

\* A request that has no answer yet: its frame is neither queued nor sent.
Absent(w, o, n) ==
    /\ \A i \in 1..Len(o) : o[i] # n
    /\ \A j \in 1..Len(w) : w[j][1] # n
Unanswered(c, n) == Absent(wire[c], outbox[c], n)
PendingSound ==
    /\ \A q \in queue : q # main.reply \/ main.pc # "wake" => Unanswered(q[1], q[2])
    /\ main.pc \in {"reply", "wake"} => main.reply \in queue
    /\ io.pc = "busy" => /\ Unanswered(io.conn, io.head) /\ <<io.conn, io.head>> \notin queue
                         /\ io.head <= received[io.conn]
FramesSound == ~stopped => PendingSound /\ \A c \in Conns : WireSound(c)

\* From the look at `stopped' to the end of select() the byte of stop() stays in the pipe.
Looking == {"retry", "drops", "select"}
WakeSound ==
    /\ Handover
    /\ stopped /\ piped /\ main.pc # "stopWake" /\ ~pipe =>
         io.pc \notin Looking /\ ~(io.pc \in {"mark", "close"} /\ io.back = "drops")

-------------------------------------------------------------------------------
(* Sums over connections. *)

LEMMA UnitsFinite ==
  ASSUME NEW n \in [Conns -> Nat], NEW m \in Nat, \A c \in Conns : n[c] <= m, NEW cs \in SUBSET Conns
  PROVE  /\ IsFiniteSet(Units(n, cs)) /\ Total(n, cs) \in Nat
         /\ \A c \in cs : n[c] <= Total(n, cs)
<1>1. IsFiniteSet(Conns \X (1..m))
  <2>1. 1 \in Int /\ m \in Int
    OBVIOUS
  <2>2. IsFiniteSet(1..m)
    BY ONLY <2>1, FS_Interval
  <2>3. IsFiniteSet(Conns)
    BY ConstantsAssumption DEF ConstantsAssumption
  <2>4. QED BY ONLY <2>2, <2>3, FS_Product
<1>2. Units(n, cs) \in SUBSET (Conns \X (1..m))
  BY DEF Units
<1>3. IsFiniteSet(Units(n, cs)) /\ Total(n, cs) \in Nat
  BY <1>1, <1>2, FS_Subset, FS_CardinalityType DEF Total
<1>4. ASSUME NEW c \in cs PROVE n[c] <= Total(n, cs)
  <2> DEFINE T == {c} \X (1..n[c])
  <2>1. n[c] \in Nat /\ IsFiniteSet({c}) /\ Cardinality({c}) = 1
    BY FS_Singleton
  <2> DEFINE I == 1..n[c]
  <2>2. IsFiniteSet(I) /\ Cardinality(I) = n[c]
    <3>1. 1 \in Int /\ n[c] \in Int
      BY <2>1
    <3>2. IsFiniteSet(I) /\ Cardinality(I) = IF 1 > n[c] THEN 0 ELSE n[c] - 1 + 1
      BY ONLY <3>1, FS_Interval
    <3>3. QED BY <2>1, <3>2
  <2>3. Cardinality(T) = n[c]
    <3> HIDE DEF I
    <3>1. Cardinality({c} \X I) = Cardinality({c}) * Cardinality(I)
      BY ONLY <2>1, <2>2, FS_Product
    <3>2. QED BY <2>1, <2>2, <3>1 DEF I
  <2>4. T \in SUBSET Units(n, cs)
    BY DEF Units
  <2>5. Cardinality(T) <= Cardinality(Units(n, cs))
    BY <1>3, <2>4, FS_Subset
  <2>6. QED BY <2>1, <2>3, <2>5 DEF Total
<1>5. QED BY <1>3, <1>4

\* A sum that has fewer units is no larger, and one unit more makes it larger by one.
LEMMA TotalLess ==
  ASSUME NEW n \in [Conns -> Nat], NEW k \in [Conns -> Nat], NEW m \in Nat, \A c \in Conns : n[c] <= m,
         NEW cs \in SUBSET Conns, NEW ds \in SUBSET Conns, \A c \in ds : k[c] = 0 \/ (c \in cs /\ k[c] <= n[c])
  PROVE  Total(k, ds) <= Total(n, cs)
<1>1. IsFiniteSet(Units(n, cs))
  BY UnitsFinite
<1>2. Units(k, ds) \in SUBSET Units(n, cs)
  BY DEF Units
<1>3. QED BY <1>1, <1>2, FS_Subset DEF Total

LEMMA TotalGrows ==
  ASSUME NEW n \in [Conns -> Nat], NEW m \in Nat, \A c \in Conns : n[c] <= m,
         NEW cs \in SUBSET Conns, NEW c \in cs
  PROVE  Total([n EXCEPT ![c] = @ + 1], cs) = Total(n, cs) + 1
<1> DEFINE k == [n EXCEPT ![c] = @ + 1]
<1>1. IsFiniteSet(Units(n, cs))
  BY UnitsFinite
<1>2. k[c] = n[c] + 1 /\ n[c] \in Nat /\ \A d \in cs \ {c} : k[d] = n[d]
  OBVIOUS
<1>3. Units(k, cs) = Units(n, cs) \cup {<<c, n[c] + 1>>}
  <2>1. {c} \X (1..k[c]) = ({c} \X (1..n[c])) \cup {<<c, n[c] + 1>>}
    BY <1>2
  <2>2. QED BY <1>2, <2>1 DEF Units
<1>4. <<c, n[c] + 1>> \notin Units(n, cs)
  BY <1>2 DEF Units
<1>5. QED BY <1>1, <1>3, <1>4, FS_AddElement, FS_CardinalityType DEF Total

-------------------------------------------------------------------------------
(* The types. *)

LEMMA Constants ==
  /\ Fds \subseteq Nat /\ IsFiniteSet(Conns) /\ IsFiniteSet(Fds) /\ None \notin Conns /\ None \notin Fds
  /\ MaxConns \in Nat /\ MaxOutbox \in Nat /\ MaxTotal \in Nat /\ MaxRequests \in Nat
  /\ MaxFaults \in Nat /\ Capacity \in Nat
BY ConstantsAssumption DEF ConstantsAssumption

\* The table and the sockets; the outboxes; the flags; the requests; the two threads.
TableTyped ==
    /\ conns \in [Fds -> Conns \cup {None}] /\ fd \in [Conns -> Fds \cup {None}]
    /\ accepted \subseteq Conns /\ closing \subseteq Conns /\ cancelled \subseteq Conns
    /\ pendingClose \subseteq Conns
OutTyped ==
    /\ outbox \in [Conns -> Seq(1..MaxRequests)] /\ bytes \in [Conns -> Nat]
    /\ offset \in [Conns -> 0..1] /\ wire \in [Conns -> Seq((1..MaxRequests) \X (1..2))]
FlagsTyped ==
    /\ pipe \in BOOLEAN /\ wakePending \in BOOLEAN /\ stopped \in BOOLEAN /\ timer \in BOOLEAN
    /\ listening \in BOOLEAN
    /\ piped \in BOOLEAN /\ complete \in BOOLEAN /\ faults \in 0..MaxFaults
WorkTyped == queue \subseteq Requests /\ received \in [Conns -> 0..MaxRequests]
Typed == TableTyped /\ OutTyped /\ FlagsTyped /\ WorkTyped /\ io \in IoTypes /\ main \in MainTypes

\* The inductive invariant.
TransportInv ==
    /\ Typed /\ LocalsSound /\ TableSound /\ WorkSound /\ LimitsSound /\ FramesSound
    /\ WakeSound /\ CompleteMeansDown

LEMMA TypedIsTyped == Typed => TypeOK
BY DEF Typed, TypeOK, TableTyped, OutTyped, FlagsTyped, WorkTyped, IoTypes, MainTypes

\* Which steps change what: the I/O thread's variables, the main thread's,
LEMMA WhoMovesIo == Next => IoThread \/ UNCHANGED io
BY DEF Next, Stopping, Done, vars, MainServe, MainSend, MainWake, StopBegin, StopBy, StopWake, StopJoin, StopMark, StopClose, StopPop, StopRetry, StopListener, StopJoinAgain, StopDrain, StopVerdict
LEMMA WhoMovesMain == Next => MainServe \/ MainSend \/ MainWake \/ StopBegin \/ Stopping \/ UNCHANGED main
BY DEF Next, IoThread, Done, vars, IoLoop, IoRetry, IoDropClosing, IoMark, IoClose, IoRegister, IoSelect, IoDrainWake, IoCheckStopped, IoAccept, IoInsert, IoFlush, IoSend, IoPop, IoRead, IoBusy, IoBusyWake, IoAbort

\* A peer that may send another request has not sent all that is modelled.
LEMMA RoomForRequests ==
  ASSUME received \in [Conns -> 0..MaxRequests], Total(received, Conns) < MaxRequests, NEW c \in Conns
  PROVE  received[c] + 1 \in 1..MaxRequests
<1>1. MaxRequests \in Nat /\ received \in [Conns -> Nat] /\ \A d \in Conns : received[d] <= MaxRequests
  BY Constants
<1>2. Total(received, Conns) \in Nat /\ received[c] <= Total(received, Conns)
  BY <1>1, UnitsFinite
<1>3. QED BY <1>1, <1>2

\* Between two steps a thread remembers nothing.
LEMMA AtTyped ==
  /\ \A p \in IoPcs : IoAt(p) \in IoTypes
  /\ \A p \in MainPcs : MainAt(p) \in MainTypes
  BY Constants DEF IoAt, MainAt, IoTypes, MainTypes

LEMMA IoTyped ==
  ASSUME Typed, LocalsSound, Next
  PROVE  io' \in IoTypes
<1>1. io \in IoTypes /\ TableTyped /\ OutTyped /\ WorkTyped /\ MaxRequests \in Nat
  BY Constants DEF Typed
<1> USE DEF IoTypes, IoPcs, IoAt, IoGo, IoDrop, TableTyped, OutTyped, WorkTyped, Current
<1>2. CASE IoLoop
  BY <1>1, <1>2 DEF IoLoop
<1>3. CASE IoRetry
  BY <1>1, <1>3 DEF IoRetry
<1>4. CASE IoDropClosing
  <2>1. PICK c \in io.r : io' = [io EXCEPT !.r = @ \ {c}, !.pc = "mark", !.conn = c, !.back = "drops"]
    BY <1>4 DEF IoDropClosing
  <2>2. c \in Conns /\ io.r \ {c} \in SUBSET Conns
    BY <1>1
  <2>3. QED BY <1>1, <2>1, <2>2
<1>5. CASE IoMark
  BY <1>1, <1>5 DEF IoMark
<1>6. CASE IoClose
  BY <1>1, <1>6 DEF IoClose
<1>7. CASE IoRegister
  <2>1. Current \ closing \in SUBSET Conns /\ {c \in Current \ closing : outbox[c] # <<>>} \in SUBSET Conns
    BY <1>1
  <2> HIDE DEF Current
  <2>2. QED BY <1>1, <1>7, <2>1 DEF IoRegister
<1>8. CASE IoSelect
  <2>1. PICK r \in SUBSET io.snap, w \in SUBSET io.want, a \in BOOLEAN :
          io' = [io EXCEPT !.pc = IF pipe THEN "woken" ELSE "accept", !.r = r, !.w = w, !.acc = a]
    BY <1>8 DEF IoSelect
  <2>2. r \in SUBSET Conns /\ w \in SUBSET Conns
    BY <1>1
  <2>3. QED BY <1>1, <2>1, <2>2
<1>9. CASE IoDrainWake
  BY <1>1, <1>9 DEF IoDrainWake
<1>10. CASE IoCheckStopped
  <2>1. CASE stopped
    <3>1. io' = IoAt("exited")
      BY <1>10, <2>1 DEF IoCheckStopped
    <3>2. QED BY <3>1, AtTyped
  <2>2. CASE ~stopped
    BY ZenonT(60), <1>1, <1>10, <2>2 DEF IoCheckStopped
  <2>3. QED BY <2>1, <2>2
<1>11. CASE IoAccept
  <2>1. CASE \E c \in Conns : io' = [io EXCEPT !.pc = "insert", !.conn = c]
    BY ZenonT(60), <1>1, <2>1
  <2>2. CASE io' = [io EXCEPT !.pc = "flush"]
    BY <1>1, <2>2
  <2>3. QED BY <1>11, <2>1, <2>2 DEF IoAccept
<1>12. CASE IoInsert
  BY <1>1, <1>12 DEF IoInsert
<1>13. CASE IoFlush
  <2>1. CASE io.w = {}
    <3>1. io' = [IoAt("read") EXCEPT !.r = io.r]
      BY <1>13, <2>1 DEF IoFlush
    <3> HIDE DEF IoAt, IoTypes
    <3>2. PICK x \in IoTypes : io' = [x EXCEPT !.r = io.r]
      BY <3>1, AtTyped
    <3>3. QED BY <1>1, <3>2 DEF IoTypes
  <2>2. CASE io.w # {}
    <3>1. PICK c \in io.w : io' = IF outbox[c] = <<>> THEN [io EXCEPT !.w = @ \ {c}]
                                  ELSE [io EXCEPT !.pc = "sending", !.conn = c, !.head = Head(outbox[c])]
      BY <1>13, <2>2 DEF IoFlush
    <3>2. c \in Conns /\ io.w \ {c} \in SUBSET Conns
      BY <1>1
    <3>3. outbox[c] # <<>> => Head(outbox[c]) \in 0..MaxRequests
      BY <1>1, <3>2, HeadTailProperties
    <3>4. CASE outbox[c] = <<>>
      BY <1>1, <3>1, <3>2, <3>4
    <3>5. CASE outbox[c] # <<>>
      BY <1>1, <3>1, <3>2, <3>3, <3>5
    <3>6. QED BY <3>4, <3>5
  <2>3. QED BY <2>1, <2>2
<1>14. CASE IoSend
  <2>1. io.w \ {io.conn} \in SUBSET Conns /\ io.conn \in Conns
    BY <1>1, <1>14 DEF IoSend, LocalsSound
  <2>2. CASE io' = [io EXCEPT !.pc = "sent"]
    BY <1>1, <2>2
  <2>3. CASE io' = FlushDone
    BY <1>1, <2>1, <2>3 DEF FlushDone
  <2>4. CASE io' = [io EXCEPT !.pc = "mark", !.conn = io.conn, !.back = "flush"]
    BY <1>1, <2>1, <2>4
  <2>5. QED BY <1>14, <2>2, <2>3, <2>4 DEF IoSend
<1>15. CASE IoPop
  <2>1. io.w \ {io.conn} \in SUBSET Conns
    BY <1>1
  <2>2. io' = [io EXCEPT !.pc = "flush"] \/ io' = [io EXCEPT !.pc = "flush", !.w = @ \ {io.conn}]
    BY <1>15 DEF IoPop, FlushDone
  <2>3. CASE io' = [io EXCEPT !.pc = "flush"]
    BY <1>1, <2>3
  <2>4. CASE io' = [io EXCEPT !.pc = "flush", !.w = @ \ {io.conn}]
    BY <1>1, <2>1, <2>4
  <2>5. QED BY <2>2, <2>3, <2>4
<1>16. CASE IoRead
  <2>1. CASE io' = IoAt("loop")
    BY <1>1, <2>1
  <2>2. CASE \E c \in io.r :
               \/ io' = ReadDone(c)
               \/ io' = [ReadDone(c) EXCEPT !.pc = "mark", !.conn = c, !.back = "read"]
               \/ /\ Total(received, Conns) < MaxRequests
                  /\ io' = [ReadDone(c) EXCEPT !.pc = "busy", !.conn = c, !.head = received[c] + 1]
    <3>1. PICK c \in io.r : \/ io' = ReadDone(c)
                            \/ io' = [ReadDone(c) EXCEPT !.pc = "mark", !.conn = c, !.back = "read"]
                            \/ /\ Total(received, Conns) < MaxRequests
                               /\ io' = [ReadDone(c) EXCEPT !.pc = "busy", !.conn = c, !.head = received[c] + 1]
      BY <2>2
    <3>2. c \in Conns /\ io.r \ {c} \in SUBSET Conns
      BY <1>1
    <3>3. Total(received, Conns) < MaxRequests => received[c] + 1 \in 0..MaxRequests
      BY <1>1, <3>2, RoomForRequests
    <3>4. PICK x \in IoTypes : x = ReadDone(c)
      BY <1>1, <3>2 DEF ReadDone
    <3>5. CASE io' = x
      BY <3>5
    <3>6. CASE io' = [x EXCEPT !.pc = "mark", !.conn = c, !.back = "read"]
      BY <3>2, <3>6
    <3>7. CASE Total(received, Conns) < MaxRequests /\ io' = [x EXCEPT !.pc = "busy", !.conn = c, !.head = received[c] + 1]
      BY <3>2, <3>3, <3>7
    <3>8. QED BY <3>1, <3>4, <3>5, <3>6, <3>7
  <2>3. QED BY <1>16, <2>1, <2>2 DEF IoRead
<1>17. CASE IoBusy
  <2>1. io' = [io EXCEPT !.pc = "busyWake"] \/ io' = [io EXCEPT !.pc = "read"]
    BY <1>17 DEF IoBusy
  <2>2. QED BY ZenonT(60), <1>1, <2>1
<1>18. CASE IoBusyWake
  BY <1>1, <1>18 DEF IoBusyWake
<1>19. CASE IoAbort
  BY <1>1, <1>19 DEF IoAbort
<1>20. QED
  BY <1>2, <1>3, <1>4, <1>5, <1>6, <1>7, <1>8, <1>9, <1>10, <1>11, <1>12, <1>13, <1>14, <1>15, <1>16, <1>17, <1>18, <1>19, <1>1, WhoMovesIo DEF IoThread

LEMMA MainTyped ==
  ASSUME Typed, LocalsSound, Next
  PROVE  main' \in MainTypes
<1>1. main \in MainTypes /\ TableTyped /\ OutTyped /\ WorkTyped /\ MaxRequests \in Nat
  BY Constants DEF Typed
<1> USE DEF MainTypes, MainPcs, MainAt, MainGo, TableTyped, OutTyped, WorkTyped, Requests
<1>2. CASE MainServe
  BY ZenonT(60), <1>1, <1>2 DEF MainServe
<1>3. CASE MainSend
  <2>1. CASE main' = [main EXCEPT !.pc = "wake"]
    BY <1>1, <2>1
  <2>2. CASE main' = MainAt("run")
    BY <2>2, AtTyped
  <2>3. QED BY <1>3, <2>1, <2>2 DEF MainSend
<1>4. CASE MainWake
  BY <1>1, <1>4 DEF MainWake
<1>5. CASE StopBegin
  BY <1>1, <1>5 DEF StopBegin, StopBy
<1>6. CASE StopWake
  BY <1>1, <1>6 DEF StopWake
<1>7. CASE StopJoin
  <2> DEFINE T == {<<f, conns[f]>> : f \in {g \in Fds : conns[g] # None}}
  <2>1. T \in SUBSET (Fds \X Conns)
    BY <1>1
  <2>2. main' = [main EXCEPT !.pc = "closeAll", !.todo = T]
    BY <1>7 DEF StopJoin
  <2> HIDE DEF T
  <2>3. QED BY <1>1, <2>1, <2>2
<1>8. CASE StopMark
  <2>1. PICK e \in main.todo : main' = [main EXCEPT !.pc = "closeOne", !.todo = @ \ {e}, !.entry = e]
    BY <1>8 DEF StopMark
  <2>2. e \in Fds \X Conns /\ main.todo \ {e} \in SUBSET (Fds \X Conns)
    BY <1>1
  <2>3. QED BY <1>1, <2>1, <2>2
<1>9. CASE StopClose
  BY ZenonT(60), <1>1, <1>9 DEF StopClose
<1>10. CASE StopPop
  BY <1>1, <1>10 DEF StopPop
<1>11. CASE StopRetry
  BY <1>1, <1>11 DEF StopRetry
<1>12. CASE StopListener
  BY ZenonT(60), <1>1, <1>12 DEF StopListener
<1>13. CASE StopJoinAgain
  BY ZenonT(60), <1>1, <1>13 DEF StopJoinAgain
<1>14. CASE StopDrain
  BY <1>1, <1>14 DEF StopDrain
<1>15. CASE StopVerdict
  BY <1>1, <1>15 DEF StopVerdict
<1>16. QED
  BY <1>2, <1>3, <1>4, <1>5, <1>6, <1>7, <1>8, <1>9, <1>10, <1>11, <1>12, <1>13, <1>14, <1>15, <1>1, WhoMovesMain DEF Stopping

\* Which steps touch the table, the outboxes and the requests.
LEMMA WhoMovesTable ==
  Next => \/ UNCHANGED <<conns, fd, accepted, pendingClose>>
          \/ IoRetry \/ IoClose \/ IoAccept \/ IoInsert \/ StopClose \/ StopPop \/ StopRetry
BY DEF Next, IoThread, Stopping, Done, vars, table, IoLoop, IoDropClosing, IoMark, IoRegister, IoSelect,
       IoDrainWake, IoCheckStopped, IoFlush, IoSend, IoPop, IoRead, IoBusy, IoBusyWake, IoAbort,
       MainServe, MainSend, MainWake, StopBegin, StopBy, StopWake, StopJoin, StopMark, StopListener,
       StopJoinAgain, StopDrain, StopVerdict

LEMMA WhoMovesMarks ==
  Next => \/ UNCHANGED <<closing, cancelled, outbox, bytes>>
          \/ IoMark \/ IoPop \/ IoBusy \/ MainSend \/ StopMark
BY DEF Next, IoThread, Stopping, Done, vars, table, out, IoLoop, IoRetry, IoDropClosing, IoClose, IoRegister,
       IoSelect, IoDrainWake, IoCheckStopped, IoAccept, IoInsert, IoFlush, IoSend, IoRead, IoBusyWake, IoAbort,
       MainServe, MainWake, StopBegin, StopBy, StopWake, StopJoin, StopClose, StopPop, StopRetry, StopListener,
       StopJoinAgain, StopDrain, StopVerdict

LEMMA WhoMovesWire ==
  Next => UNCHANGED <<offset, wire>> \/ IoMark \/ IoSend \/ IoPop \/ StopMark
BY DEF Next, IoThread, Stopping, Done, vars, out, IoLoop, IoRetry, IoDropClosing, IoClose, IoRegister,
       IoSelect, IoDrainWake, IoCheckStopped, IoAccept, IoInsert, IoFlush, IoRead, IoBusy, IoBusyWake, IoAbort,
       MainServe, MainSend, MainWake, StopBegin, StopBy, StopWake, StopJoin, StopClose, StopPop, StopRetry, StopListener,
       StopJoinAgain, StopDrain, StopVerdict

LEMMA WhoMovesWork ==
  Next => \/ UNCHANGED <<queue, received>>
          \/ IoRead \/ MainServe \/ MainSend \/ MainWake \/ StopDrain
BY DEF Next, IoThread, Stopping, Done, vars, work, IoLoop, IoRetry, IoDropClosing, IoMark, IoClose, IoRegister,
       IoSelect, IoDrainWake, IoCheckStopped, IoAccept, IoInsert, IoFlush, IoSend, IoPop, IoBusy, IoBusyWake, IoAbort,
       StopBegin, StopBy, StopWake, StopJoin, StopMark, StopClose, StopPop, StopRetry, StopListener, StopJoinAgain, StopVerdict

LEMMA WhoMovesFlags ==
  Next => \/ UNCHANGED <<pipe, wakePending, stopped, timer, listening, piped, complete>>
          \/ IoDrainWake \/ IoBusyWake \/ IoAbort \/ MainWake \/ StopBegin \/ StopWake \/ StopListener \/ StopVerdict
BY DEF Next, IoThread, Stopping, Done, vars, wake, ends, IoLoop, IoRetry, IoDropClosing, IoMark, IoClose, IoRegister,
       IoSelect, IoCheckStopped, IoAccept, IoInsert, IoFlush, IoSend, IoPop, IoRead, IoBusy, MainServe, MainSend,
       StopJoin, StopMark, StopClose, StopPop, StopRetry, StopJoinAgain, StopDrain

LEMMA WhoMovesFaults ==
  Next => \/ UNCHANGED faults
          \/ IoRetry \/ IoClose \/ IoInsert \/ IoAbort \/ StopClose \/ StopRetry \/ StopListener \/ StopJoinAgain
BY DEF Next, IoThread, Stopping, Done, vars, IoLoop, IoDropClosing, IoMark, IoRegister,
       IoSelect, IoDrainWake, IoCheckStopped, IoAccept, IoFlush, IoSend, IoPop, IoRead, IoBusy, IoBusyWake,
       MainServe, MainSend, MainWake, StopBegin, StopBy, StopWake, StopJoin, StopMark, StopPop, StopDrain, StopVerdict

\* A frame is queued, or its connection is marked.
LEMMA Enqueued ==
  ASSUME TableTyped, OutTyped, NEW c \in Conns, NEW n \in 1..MaxRequests, Enqueue(c, n)
  PROVE  /\ outbox' \in [Conns -> Seq(1..MaxRequests)] /\ bytes' \in [Conns -> Nat]
         /\ \/ closing' = closing \cup {c} /\ outbox' = outbox /\ bytes' = bytes
            \/ /\ closing' = closing /\ ~OverLimit(c)
               /\ outbox' = [outbox EXCEPT ![c] = Append(outbox[c], n)]
               /\ bytes' = [bytes EXCEPT ![c] = bytes[c] + 1]
<1>1. outbox \in [Conns -> Seq(1..MaxRequests)] /\ bytes \in [Conns -> Nat] /\ bytes[c] + 1 \in Nat
  BY DEF OutTyped
<1>2. CASE closing' = closing \cup {c} /\ outbox' = outbox /\ bytes' = bytes
  BY <1>1, <1>2
<1>3. CASE ~OverLimit(c)
  <2> DEFINE o == Append(outbox[c], n)
  <2>1. o \in Seq(1..MaxRequests) /\ outbox' = [outbox EXCEPT ![c] = o]
        /\ bytes' = [bytes EXCEPT ![c] = bytes[c] + 1] /\ closing' = closing
    BY <1>1, <1>3 DEF Enqueue
  <2>2. outbox' \in [Conns -> Seq(1..MaxRequests)] /\ bytes' \in [Conns -> Nat]
    <3> HIDE DEF o
    <3>1. QED BY <1>1, <2>1
  <2>3. QED BY <1>3, <2>1, <2>2
<1>4. QED BY <1>2, <1>3 DEF Enqueue

LEMMA TableStaysTyped ==
  ASSUME Typed, LocalsSound, Next
  PROVE  TableTyped'
<1>1. TableTyped /\ OutTyped /\ io \in IoTypes /\ main \in MainTypes /\ WorkTyped
  BY DEF Typed
<1>2. closing' \subseteq Conns /\ cancelled' \subseteq Conns
  <2> USE DEF TableTyped
  <2>1. CASE IoMark
    BY <1>1, <2>1 DEF IoMark, Mark, LocalsSound
  <2>2. CASE IoPop
    BY <1>1, <2>2 DEF IoPop, table
  <2>3. CASE IoBusy
    BY <1>1, <2>3 DEF IoBusy, LocalsSound, Enqueue
  <2>4. CASE MainSend
    BY <1>1, <2>4 DEF MainSend, LocalsSound, Enqueue, Requests
  <2>5. CASE StopMark
    BY <1>1, <2>5 DEF StopMark, Mark, MainTypes
  <2>6. QED BY <1>1, <2>1, <2>2, <2>3, <2>4, <2>5, WhoMovesMarks
<1>3. /\ conns' \in [Fds -> Conns \cup {None}] /\ fd' \in [Conns -> Fds \cup {None}]
      /\ accepted' \subseteq Conns /\ pendingClose' \subseteq Conns
  <2> USE DEF TableTyped
  <2>1. CASE IoRetry
    BY <1>1, <2>1 DEF IoRetry, RetryPendingCloses
  <2>2. CASE IoClose
    BY <1>1, <2>2 DEF IoClose
  <2>3. CASE IoAccept
    BY <1>1, <2>3 DEF IoAccept, FreeFds
  <2>4. CASE IoInsert
    BY <1>1, <2>4 DEF IoInsert, LocalsSound
  <2>5. CASE StopClose
    BY <1>1, <2>5 DEF StopClose
  <2>6. CASE StopPop
    BY <1>1, <2>6 DEF StopPop
  <2>7. CASE StopRetry
    BY <1>1, <2>7 DEF StopRetry, RetryPendingCloses
  <2>8. QED BY <1>1, <2>1, <2>2, <2>3, <2>4, <2>5, <2>6, <2>7, WhoMovesTable
<1>4. QED BY <1>2, <1>3 DEF TableTyped

LEMMA OutStaysTyped ==
  ASSUME Typed, LocalsSound, LimitsSound, Next
  PROVE  OutTyped'
<1>1. TableTyped /\ OutTyped /\ io \in IoTypes /\ main \in MainTypes /\ WorkTyped /\ MaxRequests \in Nat
  BY Constants DEF Typed
<1>2. outbox' \in [Conns -> Seq(1..MaxRequests)] /\ bytes' \in [Conns -> Nat]
  <2> USE DEF OutTyped
  <2>1. CASE IoMark
    BY <1>1, <2>1 DEF IoMark, Mark, LocalsSound
  <2>2. CASE IoPop
    <3>1. CASE UNCHANGED <<outbox, bytes>>
      BY <1>1, <3>1
    <3>2. CASE ~UNCHANGED <<outbox, bytes>>
      <4> DEFINE c == io.conn
      <4>1. c \in Conns /\ outbox[c] # <<>> /\ outbox' = [outbox EXCEPT ![c] = Tail(@)] /\ bytes' = [bytes EXCEPT ![c] = @ - 1]
        BY <2>2, <3>2 DEF IoPop, LocalsSound
      <4>2. bytes[c] - 1 \in Nat /\ Tail(outbox[c]) \in Seq(1..MaxRequests)
        <5>1. outbox[c] \in Seq(1..MaxRequests) /\ bytes[c] = Len(outbox[c])
          BY <1>1, <4>1 DEF LimitsSound
        <5>2. Len(outbox[c]) \in Nat \ {0} /\ Tail(outbox[c]) \in Seq(1..MaxRequests)
          BY <4>1, <5>1, EmptySeq, HeadTailProperties
        <5>3. QED BY <5>1, <5>2
      <4>3. QED BY <1>1, <4>1, <4>2
    <3>3. QED BY <3>1, <3>2
  <2>3. CASE IoBusy
    <3>1. io.conn \in Conns /\ io.head \in 1..MaxRequests
      BY <1>1, <2>3 DEF IoBusy, LocalsSound, IoTypes
    <3>2. CASE Enqueue(io.conn, io.head)
      BY <1>1, <3>1, <3>2, Enqueued
    <3>3. QED BY <1>1, <2>3, <3>2 DEF IoBusy
  <2>4. CASE MainSend
    <3>1. main.reply[1] \in Conns /\ main.reply[2] \in 1..MaxRequests
      BY <2>4 DEF MainSend, LocalsSound, Requests
    <3>2. CASE Enqueue(main.reply[1], main.reply[2])
      BY <1>1, <3>1, <3>2, Enqueued
    <3>3. QED BY <1>1, <2>4, <3>2 DEF MainSend
  <2>5. CASE StopMark
    BY <1>1, <2>5 DEF StopMark, Mark, MainTypes
  <2>6. QED BY <1>1, <2>1, <2>2, <2>3, <2>4, <2>5, WhoMovesMarks
<1>3. offset' \in [Conns -> 0..1]
  <2>1. offset \in [Conns -> 0..1] /\ 0 \in 0..1
    BY <1>1 DEF OutTyped
  <2>2. CASE IoMark
    <3>1. offset' = [offset EXCEPT ![io.conn] = 0]
      BY <2>2 DEF IoMark, Mark
    <3>2. QED BY <2>1, <3>1
  <2>3. CASE StopMark
    <3>1. \E e \in main.todo : offset' = [offset EXCEPT ![e[2]] = 0]
      BY <2>3 DEF StopMark, Mark
    <3>2. QED BY <2>1, <3>1
  <2>4. CASE IoSend \/ IoPop
    <3>1. offset' = offset \/ offset' = [offset EXCEPT ![io.conn] = 0] \/ offset' = [offset EXCEPT ![io.conn] = 1]
      BY <2>4 DEF IoSend, IoPop
    <3>2. QED BY <2>1, <3>1
  <2>5. QED BY <2>1, <2>2, <2>3, <2>4, WhoMovesWire
<1>4. wire' \in [Conns -> Seq((1..MaxRequests) \X (1..2))]
  <2> USE DEF OutTyped
  <2>1. CASE IoSend /\ ~UNCHANGED wire
    <3> DEFINE c == io.conn
               rest == [i \in 1..(2 - offset[c]) |-> <<io.head, offset[c] + i>>]
    <3>1. c \in Conns /\ io.head \in 1..MaxRequests /\ offset[c] \in 0..1
      BY <1>1, <2>1 DEF IoSend, LocalsSound, IoTypes
    <3>2. rest \in Seq((1..MaxRequests) \X (1..2))
      <4>1. 2 - offset[c] \in Nat /\ \A i \in 1..(2 - offset[c]) : <<io.head, offset[c] + i>> \in (1..MaxRequests) \X (1..2)
        BY <3>1
      <4>2. QED BY <4>1
    <3>3. wire[c] \o rest \in Seq((1..MaxRequests) \X (1..2)) /\ Append(wire[c], <<io.head, 1>>) \in Seq((1..MaxRequests) \X (1..2))
      <4>1. wire[c] \in Seq((1..MaxRequests) \X (1..2)) /\ <<io.head, 1>> \in (1..MaxRequests) \X (1..2)
        BY <1>1, <3>1
      <4> HIDE DEF rest
      <4>2. QED BY <3>2, <4>1, ConcatProperties
    <3>4. wire' = [wire EXCEPT ![c] = wire[c] \o rest] \/ wire' = [wire EXCEPT ![c] = Append(wire[c], <<io.head, 1>>)]
      BY <2>1 DEF IoSend
    <3> HIDE DEF rest
    <3>5. QED BY <1>1, <3>3, <3>4
  <2>2. CASE UNCHANGED wire
    BY <1>1, <2>2
  <2>3. QED BY <2>1, <2>2, WhoMovesWire DEF IoMark, IoPop, StopMark
<1>5. QED BY <1>2, <1>3, <1>4 DEF OutTyped

LEMMA RestStaysTyped ==
  ASSUME Typed, LocalsSound, Next
  PROVE  FlagsTyped' /\ WorkTyped'
<1>1. TableTyped /\ FlagsTyped /\ WorkTyped /\ io \in IoTypes /\ main \in MainTypes /\ MaxFaults \in Nat
  BY Constants DEF Typed
<1>2. faults' \in 0..MaxFaults
  BY <1>1, WhoMovesFaults DEF FlagsTyped, IoRetry, RetryPendingCloses, IoClose, IoInsert, IoAbort, StopClose,
     StopRetry, StopListener, StopJoinAgain
<1>3. {pipe', wakePending', stopped', timer', listening', piped', complete'} \subseteq BOOLEAN
  <2> USE DEF FlagsTyped, Wake, wake, ends
  <2>1. CASE IoDrainWake
    BY <1>1, <2>1 DEF IoDrainWake
  <2>2. CASE IoBusyWake
    BY <1>1, <2>2 DEF IoBusyWake
  <2>3. CASE IoAbort
    BY <1>1, <2>3 DEF IoAbort
  <2>4. CASE MainWake
    BY <1>1, <2>4 DEF MainWake
  <2>5. CASE StopBegin
    BY <1>1, <2>5 DEF StopBegin, StopBy
  <2>6. CASE StopWake
    BY <1>1, <2>6 DEF StopWake
  <2>7. CASE StopListener
    BY <1>1, <2>7 DEF StopListener
  <2>8. CASE StopVerdict
    BY <1>1, <2>8 DEF StopVerdict
  <2>9. QED BY <1>1, <2>1, <2>2, <2>3, <2>4, <2>5, <2>6, <2>7, <2>8, WhoMovesFlags
<1>4. WorkTyped'
  <2>1. CASE \E c \in io.r :
               /\ Total(received, Conns) < MaxRequests /\ received' = [received EXCEPT ![c] = @ + 1]
               /\ queue' \subseteq queue \cup {<<c, received[c] + 1>>}
    <3>1. PICK c \in io.r :
             /\ Total(received, Conns) < MaxRequests /\ received' = [received EXCEPT ![c] = @ + 1]
             /\ queue' \subseteq queue \cup {<<c, received[c] + 1>>}
      BY <2>1
    <3>2. c \in Conns /\ received[c] + 1 \in 1..MaxRequests
      BY <1>1, <3>1, RoomForRequests DEF WorkTyped, IoTypes
    <3>3. QED BY <1>1, <3>1, <3>2 DEF WorkTyped, Requests
  <2>2. CASE queue' \subseteq queue /\ UNCHANGED received
    BY <1>1, <2>2 DEF WorkTyped
  <2>3. CASE IoRead
    BY <2>1, <2>2, <2>3 DEF IoRead, work
  <2>4. CASE MainServe \/ MainSend \/ MainWake \/ StopDrain
    BY <2>2, <2>4 DEF MainServe, MainSend, MainWake, StopDrain
  <2>5. QED BY <2>2, <2>3, <2>4, WhoMovesWork
<1>5. QED BY <1>2, <1>3, <1>4 DEF FlagsTyped

LEMMA TypedStep ==
  ASSUME Typed, LocalsSound, LimitsSound, Next
  PROVE  Typed'
<1>1. io' \in IoTypes /\ main' \in MainTypes
  BY IoTyped, MainTyped
<1>2. TableTyped' /\ OutTyped' /\ FlagsTyped' /\ WorkTyped'
  BY TableStaysTyped, OutStaysTyped, RestStaysTyped
<1>3. QED BY <1>1, <1>2 DEF Typed, IoTypes, MainTypes, Requests

\* From where to where a step of the I/O thread goes.
LEMMA IoGoes ==
  ASSUME Typed
  PROVE  /\ IoLoop => io.pc = "loop" /\ io'.pc \in {"exited", "retry"}
         /\ IoRetry => io.pc = "retry" /\ io'.pc \in {"drops"}
         /\ IoDropClosing => io.pc = "drops" /\ io'.pc \in {"mark"}
         /\ IoMark => io.pc = "mark" /\ io'.pc \in {"close"}
         /\ IoClose => io.pc = "close" /\ io'.pc \in {io.back}
         /\ IoRegister => io.pc = "drops" /\ io'.pc \in {"select"}
         /\ IoSelect => io.pc = "select" /\ io'.pc \in {"woken", "accept"}
         /\ IoDrainWake => io.pc = "woken" /\ io'.pc \in {"drained"}
         /\ IoCheckStopped => io.pc = "drained" /\ io'.pc \in {"exited", "accept"}
         /\ IoAccept => io.pc = "accept" /\ io'.pc \in {"insert", "flush"}
         /\ IoInsert => io.pc = "insert" /\ io'.pc \in {"flush"}
         /\ IoFlush => io.pc = "flush" /\ io'.pc \in {"read", "flush", "sending"}
         /\ IoSend => io.pc = "sending" /\ io'.pc \in {"sent", "flush", "mark"}
         /\ IoPop => io.pc = "sent" /\ io'.pc \in {"flush"}
         /\ IoRead => io.pc = "read" /\ io'.pc \in {"loop", "read", "mark", "busy"}
         /\ IoBusy => io.pc = "busy" /\ io'.pc \in {"busyWake", "read"}
         /\ IoBusyWake => io.pc = "busyWake" /\ io'.pc \in {"read"}
         /\ IoAbort => io.pc \in {"drops", "woken", "select"} /\ io'.pc \in {"exited"}
<1>1. io \in IoTypes
  BY DEF Typed
<1> USE DEF IoTypes, IoAt, IoGo, IoDrop
<1>2. IoLoop => io.pc = "loop" /\ io'.pc \in {"exited", "retry"}
  BY <1>1 DEF IoLoop
<1>3. IoRetry => io.pc = "retry" /\ io'.pc \in {"drops"}
  BY <1>1 DEF IoRetry
<1>4. IoDropClosing => io.pc = "drops" /\ io'.pc \in {"mark"}
  BY <1>1 DEF IoDropClosing
<1>5. IoMark => io.pc = "mark" /\ io'.pc \in {"close"}
  BY <1>1 DEF IoMark
<1>6. IoClose => io.pc = "close" /\ io'.pc \in {io.back}
  BY <1>1 DEF IoClose
<1>7. IoRegister => io.pc = "drops" /\ io'.pc \in {"select"}
  BY <1>1 DEF IoRegister
<1>8. IoSelect => io.pc = "select" /\ io'.pc \in {"woken", "accept"}
  BY <1>1 DEF IoSelect
<1>9. IoDrainWake => io.pc = "woken" /\ io'.pc \in {"drained"}
  BY <1>1 DEF IoDrainWake
<1>10. IoCheckStopped => io.pc = "drained" /\ io'.pc \in {"exited", "accept"}
  BY <1>1 DEF IoCheckStopped
<1>11. IoAccept => io.pc = "accept" /\ io'.pc \in {"insert", "flush"}
  BY <1>1 DEF IoAccept
<1>12. IoInsert => io.pc = "insert" /\ io'.pc \in {"flush"}
  BY <1>1 DEF IoInsert
<1>13. IoFlush => io.pc = "flush" /\ io'.pc \in {"read", "flush", "sending"}
  BY <1>1 DEF IoFlush
<1>14. IoSend => io.pc = "sending" /\ io'.pc \in {"sent", "flush", "mark"}
  BY <1>1 DEF IoSend, FlushDone
<1>15. IoPop => io.pc = "sent" /\ io'.pc \in {"flush"}
  BY <1>1 DEF IoPop, FlushDone
<1>16. IoRead => io.pc = "read" /\ io'.pc \in {"loop", "read", "mark", "busy"}
  <2> SUFFICES ASSUME IoRead PROVE io.pc = "read" /\ io'.pc \in {"loop", "read", "mark", "busy"}
    OBVIOUS
  <2>1. io.pc = "read"
    BY DEF IoRead
  <2>2. CASE io' = IoAt("loop")
    BY <2>1, <2>2
  <2>3. ASSUME NEW c \in io.r, NEW n, \/ io' = ReadDone(c)
                                    \/ io' = [ReadDone(c) EXCEPT !.pc = "mark", !.conn = c, !.back = "read"]
                                    \/ io' = [ReadDone(c) EXCEPT !.pc = "busy", !.conn = c, !.head = n]
        PROVE  io'.pc \in {"read", "mark", "busy"}
    <3>1. ReadDone(c) = [io EXCEPT !.r = io.r \ {c}]
      BY DEF ReadDone
    <3>2. "pc" \in DOMAIN io /\ "pc" \in DOMAIN ReadDone(c) /\ ReadDone(c).pc = "read"
      BY <1>1, <2>1, <3>1
    <3>3. QED BY <2>3, <3>2
  <2>4. QED BY <2>1, <2>2, <2>3 DEF IoRead
<1>17. IoBusy => io.pc = "busy" /\ io'.pc \in {"busyWake", "read"}
  BY <1>1 DEF IoBusy
<1>18. IoBusyWake => io.pc = "busyWake" /\ io'.pc \in {"read"}
  BY <1>1 DEF IoBusyWake
<1>19. IoAbort => io.pc \in {"drops", "woken", "select"} /\ io'.pc \in {"exited"}
  BY <1>1 DEF IoAbort
<1>20. QED BY <1>2, <1>3, <1>4, <1>5, <1>6, <1>7, <1>8, <1>9, <1>10, <1>11, <1>12, <1>13, <1>14, <1>15, <1>16, <1>17, <1>18, <1>19

-------------------------------------------------------------------------------
(* The local variables. *)

IoLocals ==
    /\ io.pc \in {"mark", "close", "insert", "sending", "sent", "busy", "busyWake"} => io.conn \in Conns
    /\ io.pc \in {"sending", "sent", "busy"} => io.head # 0
MainLocals ==
    /\ main.pc \in {"reply", "wake"} => main.reply \in Requests
    /\ main.pc \in {"closeOne", "popOne"} => main.entry \in Fds \X Conns

LEMMA IoLocalsStep ==
  ASSUME Typed, IoLocals, Next
  PROVE  IoLocals'
<1>1. io \in IoTypes /\ OutTyped /\ WorkTyped
  BY DEF Typed
<1> USE DEF IoLocals, IoAt, IoGo, IoDrop, IoTypes
<1>2. CASE IoLoop
  BY <1>1, <1>2 DEF IoLoop
<1>3. CASE IoRetry
  BY <1>1, <1>3 DEF IoRetry
<1>4. CASE IoDropClosing
  BY <1>1, <1>4 DEF IoDropClosing
<1>5. CASE IoMark
  BY <1>1, <1>5 DEF IoMark
<1>6. CASE IoClose
  BY <1>1, <1>6 DEF IoClose
<1>7. CASE IoRegister
  BY <1>1, <1>7 DEF IoRegister
<1>8. CASE IoSelect
  BY <1>1, <1>8 DEF IoSelect
<1>9. CASE IoDrainWake
  BY <1>1, <1>9 DEF IoDrainWake
<1>10. CASE IoCheckStopped
  BY <1>1, <1>10 DEF IoCheckStopped
<1>11. CASE IoAccept
  BY <1>1, <1>11 DEF IoAccept
<1>12. CASE IoInsert
  BY <1>1, <1>12 DEF IoInsert
<1>13. CASE IoFlush
  <2>1. CASE io.w = {}
    BY <1>13, <2>1 DEF IoFlush
  <2>2. ASSUME NEW c \in io.w, outbox[c] # <<>>,
               io' = [io EXCEPT !.pc = "sending", !.conn = c, !.head = Head(outbox[c])]
        PROVE  IoLocals'
    <3>1. c \in Conns /\ outbox[c] \in Seq(1..MaxRequests)
      BY <1>1 DEF OutTyped
    <3>2. Head(outbox[c]) \in 1..MaxRequests
      BY <2>2, <3>1, HeadTailProperties
    <3>3. QED BY <1>1, <2>2, <3>1, <3>2
  <2>3. ASSUME NEW c \in io.w, io' = [io EXCEPT !.w = @ \ {c}]
        PROVE  IoLocals'
    BY <1>1, <2>3
  <2>4. QED BY <1>13, <2>1, <2>2, <2>3 DEF IoFlush
<1>14. CASE IoSend
  <2>1. io.conn \in Conns /\ io.head # 0
    BY <1>14 DEF IoSend
  <2>2. CASE io' = [io EXCEPT !.pc = "sent"]
    BY <1>1, <2>1, <2>2
  <2>3. CASE io' = FlushDone
    BY <1>1, <2>3 DEF FlushDone
  <2>4. CASE io' = [io EXCEPT !.pc = "mark", !.conn = io.conn, !.back = "flush"]
    BY <1>1, <2>1, <2>4
  <2>5. QED BY <1>14, <2>2, <2>3, <2>4 DEF IoSend
<1>15. CASE IoPop
  <2>1. CASE io' = [io EXCEPT !.pc = "flush"]
    BY <1>1, <2>1
  <2>2. CASE io' = FlushDone
    BY <1>1, <2>2 DEF FlushDone
  <2>3. QED BY <1>15, <2>1, <2>2 DEF IoPop
<1>16. CASE IoRead
  <2>1. CASE io' = IoAt("loop")
    BY <2>1
  <2>2. ASSUME NEW c \in io.r, \/ io' = ReadDone(c)
                               \/ io' = [ReadDone(c) EXCEPT !.pc = "mark", !.conn = c, !.back = "read"]
        PROVE  IoLocals'
    <3>1. CASE io' = ReadDone(c)
      BY <1>1, <1>16, <3>1 DEF ReadDone, IoRead
    <3>2. CASE io' = [ReadDone(c) EXCEPT !.pc = "mark", !.conn = c, !.back = "read"]
      <4>1. io'.pc = "mark" /\ io'.conn = c /\ c \in Conns
        BY <1>1, <3>2 DEF ReadDone
      <4>2. QED BY <4>1
    <3>3. QED BY <2>2, <3>1, <3>2
  <2>3. ASSUME NEW c \in io.r, io' = [ReadDone(c) EXCEPT !.pc = "busy", !.conn = c, !.head = received[c] + 1]
        PROVE  IoLocals'
    <3>1. c \in Conns /\ received[c] \in Nat
      BY <1>1 DEF WorkTyped
    <3>2. QED BY <1>1, <2>3, <3>1 DEF ReadDone
  <2>4. QED BY <1>16, <2>1, <2>2, <2>3 DEF IoRead
<1>17. CASE IoBusy
  BY <1>1, <1>17 DEF IoBusy
<1>18. CASE IoBusyWake
  BY <1>1, <1>18 DEF IoBusyWake
<1>19. CASE IoAbort
  BY <1>1, <1>19 DEF IoAbort
<1>20. QED
  BY <1>2, <1>3, <1>4, <1>5, <1>6, <1>7, <1>8, <1>9, <1>10, <1>11, <1>12, <1>13, <1>14, <1>15, <1>16, <1>17, <1>18, <1>19, WhoMovesIo DEF IoThread

LEMMA MainLocalsStep ==
  ASSUME Typed, MainLocals, Next
  PROVE  MainLocals'
<1>1. main \in MainTypes /\ WorkTyped
  BY DEF Typed
<1> USE DEF MainLocals, MainAt, MainGo, MainTypes
<1>2. CASE MainServe
  <2>1. PICK r \in queue : main' = [main EXCEPT !.pc = "reply", !.reply = r] \/ main' = main
    BY <1>2 DEF MainServe
  <2>2. r \in Requests
    BY <1>1 DEF WorkTyped
  <2>3. QED BY <1>1, <2>1, <2>2
<1>3. CASE MainSend
  BY <1>1, <1>3 DEF MainSend
<1>4. CASE MainWake
  BY <1>1, <1>4 DEF MainWake
<1>5. CASE StopBegin
  BY <1>1, <1>5 DEF StopBegin, StopBy
<1>6. CASE StopWake
  BY <1>1, <1>6 DEF StopWake
<1>7. CASE StopJoin
  BY <1>1, <1>7 DEF StopJoin
<1>8. CASE StopMark
  BY <1>1, <1>8 DEF StopMark
<1>9. CASE StopClose
  BY <1>1, <1>9 DEF StopClose
<1>10. CASE StopPop
  BY <1>1, <1>10 DEF StopPop
<1>11. CASE StopRetry
  BY <1>1, <1>11 DEF StopRetry
<1>12. CASE StopListener
  BY <1>1, <1>12 DEF StopListener
<1>13. CASE StopJoinAgain
  BY <1>1, <1>13 DEF StopJoinAgain
<1>14. CASE StopDrain
  BY <1>1, <1>14 DEF StopDrain
<1>15. CASE StopVerdict
  BY <1>1, <1>15 DEF StopVerdict
<1>16. QED
  BY <1>2, <1>3, <1>4, <1>5, <1>6, <1>7, <1>8, <1>9, <1>10, <1>11, <1>12, <1>13, <1>14, <1>15, WhoMovesMain DEF Stopping

\* stop() or the end of the I/O thread: nothing is closed while the session runs.  The byte in the
\* pipe and the flag of the wake under way come and go together.
LEMMA FlagsStep ==
  ASSUME Typed, LocalsSound, Next
  PROVE  /\ main.pc \notin {"run", "reply", "wake"} \/ ~listening \/ ~piped \/ io.pc = "exited" => stopped
         /\ (main.pc \notin {"run", "reply", "wake"} \/ ~listening \/ ~piped \/ io.pc = "exited" => stopped)'
         /\ (stopped => stopped')
         /\ (wakePending = pipe)'
<1>1. main \in MainTypes /\ io \in IoTypes /\ FlagsTyped
  BY DEF Typed
<1>2. stopped => stopped'
  BY WhoMovesFlags DEF IoDrainWake, IoBusyWake, IoAbort, MainWake, StopBegin, StopBy, StopWake, StopListener, StopVerdict, ends
<1>3. (main.pc \notin {"run", "reply", "wake"})' => stopped'
  <2> USE DEF LocalsSound, MainTypes, MainAt, MainGo
  <2>1. CASE main.pc \notin {"run", "reply", "wake"}
    BY <1>2, <2>1
  <2>2. CASE MainServe
    BY <1>1, <2>2 DEF MainServe
  <2>3. CASE MainSend
    BY <1>1, <2>3 DEF MainSend
  <2>4. CASE MainWake
    BY <1>1, <2>4 DEF MainWake
  <2>5. CASE StopBegin
    BY <2>5 DEF StopBegin, StopBy
  <2>6. CASE UNCHANGED main
    BY <1>2, <2>6
  <2>7. QED
    BY <2>1, <2>2, <2>3, <2>4, <2>5, <2>6, WhoMovesMain
       DEF Stopping, StopWake, StopJoin, StopMark, StopClose, StopPop, StopRetry, StopListener,
           StopJoinAgain, StopDrain, StopVerdict
<1>4. (io.pc = "exited")' => stopped'
  <2> USE DEF LocalsSound, IoTypes, IoAt, IoGo
  <2>1. CASE IoLoop
    BY <2>1 DEF IoLoop, ends
  <2>2. CASE IoCheckStopped
    BY <1>1, <2>2 DEF IoCheckStopped, ends
  <2>3. CASE IoAbort
    BY <2>3 DEF IoAbort
  <2>4. CASE io'.pc = io.pc \/ io'.pc # "exited"
    BY <1>2, <2>4
  <2>5. QED BY <1>1, <2>1, <2>2, <2>3, <2>4, IoGoes, WhoMovesIo DEF IoThread
<1>5. (~listening \/ ~piped)' => stopped'
  BY <1>2, WhoMovesFlags DEF LocalsSound, IoDrainWake, IoBusyWake, IoAbort, MainWake, StopBegin, StopBy, StopWake,
     StopListener, StopVerdict, ends
<1>6. (wakePending = pipe)'
  <2>1. wakePending = pipe
    BY DEF LocalsSound
  <2>2. CASE UNCHANGED <<pipe, wakePending>>
    BY <2>1, <2>2
  <2>3. CASE Wake \/ IoDrainWake
    <3>1. CASE pipe' = TRUE /\ wakePending' = TRUE
      <4>1. pipe' = wakePending'
        BY <3>1, Zenon
      <4>2. QED BY <4>1
    <3>2. CASE pipe' = FALSE /\ wakePending' = FALSE
      <4>1. pipe' = wakePending'
        BY <3>2, Zenon
      <4>2. QED BY <4>1
    <3>3. QED BY <2>2, <2>3, <3>1, <3>2 DEF Wake, wake, IoDrainWake
  <2>4. QED
    BY <2>2, <2>3, WhoMovesFlags DEF IoBusyWake, IoAbort, MainWake, StopBegin, StopBy, StopWake, StopListener, StopVerdict, wake
<1>7. QED BY <1>2, <1>3, <1>4, <1>5, <1>6 DEF LocalsSound

LEMMA LocalsStep ==
  ASSUME Typed, LocalsSound, Next
  PROVE  LocalsSound'
<1>1. IoLocals /\ MainLocals
  BY DEF LocalsSound, IoLocals, MainLocals
<1>2. IoLocals' /\ MainLocals'
  BY <1>1, IoLocalsStep, MainLocalsStep
<1>3. (main \in MainTypes)'
  BY MainTyped DEF MainTypes, Requests
<1>4. QED BY <1>2, <1>3, FlagsStep DEF LocalsSound, IoLocals, MainLocals

-------------------------------------------------------------------------------
(* The table of connections. *)

\* Between accept() and the table a connection stays in the I/O thread's hands.
LEMMA HeldStays ==
  ASSUME Typed, Next, ~IoAccept, ~IoInsert
  PROVE  /\ io'.pc = "insert" <=> io.pc = "insert"
         /\ io.pc = "insert" => io'.conn = io.conn
<1>1. io.back # "insert"
  BY DEF Typed, IoTypes
<1>2. QED BY <1>1, IoGoes, WhoMovesIo DEF IoThread

\* The entries stop() still has to close are of the table, and it closes them one by one.
EntriesStay ==
    /\ \A f \in Fds, c \in Conns : <<f, c>> \in main'.todo => <<f, c>> \in main.todo \/ conns[f] = c
    /\ main'.pc = "closeOne" => main'.entry \in main.todo \/ (main.pc = "closeOne" /\ main'.entry = main.entry)
    /\ main'.pc = "popOne" <=> main.pc = "popOne"
    /\ main.pc = "popOne" => main'.entry = main.entry

LEMMA MainStays ==
  ASSUME Typed, Next, ~StopClose, ~StopPop
  PROVE  EntriesStay
<1>1. main \in MainTypes
  BY DEF Typed
<1> USE DEF MainTypes, MainAt, MainGo, EntriesStay
<1>2. CASE MainServe
  BY <1>1, <1>2 DEF MainServe
<1>3. CASE MainSend
  BY <1>1, <1>3 DEF MainSend
<1>4. CASE MainWake
  BY <1>1, <1>4 DEF MainWake
<1>5. CASE StopBegin
  BY <1>1, <1>5 DEF StopBegin, StopBy
<1>6. CASE StopWake
  BY <1>1, <1>6 DEF StopWake
<1>7. CASE StopJoin
  BY <1>1, <1>7 DEF StopJoin
<1>8. CASE StopMark
  BY <1>1, <1>8 DEF StopMark
<1>9. CASE StopRetry
  BY <1>1, <1>9 DEF StopRetry
<1>10. CASE StopListener
  BY <1>1, <1>10 DEF StopListener
<1>11. CASE StopJoinAgain
  BY <1>1, <1>11 DEF StopJoinAgain
<1>12. CASE StopDrain
  BY <1>1, <1>12 DEF StopDrain
<1>13. CASE StopVerdict
  BY <1>1, <1>13 DEF StopVerdict
<1>14. CASE UNCHANGED main
  BY <1>14
<1>15. QED
  BY <1>2, <1>3, <1>4, <1>5, <1>6, <1>7, <1>8, <1>9, <1>10, <1>11, <1>12, <1>13, <1>14, WhoMovesMain DEF Stopping

\* What has been in the table stays settled, and loses its descriptor at most.
LEMMA SettledStays ==
  ASSUME Typed, LocalsSound, TableSound, Next, NEW c \in Conns, Settled(c)
  PROVE  Settled(c)' /\ fd'[c] \in {fd[c], None}
<1>1. TableTyped /\ io \in IoTypes /\ c \in accepted /\ c \notin pendingClose /\ ~(io.pc = "insert" /\ io.conn = c)
  BY DEF Typed, Settled
<1>2. ASSUME io'.pc # "insert" \/ (io.pc = "insert" /\ io'.conn = io.conn)
      PROVE  ~(io.pc = "insert" /\ io.conn = c)'
  BY <1>1, <1>2
<1>3. io.back # "insert"
  BY <1>1 DEF IoTypes
<1>4. CASE UNCHANGED <<conns, fd, accepted, pendingClose>> /\ ~IoAccept /\ ~IoInsert
  BY <1>1, <1>2, <1>4, HeldStays DEF Settled
<1>5. CASE IoRetry
  BY <1>1, <1>2, <1>5, IoGoes DEF IoRetry, RetryPendingCloses, Settled
<1>6. CASE IoClose
  BY <1>1, <1>2, <1>3, <1>6, IoGoes DEF IoClose, Settled, TableTyped
<1>7. CASE IoAccept
  <2>1. CASE UNCHANGED <<accepted, fd>> /\ io' = [io EXCEPT !.pc = "flush"]
    BY <1>1, <1>7, <2>1 DEF IoAccept, Settled, IoTypes
  <2>2. ASSUME NEW d \in Conns \ accepted, NEW f \in Fds, accepted' = accepted \cup {d}, fd' = [fd EXCEPT ![d] = f],
               io' = [io EXCEPT !.pc = "insert", !.conn = d]
        PROVE  Settled(c)' /\ fd'[c] \in {fd[c], None}
    BY <1>1, <1>7, <2>2 DEF IoAccept, Settled, IoTypes, TableTyped
  <2>3. QED BY <1>7, <2>1, <2>2 DEF IoAccept, IoGo, FreeFds
<1>8. CASE IoInsert
  <2>1. io.conn \in Conns /\ io.pc = "insert" /\ io'.pc = "flush"
    BY <1>8, IoGoes DEF IoInsert, LocalsSound
  <2>2. QED BY <1>1, <1>8, <2>1 DEF IoInsert, Settled, TableTyped
<1>9. CASE StopClose
  BY <1>1, <1>9 DEF StopClose, Settled, TableTyped
<1>10. CASE StopPop
  BY <1>1, <1>10 DEF StopPop, Settled
<1>11. CASE StopRetry
  BY <1>1, <1>11 DEF StopRetry, RetryPendingCloses, Settled
<1>12. QED BY <1>4, <1>5, <1>6, <1>7, <1>8, <1>9, <1>10, <1>11, WhoMovesTable

LEMMA CopiedStays ==
  ASSUME Typed, LocalsSound, TableSound, Next, NEW f \in Fds, NEW c \in Conns, Copied(f, c)
  PROVE  Copied(f, c)'
<1>1. Settled(c)' /\ fd'[c] \in {fd[c], None} /\ fd[c] \in {f, None}
  BY SettledStays DEF Copied
<1>2. QED BY <1>1 DEF Copied

LEMMA EntriesCopied ==
  ASSUME Typed, TableSound, NEW f \in Fds, NEW c \in Conns, conns[f] = c
  PROVE  Copied(f, c)
BY Constants DEF TableSound, SocketsTracked, Copied

\* From where to where a step of the main thread goes.
LEMMA MainGoes ==
  ASSUME Typed
  PROVE  /\ MainServe => main.pc = "run" /\ main'.pc \in {"run", "reply"}
         /\ MainSend => main.pc = "reply" /\ main'.pc \in {"wake", "run"}
         /\ MainWake => main.pc = "wake" /\ main'.pc = "run"
         /\ StopBegin => main.pc = "run" /\ main'.pc = "stopWake"
         /\ StopWake => main.pc = "stopWake" /\ main'.pc = "join"
         /\ StopJoin => main.pc = "join" /\ main'.pc = "closeAll"
         /\ StopMark => main.pc = "closeAll" /\ main'.pc = "closeOne"
         /\ StopClose => main.pc = "closeOne" /\ main'.pc \in {"popOne", "closeAll"}
         /\ StopPop => main.pc = "popOne" /\ main'.pc = "closeAll"
         /\ StopRetry => main.pc = "closeAll" /\ main'.pc = "listener"
         /\ StopListener => main.pc = "listener" /\ main'.pc = "join2"
         /\ StopJoinAgain => main.pc = "join2" /\ main'.pc = "drain"
         /\ StopDrain => main.pc = "drain" /\ main'.pc = "verdict"
         /\ StopVerdict => main.pc = "verdict" /\ main'.pc = "run"
<1>1. main \in MainTypes
  BY DEF Typed
<1> USE DEF MainAt, MainGo, MainTypes
<1>2. MainServe => main.pc = "run" /\ main'.pc \in {"run", "reply"}
  <2>1. SUFFICES ASSUME MainServe PROVE main.pc = "run" /\ main'.pc \in {"run", "reply"}
    OBVIOUS
  <2>2. main.pc = "run" /\ \E r : main' = [main EXCEPT !.pc = "reply", !.reply = r] \/ main' = main
    BY <2>1 DEF MainServe
  <2>3. QED BY <1>1, <2>2
<1>3. MainSend => main.pc = "reply" /\ main'.pc \in {"wake", "run"}
  BY <1>1 DEF MainSend
<1>4. MainWake => main.pc = "wake" /\ main'.pc = "run"
  BY <1>1 DEF MainWake
<1>5. StopBegin => main.pc = "run" /\ main'.pc = "stopWake"
  BY <1>1 DEF StopBegin, StopBy
<1>6. StopWake => main.pc = "stopWake" /\ main'.pc = "join"
  BY <1>1 DEF StopWake
<1>7. StopJoin => main.pc = "join" /\ main'.pc = "closeAll"
  BY <1>1 DEF StopJoin
<1>8. StopMark => main.pc = "closeAll" /\ main'.pc = "closeOne"
  BY <1>1 DEF StopMark
<1>9. StopClose => main.pc = "closeOne" /\ main'.pc \in {"popOne", "closeAll"}
  BY <1>1 DEF StopClose
<1>10. StopPop => main.pc = "popOne" /\ main'.pc = "closeAll"
  BY <1>1 DEF StopPop
<1>11. StopRetry => main.pc = "closeAll" /\ main'.pc = "listener"
  BY <1>1 DEF StopRetry
<1>12. StopListener => main.pc = "listener" /\ main'.pc = "join2"
  BY <1>1 DEF StopListener
<1>13. StopJoinAgain => main.pc = "join2" /\ main'.pc = "drain"
  BY <1>1 DEF StopJoinAgain
<1>14. StopDrain => main.pc = "drain" /\ main'.pc = "verdict"
  BY <1>1 DEF StopDrain
<1>15. StopVerdict => main.pc = "verdict" /\ main'.pc = "run"
  BY <1>1 DEF StopVerdict
<1>16. QED
  BY <1>2, <1>3, <1>4, <1>5, <1>6, <1>7, <1>8, <1>9, <1>10, <1>11, <1>12, <1>13, <1>14, <1>15

\* stop() works on entries of the table, and closes a socket before it removes its entry.
LEMMA MainEntries ==
  ASSUME Typed, LocalsSound, TableSound, Next
  PROVE  /\ \A f \in Fds, c \in Conns : <<f, c>> \in main'.todo => <<f, c>> \in main.todo \/ conns[f] = c
         /\ main'.pc \in {"closeOne", "popOne"} =>
              main'.entry \in main.todo \/ (main.pc \in {"closeOne", "popOne"} /\ main'.entry = main.entry)
         /\ main'.pc = "popOne" => \/ main.pc = "popOne" /\ main'.entry = main.entry
                                   \/ main'.entry = main.entry /\ fd' = [fd EXCEPT ![main.entry[2]] = None]
                                      /\ main.pc = "closeOne"
<1>1. main \in MainTypes
  BY DEF Typed
<1>2. CASE StopClose
  BY <1>1, <1>2 DEF StopClose, MainTypes, MainGo
<1>3. CASE StopPop
  BY <1>1, <1>3 DEF StopPop, MainTypes
<1>4. CASE ~StopClose /\ ~StopPop
  BY <1>4, MainStays DEF EntriesStay
<1>5. QED BY <1>2, <1>3, <1>4

CopiesSound ==
    /\ \A f \in Fds, c \in Conns : <<f, c>> \in main.todo => Copied(f, c)
    /\ main.pc \in {"closeOne", "popOne"} => Copied(main.entry[1], main.entry[2])
    /\ main.pc = "popOne" => ~Open(main.entry[2])

LEMMA CopiesStep ==
  ASSUME Typed, LocalsSound, TableSound, Next
  PROVE  CopiesSound'
<1>1. main' \in MainTypes /\ LocalsSound' /\ main \in MainTypes /\ TableTyped
  BY MainTyped, LocalsStep DEF Typed
<1>2. ASSUME NEW f \in Fds, NEW c \in Conns, <<f, c>> \in main'.todo
      PROVE  Copied(f, c)'
  <2>1. Copied(f, c)
    BY <1>2, MainEntries, EntriesCopied DEF TableSound
  <2>2. QED BY <2>1, CopiedStays
<1>3. ASSUME NEW f \in Fds, NEW c \in Conns, main'.pc \in {"closeOne", "popOne"}, main'.entry = <<f, c>>
      PROVE  Copied(f, c)' /\ (main'.pc = "popOne" => fd'[c] = None)
  <2>1. Copied(f, c)
    <3>1. CASE <<f, c>> \in main.todo
      BY <3>1 DEF TableSound
    <3>2. CASE main.pc \in {"closeOne", "popOne"} /\ main.entry = <<f, c>>
      BY <3>2 DEF TableSound
    <3>3. QED BY <1>3, <3>1, <3>2, MainEntries
  <2>2. CASE main'.pc = "popOne"
    <3>1. CASE main.pc = "popOne" /\ main.entry = <<f, c>>
      <4>1. fd[c] = None
        BY <3>1 DEF TableSound, Open
      <4>2. QED BY <2>1, <4>1, CopiedStays, SettledStays DEF Copied
    <3>2. CASE main.entry = <<f, c>> /\ fd' = [fd EXCEPT ![main.entry[2]] = None]
      BY <1>1, <2>1, <3>2, CopiedStays DEF TableTyped
    <3>3. QED BY <1>3, <2>2, <3>1, <3>2, MainEntries
  <2>3. QED BY <2>1, <2>2, CopiedStays
<1>4. ASSUME main'.pc \in {"closeOne", "popOne"}
      PROVE  (Copied(main.entry[1], main.entry[2]) /\ (main.pc = "popOne" => ~Open(main.entry[2])))'
  <2>1. main'.entry \in Fds \X Conns
    BY <1>1, <1>4 DEF LocalsSound
  <2>2. PICK f \in Fds, c \in Conns : main'.entry = <<f, c>>
    BY <2>1
  <2>3. Copied(f, c)' /\ (main'.pc = "popOne" => fd'[c] = None)
    BY <1>3, <1>4, <2>2
  <2>4. QED BY <2>2, <2>3 DEF Copied, Settled, Open
<1>5. QED BY <1>2, <1>4 DEF CopiesSound

\* Whoever closes a socket takes its entry out of the table, at once or as stop()'s next step.
DeadSound ==
    \A f \in Fds : conns[f] # None /\ ~Open(conns[f]) => main.pc = "popOne" /\ main.entry = <<f, conns[f]>>

LEMMA DeadStep ==
  ASSUME Typed, LocalsSound, TableSound, Next
  PROVE  DeadSound'
<1> SUFFICES ASSUME NEW f \in Fds, conns'[f] # None, fd'[conns'[f]] = None
             PROVE  main'.pc = "popOne" /\ main'.entry = <<f, conns'[f]>>
  BY DEF DeadSound, Open
<1>1. TableTyped /\ TableTyped' /\ io \in IoTypes /\ main \in MainTypes
  BY TypedIsTyped, TableStaysTyped DEF Typed
<1> DEFINE c == conns'[f]
<1>2. c \in Conns /\ fd'[c] = None
  BY <1>1 DEF TableTyped
<1>3. conns[f] = c
  <2>1. CASE UNCHANGED conns
    BY <2>1
  <2>2. CASE IoClose
    BY <1>1, <1>2, <2>2 DEF IoClose, TableTyped
  <2>3. CASE IoInsert
    <3>1. CASE UNCHANGED conns
      BY <3>1
    <3>2. CASE conns' = [conns EXCEPT ![fd[io.conn]] = io.conn] /\ UNCHANGED fd
      <4>1. io.conn \in Conns /\ fd[io.conn] \in Fds /\ fd[io.conn] # None
        BY <1>1, <2>3 DEF IoInsert, LocalsSound, TableSound, Open, TableTyped
      <4>2. CASE f = fd[io.conn]
        BY <1>1, <1>2, <3>2, <4>1, <4>2 DEF TableTyped
      <4>3. CASE f # fd[io.conn]
        BY <1>1, <3>2, <4>3 DEF TableTyped
      <4>4. QED BY <4>2, <4>3
    <3>3. QED BY <2>3, <3>1, <3>2 DEF IoInsert
  <2>4. CASE StopPop
    <3>1. conns' = conns \/ conns' = [conns EXCEPT ![main.entry[1]] = None]
      BY <2>4 DEF StopPop
    <3>2. QED BY <1>1, <1>2, <3>1, Constants DEF TableTyped
  <2>5. QED
    BY <2>1, <2>2, <2>3, <2>4, WhoMovesTable DEF IoRetry, IoAccept, StopClose, StopRetry
<1>4. Copied(f, c) /\ c # None /\ fd[c] \in {f, None}
  BY <1>2, <1>3, EntriesCopied, Constants DEF Copied
<1> HIDE DEF c
<1>5. CASE fd[c] = None
  <2>1. main.pc = "popOne" /\ main.entry = <<f, c>>
    BY <1>3, <1>4, <1>5 DEF TableSound, Open
  <2>2. CASE StopPop
    <3>1. conns' = [conns EXCEPT ![f] = None]
      BY <1>3, <2>1, <2>2 DEF StopPop
    <3>2. c = None
      BY <1>1, <3>1 DEF c, TableTyped
    <3>3. QED BY <1>4, <3>2
  <2>3. ~StopClose
    BY <2>1 DEF StopClose
  <2>4. CASE ~StopPop
    BY <2>1, <2>3, <2>4, MainStays DEF EntriesStay, c
  <2>5. QED BY <2>2, <2>4
<1>6. CASE fd[c] = f
  <2>1. fd'[c] # fd[c]
    BY <1>2, <1>6, Constants
  <2>2. Settled(c)
    BY <1>4 DEF Copied
  <2>3. CASE IoClose
    <3>1. CASE c = io.conn
      BY <1>2, <1>3, <1>4, <2>3, <3>1, <2>1 DEF IoClose, c
    <3>2. CASE c # io.conn
      BY <1>1, <1>2, <2>1, <2>3, <3>2 DEF IoClose, TableTyped
    <3>3. QED BY <3>1, <3>2
  <2>4. CASE IoRetry \/ StopRetry
    BY <1>1, <1>2, <2>1, <2>2, <2>4 DEF IoRetry, StopRetry, RetryPendingCloses, Settled, TableTyped
  <2>5. CASE IoAccept
    BY <1>1, <1>2, <2>1, <2>2, <2>5 DEF IoAccept, Settled, TableTyped
  <2>6. CASE IoInsert
    BY <1>1, <1>2, <2>1, <2>2, <2>6 DEF IoInsert, Settled, TableTyped
  <2>7. CASE StopClose
    <3>1. fd' = [fd EXCEPT ![main.entry[2]] = None] /\ main' = [main EXCEPT !.pc = "popOne"]
      BY <2>1, <2>7 DEF StopClose, MainGo
    <3>2. main.entry[2] = c
      BY <1>1, <1>2, <2>1, <3>1 DEF TableTyped
    <3>3. main.entry \in Fds \X Conns /\ Copied(main.entry[1], main.entry[2])
      BY <2>7 DEF StopClose, LocalsSound, TableSound
    <3>4. main.entry[1] = f
      BY <1>6, <3>2, <3>3, Constants DEF Copied
    <3>5. main.entry = <<f, c>>
      BY <3>2, <3>3, <3>4
    <3>6. QED BY <1>1, <3>1, <3>5 DEF MainTypes, c
  <2>8. QED BY <2>1, <2>3, <2>4, <2>5, <2>6, <2>7, WhoMovesTable DEF StopPop
<1>7. QED BY <1>4, <1>5, <1>6

\* Every open socket is somewhere, and no two are in one place.
SocketsSound ==
    /\ SocketsTracked
    /\ \A c, d \in Conns : Open(c) /\ fd[c] = fd[d] => c = d
    /\ \A c \in Conns : Open(c) => c \in accepted
    /\ \A f \in Fds : conns[f] # None => Settled(conns[f])
    /\ pendingClose \subseteq accepted
    /\ io.pc = "insert" => io.conn \in accepted /\ io.conn \notin pendingClose /\ Open(io.conn)

LEMMA SocketsStep ==
  ASSUME Typed, LocalsSound, TableSound, Next
  PROVE  SocketsSound'
<1>1. TableTyped /\ TableTyped' /\ io \in IoTypes /\ main \in MainTypes /\ None \notin Conns /\ None \notin Fds
  BY TypedIsTyped, TableStaysTyped, Constants DEF Typed
<1>2. SocketsSound
  BY DEF TableSound, SocketsSound
<1>3. \A c \in Conns : Settled(c) => Settled(c)' /\ fd'[c] \in {fd[c], None}
  BY SettledStays
<1> USE DEF SocketsSound, SocketsTracked, Open, TableTyped
<1>4. CASE UNCHANGED <<conns, fd, accepted, pendingClose>> /\ ~IoAccept /\ ~IoInsert
  BY <1>1, <1>2, <1>3, <1>4, HeldStays
<1>5. CASE IoRetry \/ StopRetry
  <2>1. UNCHANGED <<conns, accepted>> /\ ~IoAccept /\ ~IoInsert
    BY <1>5, IoGoes DEF IoRetry, StopRetry, IoAccept, IoInsert
  <2>2. CASE UNCHANGED <<fd, pendingClose>>
    BY <1>4, <2>1, <2>2
  <2>3. CASE pendingClose' = {} /\ fd' = [c \in Conns |-> IF c \in pendingClose THEN None ELSE fd[c]]
    BY <1>1, <1>2, <1>3, <2>1, <2>3, HeldStays
  <2>4. QED BY <1>5, <2>2, <2>3 DEF IoRetry, StopRetry, RetryPendingCloses
<1>6. CASE IoClose
  <2>1. UNCHANGED <<accepted, pendingClose>> /\ ~IoAccept /\ ~IoInsert /\ io.pc # "insert"
    BY <1>6, IoGoes DEF IoClose, IoAccept, IoInsert
  <2>2. CASE UNCHANGED <<conns, fd>>
    BY <1>4, <2>1, <2>2
  <2>3. CASE /\ fd' = [fd EXCEPT ![io.conn] = None]
             /\ conns' = [f \in Fds |-> IF conns[f] = io.conn THEN None ELSE conns[f]]
    <3>1. io'.pc # "insert"
      BY <2>1, HeldStays
    <3>2. \A c \in Conns : fd'[c] = IF c = io.conn THEN None ELSE fd[c]
      BY <1>1, <2>3
    <3>3. \A f \in Fds : conns'[f] = IF conns[f] = io.conn THEN None ELSE conns[f]
      BY <2>3
    <3>4. SocketsTracked'
      BY <1>1, <1>2, <2>1, <3>1, <3>2, <3>3
    <3>5. QED BY <1>1, <1>2, <1>3, <2>1, <3>1, <3>2, <3>3, <3>4
  <2>4. QED BY <1>6, <2>2, <2>3 DEF IoClose
<1>7. CASE IoAccept
  <2>1. UNCHANGED <<conns, pendingClose>> /\ io.pc = "accept"
    BY <1>7 DEF IoAccept, table
  <2>2. CASE UNCHANGED <<accepted, fd>> /\ io' = [io EXCEPT !.pc = "flush"]
    BY <1>1, <1>2, <1>3, <2>1, <2>2 DEF IoTypes
  <2>3. ASSUME NEW h \in Conns \ accepted, NEW g \in FreeFds, accepted' = accepted \cup {h}, fd' = [fd EXCEPT ![h] = g],
               io' = [io EXCEPT !.pc = "insert", !.conn = h]
        PROVE  SocketsSound'
    <3>1. g \in Fds /\ \A c \in Conns : fd[c] # g
      BY DEF FreeFds
    <3>2. \A c \in Conns : fd'[c] = IF c = h THEN g ELSE fd[c]
      BY <1>1, <2>3
    <3>3. io'.pc = "insert" /\ io'.conn = h
      BY <1>1, <2>3 DEF IoTypes
    <3>4. \A f \in Fds : conns[f] # h
      BY <1>1, <1>2, <2>3 DEF Settled
    <3>5. SocketsTracked'
      BY <1>1, <1>2, <2>1, <2>3, <3>1, <3>2, <3>3, <3>4
    <3>6. QED BY <1>1, <1>2, <1>3, <2>1, <2>3, <3>1, <3>2, <3>3, <3>5
  <2>4. QED BY <1>7, <2>2, <2>3 DEF IoAccept, IoGo
<1>8. CASE IoInsert
  <2>0. PICK h \in Conns : h = io.conn
    BY <1>8 DEF IoInsert, LocalsSound
  <2>1. /\ UNCHANGED accepted /\ io.pc = "insert" /\ io'.pc = "flush"
        /\ h \in accepted /\ fd[h] \in Fds /\ \A f \in Fds : conns[f] # h
    BY <1>1, <1>2, <1>8, <2>0, IoGoes DEF IoInsert, LocalsSound, Settled
  <2>2. CASE conns' = [conns EXCEPT ![fd[h]] = h] /\ UNCHANGED <<fd, pendingClose>>
    <3>1. \A f \in Fds : conns'[f] = IF f = fd[h] THEN h ELSE conns[f]
      BY <1>1, <2>2
    <3>2. Settled(h)'
      BY <1>1, <1>2, <2>0, <2>1, <2>2 DEF Settled
    <3>3. SocketsTracked'
      BY <1>1, <1>2, <2>0, <2>1, <2>2, <3>1
    <3>4. QED BY <1>1, <1>2, <1>3, <2>0, <2>1, <2>2, <3>1, <3>2, <3>3
  <2>3. CASE fd' = [fd EXCEPT ![h] = None] /\ UNCHANGED <<conns, pendingClose>>
    <3>1. \A c \in Conns : fd'[c] = IF c = h THEN None ELSE fd[c]
      BY <1>1, <2>3
    <3>2. SocketsTracked'
      BY <1>1, <1>2, <2>0, <2>1, <2>3, <3>1
    <3>3. QED BY <1>1, <1>2, <1>3, <2>0, <2>1, <2>3, <3>1, <3>2
  <2>4. CASE pendingClose' = pendingClose \cup {h} /\ UNCHANGED <<conns, fd>>
    <3>1. SocketsTracked'
      BY <1>1, <1>2, <2>0, <2>1, <2>4
    <3>2. QED BY <1>1, <1>2, <1>3, <2>0, <2>1, <2>4, <3>1
  <2>5. QED BY <1>8, <2>0, <2>2, <2>3, <2>4 DEF IoInsert
<1>9. CASE StopClose
  <2>1. UNCHANGED <<conns, accepted, pendingClose, io>> /\ ~IoAccept /\ ~IoInsert
    BY <1>9, IoGoes DEF StopClose, IoAccept, IoInsert, table
  <2>2. CASE UNCHANGED fd
    BY <1>4, <2>1, <2>2
  <2>3. CASE fd' = [fd EXCEPT ![main.entry[2]] = None]
    <3> DEFINE d == main.entry[2]
    <3>1. Settled(d) /\ d \in Conns
      BY <1>9 DEF StopClose, TableSound, Copied, LocalsSound
    <3>2. \A c \in Conns : fd'[c] = IF c = d THEN None ELSE fd[c]
      BY <1>1, <2>3
    <3>3. SocketsTracked'
      BY <1>1, <1>2, <2>1, <3>1, <3>2
    <3>4. QED BY <1>1, <1>2, <1>3, <2>1, <3>1, <3>2, <3>3 DEF Settled
  <2>4. QED BY <1>9, <2>2, <2>3 DEF StopClose
<1>10. CASE StopPop
  <2>1. UNCHANGED <<fd, accepted, pendingClose, io>> /\ ~IoAccept /\ ~IoInsert
    BY <1>10, IoGoes DEF StopPop, IoAccept, IoInsert, table
  <2>2. CASE UNCHANGED conns
    BY <1>4, <2>1, <2>2
  <2>3. CASE conns[main.entry[1]] = main.entry[2] /\ conns' = [conns EXCEPT ![main.entry[1]] = None]
    <3> DEFINE g == main.entry[1]
               d == main.entry[2]
    <3>1. d \in Conns /\ g \in Fds /\ fd[d] = None /\ conns[g] = d
      BY <1>10, <2>3 DEF StopPop, TableSound, LocalsSound
    <3>2. \A f \in Fds : conns'[f] = IF f = g THEN None ELSE conns[f]
      BY <1>1, <2>3
    <3>3. SocketsTracked'
      BY <1>1, <1>2, <2>1, <3>1, <3>2
    <3>4. QED BY <1>1, <1>2, <1>3, <2>1, <3>1, <3>2, <3>3
  <2>4. QED BY <1>10, <2>2, <2>3 DEF StopPop
<1>11. QED BY <1>4, <1>5, <1>6, <1>7, <1>8, <1>9, <1>10, WhoMovesTable

LEMMA TableStep ==
  ASSUME Typed, LocalsSound, TableSound, Next
  PROVE  TableSound'
BY SocketsStep, CopiesStep, DeadStep DEF TableSound, SocketsSound, CopiesSound, DeadSound

-------------------------------------------------------------------------------
(* The connections that are worked on. *)

\* The I/O thread works on connections of the table, one of those it selected at a time.
Working == {"mark", "close", "sending", "sent", "busy", "busyWake"}
Known == io.snap \cup io.want \cup io.r \cup io.w
WorksOn ==
    /\ io'.snap \cup io'.want \cup io'.r \cup io'.w \subseteq Known \cup Current
    /\ io'.pc \in Working => (io.pc \in Working /\ io'.conn = io.conn) \/ io'.conn \in Known

LEMMA IoWorksOn ==
  ASSUME Typed, Next
  PROVE  WorksOn
<1>1. io \in IoTypes
  BY DEF Typed
<1> USE DEF WorksOn, Working, Known, IoTypes, IoAt, IoGo, IoDrop
<1>2. CASE IoLoop
  BY <1>1, <1>2 DEF IoLoop
<1>3. CASE IoRetry
  BY <1>1, <1>3 DEF IoRetry
<1>4. CASE IoDropClosing
  BY <1>1, <1>4 DEF IoDropClosing
<1>5. CASE IoMark
  BY <1>1, <1>5 DEF IoMark
<1>6. CASE IoClose
  BY <1>1, <1>6 DEF IoClose
<1>7. CASE IoRegister
  <2>1. {c \in Current \ closing : outbox[c] # <<>>} \subseteq Current
    OBVIOUS
  <2>2. QED BY <1>1, <1>7, <2>1 DEF IoRegister
<1>8. CASE IoSelect
  BY <1>1, <1>8 DEF IoSelect
<1>9. CASE IoDrainWake
  BY <1>1, <1>9 DEF IoDrainWake
<1>10. CASE IoCheckStopped
  BY <1>1, <1>10 DEF IoCheckStopped
<1>11. CASE IoAccept
  <2>1. CASE \E c \in Conns : io' = [io EXCEPT !.pc = "insert", !.conn = c]
    BY <1>1, <2>1
  <2>2. CASE io' = [io EXCEPT !.pc = "flush"]
    BY <1>1, <2>2
  <2>3. QED BY <1>11, <2>1, <2>2 DEF IoAccept
<1>12. CASE IoInsert
  BY <1>1, <1>12 DEF IoInsert
<1>13. CASE IoFlush
  <2>1. CASE io' = [IoAt("read") EXCEPT !.r = io.r]
    BY <1>1, <2>1
  <2>2. ASSUME NEW c \in io.w, NEW h, \/ io' = [io EXCEPT !.w = @ \ {c}]
                                    \/ io' = [io EXCEPT !.pc = "sending", !.conn = c, !.head = h]
        PROVE  WorksOn
    BY ZenonT(60), <1>1, <1>13, <2>2 DEF IoFlush
  <2>3. QED BY <1>13, <2>1, <2>2 DEF IoFlush
<1>14. CASE IoSend
  <2>1. CASE io' = [io EXCEPT !.pc = "sent"]
    BY <1>1, <1>14, <2>1 DEF IoSend
  <2>2. CASE io' = FlushDone
    BY <1>1, <2>2 DEF FlushDone
  <2>3. CASE io' = [io EXCEPT !.pc = "mark", !.conn = io.conn, !.back = "flush"]
    BY <1>1, <1>14, <2>3 DEF IoSend
  <2>4. QED BY <1>14, <2>1, <2>2, <2>3 DEF IoSend
<1>15. CASE IoPop
  <2>1. CASE io' = [io EXCEPT !.pc = "flush"]
    BY <1>1, <2>1
  <2>2. CASE io' = FlushDone
    BY <1>1, <2>2 DEF FlushDone
  <2>3. QED BY <1>15, <2>1, <2>2 DEF IoPop
<1>16. CASE IoRead
  <2>1. CASE io' = IoAt("loop")
    BY <2>1
  <2>2. ASSUME NEW c \in io.r, NEW n, \/ io' = ReadDone(c)
                                    \/ io' = [ReadDone(c) EXCEPT !.pc = "mark", !.conn = c, !.back = "read"]
                                    \/ io' = [ReadDone(c) EXCEPT !.pc = "busy", !.conn = c, !.head = n]
        PROVE  WorksOn
    <3>1. PICK x : x = ReadDone(c)
      OBVIOUS
    <3>2. /\ DOMAIN x = DOMAIN io /\ x.pc = "read" /\ x.snap = io.snap /\ x.want = io.want /\ x.w = io.w
          /\ x.r \subseteq io.r /\ x.conn = io.conn
      BY <1>1, <1>16, <3>1 DEF ReadDone, IoRead
    <3>3. /\ io'.snap = io.snap /\ io'.want = io.want /\ io'.w = io.w /\ io'.r \subseteq io.r
          /\ io'.pc = "read" \/ io'.conn = c
      BY ZenonT(60), <1>1, <2>2, <3>1, <3>2
    <3>4. QED BY <3>3
  <2>3. QED BY <1>16, <2>1, <2>2 DEF IoRead
<1>17. CASE IoBusy
  BY <1>1, <1>17 DEF IoBusy
<1>18. CASE IoBusyWake
  BY <1>1, <1>18 DEF IoBusyWake
<1>19. CASE IoAbort
  BY <1>1, <1>19 DEF IoAbort
<1>20. QED
  BY <1>1, <1>2, <1>3, <1>4, <1>5, <1>6, <1>7, <1>8, <1>9, <1>10, <1>11, <1>12, <1>13, <1>14, <1>15, <1>16, <1>17, <1>18, <1>19, WhoMovesIo DEF IoThread

LEMMA EntriesSettled ==
  ASSUME Typed, TableSound, NEW c \in Current
  PROVE  Settled(c) /\ c \in Conns
BY DEF Current, TableSound, Typed, TableTyped

\* A request is read from a connection the I/O thread knows.
RequestsStay ==
    /\ \A q \in queue' : q \in queue \/ \E c \in io.r : q = <<c, received'[c]>> /\ received'[c] = received[c] + 1
    /\ \A c \in Conns : received'[c] = received[c] \/ (c \in io.r /\ received'[c] = received[c] + 1)

LEMMA RequestsComeIn ==
  ASSUME Typed, Next
  PROVE  RequestsStay
<1>1. WorkTyped /\ io \in IoTypes
  BY DEF Typed
<1> USE DEF RequestsStay
<1>2. CASE IoRead
  <2>1. CASE UNCHANGED work
    BY <2>1 DEF work
  <2>2. ASSUME NEW c \in io.r, received' = [received EXCEPT ![c] = @ + 1],
               queue' = queue \/ queue' = queue \cup {<<c, received[c] + 1>>}
        PROVE  RequestsStay
    <3>1. c \in Conns /\ received'[c] = received[c] + 1 /\ \A d \in Conns \ {c} : received'[d] = received[d]
      BY <1>1, <2>2 DEF WorkTyped, IoTypes
    <3>2. QED BY <2>2, <3>1
  <2>3. QED BY <1>2, <2>1, <2>2 DEF IoRead
<1>3. CASE ~IoRead
  BY <1>3, WhoMovesWork DEF MainServe, MainSend, MainWake, StopDrain
<1>4. QED BY <1>2, <1>3

LEMMA WorkStep ==
  ASSUME Typed, LocalsSound, TableSound, WorkSound, CompleteMeansDown, Next
  PROVE  WorkSound'
<1>1. io \in IoTypes /\ io' \in IoTypes /\ main \in MainTypes /\ WorkTyped /\ WorkTyped' /\ FlagsTyped
  BY IoTyped, RestStaysTyped DEF Typed
<1>2. \A c \in Known \cup Current : Settled(c)' /\ c \in Conns
  BY <1>1, EntriesSettled, SettledStays DEF WorkSound, Known, IoTypes
<1>3. (\A c \in io.snap \cup io.want \cup io.r \cup io.w : Settled(c))'
  BY <1>2, IoWorksOn DEF WorksOn
<1>4. (io.pc \in {"mark", "close", "sending", "sent", "busy", "busyWake"} => Settled(io.conn))'
  <2>1. SUFFICES ASSUME io'.pc \in Working PROVE Settled(io.conn)'
    BY DEF Working
  <2>2. CASE io.pc \in Working /\ io'.conn = io.conn
    <3>1. Settled(io.conn) /\ io.conn \in Conns
      BY <2>2 DEF WorkSound, Working, LocalsSound
    <3>2. \A c \in Conns : c = io.conn => Settled(c)'
      BY <3>1, SettledStays
    <3>3. QED BY <2>2, <3>1, <3>2 DEF Settled
  <2>3. CASE io'.conn \in Known
    BY <1>2, <2>3 DEF Settled
  <2>4. QED BY <2>1, <2>2, <2>3, IoWorksOn DEF WorksOn
<1>5. (\A q \in queue : Settled(q[1]) /\ q[2] \in 1..received[q[1]])'
  <2>1. SUFFICES ASSUME NEW c \in Conns, NEW n \in 1..MaxRequests, <<c, n>> \in queue'
                 PROVE  Settled(c)' /\ n \in 1..received'[c]
    BY <1>1 DEF WorkTyped, Requests, Settled
  <2>2. received[c] \in Nat /\ received'[c] \in Nat /\ (received'[c] = received[c] \/ received'[c] = received[c] + 1)
    BY <1>1, RequestsComeIn DEF WorkTyped, RequestsStay
  <2>3. CASE <<c, n>> \in queue
    <3>1. Settled(c) /\ n \in 1..received[c]
      BY <2>3 DEF WorkSound
    <3>2. QED BY <2>2, <3>1, SettledStays
  <2>4. CASE c \in io.r /\ n = received'[c] /\ n = received[c] + 1
    BY <1>2, <2>2, <2>4 DEF Known
  <2>5. QED BY <2>1, <2>3, <2>4, RequestsComeIn DEF RequestsStay
<1>6. (\A c \in Conns : received[c] # 0 => Settled(c))'
  <2>1. SUFFICES ASSUME NEW c \in Conns, received'[c] # 0 PROVE Settled(c)'
    OBVIOUS
  <2>2. CASE received[c] # 0
    BY <2>2, SettledStays DEF WorkSound
  <2>3. CASE c \in io.r
    BY <1>2, <2>3 DEF Known
  <2>4. QED BY <2>1, <2>2, <2>3, RequestsComeIn DEF RequestsStay
<1>7. (io.pc = "close" => io.conn \in cancelled)'
  <2>1. CASE IoMark
    BY <1>1, <2>1 DEF IoMark, IoGo, IoTypes
  <2>2. CASE ~IoMark /\ io'.pc = "close"
    <3>1. UNCHANGED io
      BY <1>1, <2>2, IoGoes, WhoMovesIo DEF IoThread, IoTypes
    <3>2. cancelled \subseteq cancelled'
      BY WhoMovesMarks DEF IoMark, IoPop, IoBusy, MainSend, StopMark, table
    <3>3. QED BY <2>2, <3>1, <3>2 DEF WorkSound
  <2>3. QED BY <2>1, <2>2
<1>8. (complete => main.pc = "run")'
  <2>1. CASE StopVerdict
    BY <2>1 DEF StopVerdict, MainAt
  <2>2. CASE complete /\ UNCHANGED complete
    <3>1. main.pc = "run" /\ queue = {}
      BY <2>2 DEF WorkSound, CompleteMeansDown
    <3>2. UNCHANGED main
      BY <2>2, <3>1, WhoMovesMain DEF MainServe, MainSend, MainWake, StopBegin, StopBy, Stopping, StopWake, StopJoin, StopMark,
         StopClose, StopPop, StopRetry, StopListener, StopJoinAgain, StopDrain, StopVerdict
    <3>3. QED BY <3>1, <3>2
  <2>3. complete' = complete \/ StopVerdict
    BY WhoMovesFlags DEF IoDrainWake, IoBusyWake, IoAbort, MainWake, StopBegin, StopBy, StopWake, StopListener
  <2>4. QED BY <2>1, <2>2, <2>3
<1>9. (main.pc \in {"drain", "verdict"} /\ ~main.failed => io.pc = "exited")'
  <2>1. io.pc = "exited" => UNCHANGED io
    BY IoGoes, WhoMovesIo DEF IoThread
  <2>2. CASE StopJoinAgain
    BY <1>1, <2>1, <2>2 DEF StopJoinAgain, MainGo, MainTypes
  <2>3. ASSUME main'.pc \in {"drain", "verdict"}, ~StopJoinAgain
        PROVE  main.pc \in {"drain", "verdict"} /\ main'.failed = main.failed
    <3>1. StopDrain => main.pc = "drain" /\ main'.failed = main.failed
      BY <1>1 DEF StopDrain, MainGo, MainTypes
    <3>2. QED BY <2>3, <3>1, MainGoes, WhoMovesMain DEF Stopping
  <2>4. QED BY <2>1, <2>2, <2>3 DEF WorkSound
<1>10. (main.pc = "verdict" /\ ~main.failed => queue = {})'
  <2>1. CASE StopDrain
    BY <2>1 DEF StopDrain
  <2>2. ASSUME main'.pc = "verdict", ~main'.failed, ~StopDrain
        PROVE  main.pc = "verdict" /\ main'.failed = main.failed
    BY <2>2, MainGoes, WhoMovesMain DEF Stopping
  <2>3. main.pc = "verdict" /\ ~main.failed => queue' = {}
    <3>1. SUFFICES ASSUME main.pc = "verdict", ~main.failed PROVE queue' = {}
      OBVIOUS
    <3>2. queue = {} /\ io.pc = "exited"
      BY <3>1 DEF WorkSound
    <3>3. QED
      BY <3>1, <3>2, WhoMovesWork DEF IoRead, MainServe, MainSend, MainWake, StopDrain
  <2>4. QED BY <2>1, <2>2, <2>3
<1>11. QED BY <1>3, <1>4, <1>5, <1>6, <1>7, <1>8, <1>9, <1>10 DEF WorkSound

-------------------------------------------------------------------------------
(* The limits. *)

\* What a step does to the outboxes: nothing, drop one, pop a frame or queue one.
Drops(c) == /\ closing' = closing \cup {c}
            /\ outbox' = [outbox EXCEPT ![c] = <<>>] /\ bytes' = [bytes EXCEPT ![c] = 0]
Pops(c) == /\ closing' = closing /\ outbox[c] # <<>>
           /\ outbox' = [outbox EXCEPT ![c] = Tail(outbox[c])] /\ bytes' = [bytes EXCEPT ![c] = bytes[c] - 1]
Queues(c, n) == /\ closing' = closing /\ Sendable(c) /\ ~OverLimit(c) /\ UNCHANGED conns
                /\ outbox' = [outbox EXCEPT ![c] = Append(outbox[c], n)]
                /\ bytes' = [bytes EXCEPT ![c] = bytes[c] + 1]
Keeps == closing \subseteq closing' /\ UNCHANGED <<outbox, bytes>>

LEMMA OutMoves ==
  ASSUME Typed, LocalsSound, Next
  PROVE  \/ Keeps
         \/ \E c \in Conns : Drops(c) \/ Pops(c) \/ \E n \in 1..MaxRequests : Queues(c, n)
<1>1. TableTyped /\ OutTyped /\ WorkTyped /\ io \in IoTypes /\ main \in MainTypes
  BY DEF Typed
<1> USE DEF Keeps
<1>2. CASE IoMark
  BY <1>2 DEF IoMark, Mark, Drops, LocalsSound
<1>3. CASE StopMark
  BY <1>1, <1>3 DEF StopMark, Mark, Drops, MainTypes
<1>4. CASE IoPop
  BY <1>4 DEF IoPop, Pops, LocalsSound, table
<1>5. CASE IoBusy
  <2>1. io.conn \in Conns /\ io.head \in 1..MaxRequests /\ UNCHANGED conns
    BY <1>1, <1>5 DEF IoBusy, LocalsSound, IoTypes
  <2>2. CASE Sendable(io.conn) /\ Enqueue(io.conn, io.head)
    BY <1>1, <2>1, <2>2, Enqueued DEF Queues
  <2>3. QED BY <1>5, <2>2 DEF IoBusy
<1>6. CASE MainSend
  <2>1. main.reply[1] \in Conns /\ main.reply[2] \in 1..MaxRequests /\ UNCHANGED conns
    BY <1>6 DEF MainSend, LocalsSound, Requests
  <2>2. CASE Sendable(main.reply[1]) /\ Enqueue(main.reply[1], main.reply[2])
    BY <1>1, <2>1, <2>2, Enqueued DEF Queues
  <2>3. QED BY <1>6, <2>2 DEF MainSend
<1>7. QED BY <1>2, <1>3, <1>4, <1>5, <1>6, WhoMovesMarks

\* A connection that is marked and has nothing queued stays so.
LEMMA EmptiedStays ==
  ASSUME Typed, LocalsSound, Next, NEW c \in Conns, Emptied(c)
  PROVE  Emptied(c)'
<1>1. OutTyped /\ c \in closing /\ outbox[c] = <<>>
  BY DEF Typed, Emptied
<1>2. ASSUME NEW d \in Conns, Drops(d)
      PROVE  Emptied(c)'
  BY <1>1, <1>2 DEF Drops, Emptied, OutTyped
<1>3. ASSUME NEW d \in Conns, Pops(d)
      PROVE  Emptied(c)'
  BY <1>1, <1>3 DEF Pops, Emptied, OutTyped
<1>4. ASSUME NEW d \in Conns, NEW n \in 1..MaxRequests, Queues(d, n)
      PROVE  Emptied(c)'
  BY <1>1, <1>4 DEF Queues, Emptied, OutTyped, Sendable
<1>5. QED BY <1>1, <1>2, <1>3, <1>4, OutMoves DEF Keeps, Emptied

\* What leaves the table is emptied, also the entry whose descriptor another connection has by now.
LEMMA LeaversEmptied ==
  ASSUME Typed, LocalsSound, TableSound, LimitsSound, Next, NEW c \in Current, c \notin Current'
  PROVE  Emptied(c)
<1>1. TableTyped /\ c \in Conns
  BY EntriesSettled DEF Typed
<1>2. PICK f \in Fds : conns[f] = c /\ conns'[f] # c
  BY <1>1, Constants DEF Current
<1>3. CASE IoClose
  <2>1. conns'[f] = IF conns[f] = io.conn THEN None ELSE conns[f]
    BY <1>2, <1>3 DEF IoClose
  <2>2. QED BY <1>2, <1>3, <2>1 DEF IoClose, LimitsSound
<1>4. CASE StopPop
  <2>1. main.entry \in Fds \X Conns /\ conns' = [conns EXCEPT ![main.entry[1]] = None] /\ conns[main.entry[1]] = main.entry[2]
    BY <1>2, <1>4 DEF StopPop, LocalsSound
  <2>2. c = main.entry[2]
    BY <1>1, <1>2, <2>1 DEF TableTyped
  <2>3. QED BY <1>4, <2>2 DEF StopPop, LimitsSound
<1>5. CASE IoInsert
  <2>1. io.conn \in Conns /\ conns' = [conns EXCEPT ![fd[io.conn]] = io.conn] /\ fd[io.conn] # None /\ io.pc = "insert"
    BY <1>2, <1>5 DEF IoInsert, LocalsSound, TableSound, Open
  <2>2. f = fd[io.conn] /\ c # io.conn
    BY <1>1, <1>2, <2>1, EntriesSettled DEF TableTyped, Settled
  <2>3. fd[c] # f
    BY <1>1, <2>1, <2>2 DEF TableSound, Open
  <2>4. main.pc = "popOne" /\ main.entry = <<f, c>>
    BY <1>1, <1>2, <2>3, Constants DEF TableSound, SocketsTracked, Open
  <2>5. QED BY <2>4 DEF LimitsSound
<1>6. QED
  BY <1>2, <1>3, <1>4, <1>5, WhoMovesTable DEF IoRetry, IoAccept, StopClose, StopRetry

LEMMA EntriesBounded ==
  ASSUME Typed, LocalsSound, LimitsSound, Next
  PROVE  Cardinality({f \in Fds : conns'[f] # None}) <= MaxConns
<1> DEFINE E == {f \in Fds : conns[f] # None}
           EE == {f \in Fds : conns'[f] # None}
<1>1. IsFiniteSet(E) /\ IsFiniteSet(EE) /\ Cardinality(E) \in Nat /\ Cardinality(EE) \in Nat
  BY Constants, FS_Subset, FS_CardinalityType
<1>2. TableTyped /\ Cardinality(E) <= MaxConns /\ MaxConns \in Nat /\ None \notin Conns
  BY Constants DEF Typed, LimitsSound
<1>3. CASE EE \subseteq E
  BY <1>1, <1>2, <1>3, FS_Subset
<1>4. CASE ~TableFull /\ \E x : EE \subseteq E \cup {x}
  <2>1. Cardinality(E) < MaxConns
    BY <1>1, <1>2, <1>4 DEF TableFull
  <2>2. PICK x : EE \subseteq E \cup {x}
    BY <1>4
  <2> HIDE DEF E, EE
  <2>3. IsFiniteSet(E \cup {x}) /\ Cardinality(E \cup {x}) <= Cardinality(E) + 1
    <3>1. /\ IsFiniteSet(E \cup {x})
          /\ Cardinality(E \cup {x}) = IF x \in E THEN Cardinality(E) ELSE Cardinality(E) + 1
      BY ONLY <1>1, FS_AddElement
    <3>2. QED BY <1>1, <3>1
  <2>4. Cardinality(EE) <= Cardinality(E \cup {x})
    BY ONLY <2>2, <2>3, FS_Subset
  <2>5. Cardinality(E \cup {x}) \in Nat
    BY <2>3, FS_CardinalityType
  <2>6. QED BY <1>1, <1>2, <2>1, <2>3, <2>4, <2>5 DEF EE
<1>5. CASE IoInsert
  <2>1. CASE ~TableFull /\ conns' = [conns EXCEPT ![fd[io.conn]] = io.conn]
    <3>1. EE \subseteq E \cup {fd[io.conn]}
      BY <1>2, <2>1 DEF TableTyped
    <3>2. QED BY <1>4, <2>1, <3>1
  <2>2. CASE UNCHANGED conns
    BY <1>3, <2>2
  <2>3. QED BY <1>5, <2>1, <2>2 DEF IoInsert
<1>6. CASE IoClose
  <2>1. EE \subseteq E
    BY <1>6 DEF IoClose
  <2>2. QED BY <1>3, <2>1
<1>7. CASE StopPop
  <2>1. EE \subseteq E
    BY <1>2, <1>7 DEF StopPop, TableTyped
  <2>2. QED BY <1>3, <2>1
<1>8. CASE UNCHANGED conns
  BY <1>3, <1>8
<1>9. QED
  BY <1>5, <1>6, <1>7, <1>8, WhoMovesTable DEF IoRetry, IoAccept, StopClose, StopRetry

\* The counters are those of the queues, and only a queued frame makes one grow.
LEMMA BytesStep ==
  ASSUME Typed, LocalsSound, LimitsSound, Next
  PROVE  /\ \A c \in Conns : bytes'[c] = Len(outbox'[c]) /\ bytes'[c] <= MaxOutbox
         /\ \/ \A c \in Conns : bytes'[c] <= bytes[c]
            \/ \E c \in Current : /\ UNCHANGED conns /\ ~OverLimit(c)
                                  /\ bytes' = [bytes EXCEPT ![c] = @ + 1]
<1>1. TableTyped /\ OutTyped /\ MaxOutbox \in Nat
  BY Constants DEF Typed
<1>2. \A c \in Conns : bytes[c] = Len(outbox[c]) /\ bytes[c] <= MaxOutbox /\ bytes[c] \in Nat
  BY <1>1 DEF LimitsSound, OutTyped
<1>3. CASE Keeps
  BY <1>2, <1>3 DEF Keeps
<1>4. ASSUME NEW c \in Conns, Drops(c)
      PROVE  \A d \in Conns : bytes'[d] = Len(outbox'[d]) /\ bytes'[d] <= bytes[d]
  BY <1>1, <1>2, <1>4 DEF Drops, OutTyped
<1>5. ASSUME NEW c \in Conns, Pops(c)
      PROVE  \A d \in Conns : bytes'[d] = Len(outbox'[d]) /\ bytes'[d] <= bytes[d]
  <2>1. outbox[c] \in Seq(1..MaxRequests) /\ outbox[c] # <<>>
    BY <1>1, <1>5 DEF Pops, OutTyped
  <2>2. Len(Tail(outbox[c])) = Len(outbox[c]) - 1
    BY <2>1, HeadTailProperties
  <2>3. /\ outbox'[c] = Tail(outbox[c]) /\ bytes'[c] = bytes[c] - 1
        /\ \A d \in Conns \ {c} : outbox'[d] = outbox[d] /\ bytes'[d] = bytes[d]
    BY <1>1, <1>5 DEF Pops, OutTyped
  <2>4. bytes'[c] = Len(outbox'[c]) /\ bytes'[c] <= bytes[c]
    BY <1>2, <2>2, <2>3
  <2>5. ASSUME NEW d \in Conns \ {c}
        PROVE  bytes'[d] = Len(outbox'[d]) /\ bytes'[d] <= bytes[d]
    <3>1. bytes[d] \in Nat /\ bytes[d] = Len(outbox[d]) /\ bytes'[d] = bytes[d] /\ outbox'[d] = outbox[d]
      BY <1>2, <2>3
    <3>2. QED BY <3>1
  <2>6. QED BY <2>4, <2>5
<1>6. ASSUME NEW c \in Conns, NEW n \in 1..MaxRequests, Queues(c, n)
      PROVE  /\ \A d \in Conns : bytes'[d] = Len(outbox'[d]) /\ bytes'[d] <= MaxOutbox
             /\ c \in Current /\ UNCHANGED conns /\ ~OverLimit(c) /\ bytes' = [bytes EXCEPT ![c] = @ + 1]
  <2>1. outbox[c] \in Seq(1..MaxRequests)
    BY <1>1 DEF OutTyped
  <2>2. Len(Append(outbox[c], n)) = Len(outbox[c]) + 1
    BY <2>1, AppendProperties
  <2>3. /\ outbox'[c] = Append(outbox[c], n) /\ bytes'[c] = bytes[c] + 1
        /\ \A d \in Conns \ {c} : outbox'[d] = outbox[d] /\ bytes'[d] = bytes[d]
    BY <1>1, <1>6 DEF Queues, OutTyped
  <2>4. bytes[c] + 1 <= MaxOutbox
    BY <1>1, <1>2, <1>6 DEF Queues, OverLimit
  <2>5. c \in Current
    BY <1>1, <1>6, Constants DEF Queues, Sendable, Open, Current, TableTyped
  <2>6. QED BY <1>2, <1>6, <2>2, <2>3, <2>4, <2>5 DEF Queues
<1>7. ASSUME \A d \in Conns : bytes'[d] = Len(outbox'[d]) /\ bytes'[d] <= bytes[d]
      PROVE  \A d \in Conns : bytes'[d] = Len(outbox'[d]) /\ bytes'[d] <= MaxOutbox
  <2>1. SUFFICES ASSUME NEW d \in Conns PROVE bytes'[d] <= MaxOutbox
    BY <1>7
  <2>2. bytes'[d] \in Nat /\ bytes'[d] <= bytes[d] /\ bytes[d] <= MaxOutbox /\ bytes[d] \in Nat
    BY <1>2, <1>7, OutStaysTyped DEF OutTyped
  <2>3. QED BY <1>1, <2>2
<1>8. QED BY <1>3, <1>4, <1>5, <1>6, <1>7, OutMoves

\* A connection that is not in the table has nothing queued: it has not been there, or was dropped.
LEMMA QueuedIsCurrent ==
  ASSUME Typed, LocalsSound, TableSound, LimitsSound, Next
  PROVE  \A c \in Conns : outbox'[c] # <<>> => c \in Current'
<1> SUFFICES ASSUME NEW c \in Conns, outbox'[c] # <<>>
             PROVE  c \in Current'
  OBVIOUS
<1>1. TableTyped /\ OutTyped
  BY DEF Typed
<1>2. CASE outbox[c] # <<>>
  <2>1. c \in Current /\ ~Emptied(c)
    BY <1>2 DEF LimitsSound, Emptied
  <2>2. QED BY <2>1, LeaversEmptied
<1>3. CASE outbox[c] = <<>>
  <2>1. \A d \in Conns : ~Drops(d) /\ ~Pops(d)
    BY <1>1, <1>3 DEF Drops, Pops, OutTyped
  <2>2. PICK d \in Conns, n \in 1..MaxRequests : Queues(d, n)
    BY <1>3, <2>1, OutMoves DEF Keeps
  <2>3. c = d
    BY <1>1, <1>3, <2>2 DEF Queues, OutTyped
  <2>4. c \in Current
    BY <1>1, <2>2, <2>3, Constants DEF Queues, Sendable, Open, Current, TableTyped
  <2>5. QED BY <2>2, <2>4 DEF Queues, Current
<1>4. QED BY <1>2, <1>3

LEMMA LimitsStep ==
  ASSUME Typed, LocalsSound, TableSound, LimitsSound, Next
  PROVE  LimitsSound'
<1>1. TableTyped /\ TableTyped' /\ OutTyped /\ OutTyped' /\ io \in IoTypes /\ main \in MainTypes
  BY TableStaysTyped, OutStaysTyped DEF Typed
<1>2. bytes \in [Conns -> Nat] /\ bytes' \in [Conns -> Nat] /\ Current \in SUBSET Conns /\ Current' \in SUBSET Conns
  BY <1>1 DEF OutTyped, TableTyped, Current
<1>3. MaxOutbox \in Nat /\ MaxTotal \in Nat /\ \A c \in Conns : bytes[c] <= MaxOutbox /\ bytes[c] = Len(outbox[c])
  BY Constants DEF LimitsSound
<1>4. Total(bytes, Current)' <= MaxTotal
  <2>1. Total(bytes, Current) \in Nat /\ Total(bytes, Current) <= MaxTotal
    BY <1>2, <1>3, UnitsFinite DEF LimitsSound
  <2>2. CASE \A c \in Conns : bytes'[c] <= bytes[c]
    <3>1. \A c \in Current' : bytes'[c] = 0 \/ (c \in Current /\ bytes'[c] <= bytes[c])
      <4>1. SUFFICES ASSUME NEW c \in Conns, c \notin Current
                     PROVE  bytes'[c] = 0
        BY <1>2, <2>2
      <4>2. outbox[c] = <<>>
        BY <4>1 DEF LimitsSound
      <4>3. bytes[c] = 0
        BY <1>3, <4>2
      <4>4. bytes'[c] \in Nat /\ bytes'[c] <= bytes[c]
        BY <1>2, <2>2
      <4>5. QED BY <4>3, <4>4
    <3>2. Total(bytes', Current') <= Total(bytes, Current)
      BY ONLY <1>2, <1>3, <3>1, TotalLess
    <3>3. Total(bytes', Current') \in Nat
      <4>1. \A c \in Conns : bytes'[c] <= MaxOutbox
        BY BytesStep
      <4>2. QED BY ONLY <1>2, <1>3, <4>1, UnitsFinite
    <3>4. QED BY <1>3, <2>1, <3>2, <3>3 DEF Total, Units
  <2>3. ASSUME NEW c \in Current, UNCHANGED conns, ~OverLimit(c), bytes' = [bytes EXCEPT ![c] = @ + 1]
        PROVE  Total(bytes, Current)' <= MaxTotal
    <3>1. Total(bytes, Current) + 1 <= MaxTotal
      BY <1>3, <2>1, <2>3 DEF OverLimit
    <3>2. Total([bytes EXCEPT ![c] = @ + 1], Current) = Total(bytes, Current) + 1
      BY <1>2, <1>3, TotalGrows
    <3>3. Current' = Current
      BY <2>3 DEF Current
    <3>4. QED BY <2>3, <3>1, <3>2, <3>3 DEF Total, Units
  <2>4. QED BY <2>2, <2>3, BytesStep
<1>5. (io.pc = "close" => Emptied(io.conn))'
  <2>1. CASE IoMark
    BY <1>1, <2>1 DEF IoMark, Mark, IoGo, IoTypes, Emptied, LocalsSound, OutTyped
  <2>2. CASE ~IoMark /\ io'.pc = "close"
    <3>1. UNCHANGED io
      BY <1>1, <2>2, IoGoes, WhoMovesIo DEF IoThread, IoTypes
    <3>2. PICK c \in Conns : c = io.conn
      BY <2>2, <3>1 DEF LocalsSound
    <3>3. Emptied(c)'
      BY <2>2, <3>1, <3>2, EmptiedStays DEF LimitsSound
    <3>4. QED BY <3>1, <3>2, <3>3 DEF Emptied
  <2>3. QED BY <2>1, <2>2
<1>6. (main.pc \in {"closeOne", "popOne"} => Emptied(main.entry[2]))'
  <2>1. CASE StopMark
    <3>1. PICK e \in main.todo : Mark(e[2]) /\ main' = [main EXCEPT !.pc = "closeOne", !.todo = @ \ {e}, !.entry = e]
      BY <2>1 DEF StopMark
    <3>2. e[2] \in Conns /\ main'.entry = e
      BY <1>1, <3>1 DEF MainTypes
    <3>3. QED BY <1>1, <3>1, <3>2 DEF Mark, Emptied, OutTyped
  <2>2. CASE ~StopMark /\ main'.pc \in {"closeOne", "popOne"}
    <3>1. main.pc \in {"closeOne", "popOne"} /\ main'.entry = main.entry
      <4>1. CASE StopClose
        BY <1>1, <2>2, <4>1 DEF StopClose, MainGo, MainTypes
      <4>2. CASE ~StopClose
        BY <2>2, <4>2, MainGoes, WhoMovesMain DEF Stopping
      <4>3. QED BY <4>1, <4>2
    <3>2. PICK c \in Conns : c = main.entry[2]
      BY <3>1 DEF LocalsSound
    <3>3. Emptied(c)'
      BY <3>1, <3>2, EmptiedStays DEF LimitsSound
    <3>4. QED BY <3>1, <3>2, <3>3 DEF Emptied
  <2>3. QED BY <2>1, <2>2
<1>7. QED
  BY <1>4, <1>5, <1>6, EntriesBounded, BytesStep, QueuedIsCurrent DEF LimitsSound

-------------------------------------------------------------------------------
(* The wake-up, the cancelled events and the verdict of stop(). *)

\* A byte that was under way arrives, and only the I/O thread takes it out.
LEMMA PipeMoves ==
  ASSUME Typed, LocalsSound, Next
  PROVE  /\ pipe /\ ~pipe' => IoDrainWake
         /\ (MainWake \/ StopWake) /\ piped => pipe'
<1>1. pipe \in BOOLEAN /\ pipe' \in BOOLEAN /\ wakePending = pipe
  BY RestStaysTyped DEF Typed, FlagsTyped, LocalsSound
<1>2. Wake => (pipe => pipe') /\ (piped => pipe')
  BY <1>1 DEF Wake, wake
<1>3. pipe /\ ~pipe' => IoDrainWake
  BY <1>2, WhoMovesFlags DEF IoBusyWake, IoAbort, MainWake, StopBegin, StopBy, StopWake, StopListener, StopVerdict, wake
<1>4. QED BY <1>2, <1>3 DEF MainWake, StopWake

\* Where the I/O thread goes on after a drop, it remembers until then.
LEMMA BackStays ==
  ASSUME Typed, Next, io'.pc \in {"mark", "close"}
  PROVE  \/ io.pc \in {"mark", "close"} /\ io'.back = io.back
         \/ io.pc = "drops"
         \/ io'.back # "drops"
<1>1. io \in IoTypes
  BY DEF Typed
<1> USE DEF IoGo, IoDrop, IoTypes
<1>2. CASE IoMark
  BY <1>1, <1>2 DEF IoMark
<1>3. CASE IoSend
  BY <1>1, <1>3 DEF IoSend, FlushDone
<1>4. CASE IoRead
  <2>1. CASE io' = IoAt("loop")
    BY <2>1, <1>4, IoGoes DEF IoAt
  <2>2. ASSUME NEW c \in io.r, \/ io' = ReadDone(c)
                               \/ io' = [ReadDone(c) EXCEPT !.pc = "mark", !.conn = c, !.back = "read"]
                               \/ io' = [ReadDone(c) EXCEPT !.pc = "busy", !.conn = c, !.head = received[c] + 1]
        PROVE  io'.back # "drops"
    <3>1. PICK x : x = ReadDone(c)
      OBVIOUS
    <3>2. DOMAIN x = DOMAIN io /\ x.pc = "read"
      BY <1>1, <1>4, <3>1 DEF ReadDone, IoRead
    <3>3. io' = [x EXCEPT !.pc = "mark", !.conn = c, !.back = "read"]
      BY <1>1, <2>2, <3>1, <3>2
    <3>4. QED BY <1>1, <3>2, <3>3
  <2>3. QED BY <1>4, <2>1, <2>2 DEF IoRead
<1>5. CASE UNCHANGED io
  BY <1>5
<1>6. CASE IoDropClosing
  BY <1>6 DEF IoDropClosing
<1>7. QED
  BY <1>1, <1>2, <1>3, <1>4, <1>5, <1>6, IoGoes, WhoMovesIo DEF IoThread

StopAnnounced ==
    stopped /\ piped /\ main.pc # "stopWake" /\ ~pipe =>
      io.pc \notin Looking /\ ~(io.pc \in {"mark", "close"} /\ io.back = "drops")

LEMMA StopAnnouncedStep ==
  ASSUME Typed, LocalsSound, StopAnnounced, Next
  PROVE  StopAnnounced'
<1> SUFFICES ASSUME stopped', piped', main'.pc # "stopWake", ~pipe'
             PROVE  io'.pc \notin Looking /\ ~(io'.pc \in {"mark", "close"} /\ io'.back = "drops")
  BY DEF StopAnnounced
<1>1. io \in IoTypes /\ FlagsTyped
  BY DEF Typed
<1>2. piped
  BY WhoMovesFlags DEF IoDrainWake, IoBusyWake, IoAbort, MainWake, StopBegin, StopBy, StopWake, StopListener, StopVerdict, ends
<1>3. CASE ~stopped
  <2>1. IoAbort
    BY <1>3, MainGoes, WhoMovesFlags DEF IoDrainWake, IoBusyWake, MainWake, StopBegin, StopBy, StopWake, StopListener, StopVerdict, ends
  <2>2. QED BY <2>1, IoGoes DEF Looking
<1>4. CASE main.pc = "stopWake"
  <2>1. StopWake
    BY <1>4, MainGoes, WhoMovesMain DEF Stopping
  <2>2. QED BY <1>2, <2>1, PipeMoves
<1>5. CASE pipe
  BY <1>5, PipeMoves, IoGoes DEF Looking
<1>6. CASE stopped /\ main.pc # "stopWake" /\ ~pipe
  <2>1. io.pc \notin Looking /\ ~(io.pc \in {"mark", "close"} /\ io.back = "drops")
    BY <1>2, <1>6 DEF StopAnnounced
  <2>2. CASE IoLoop
    BY <1>6, <2>2 DEF IoLoop, IoAt, Looking
  <2>3. ~(io'.pc \in {"mark", "close"} /\ io'.back = "drops")
    BY <2>1, BackStays DEF Looking
  <2>4. CASE ~IoLoop
    BY <1>1, <2>1, <2>3, <2>4, IoGoes, WhoMovesIo DEF IoThread, Looking, IoTypes
  <2>5. QED BY <2>2, <2>3, <2>4, IoGoes DEF Looking
<1>7. QED BY <1>1, <1>3, <1>4, <1>5, <1>6 DEF FlagsTyped

\* While the session runs, what the I/O thread did not register is announced.
Announced ==
    io.pc = "select" /\ ~pipe /\ ~stopped =>
      \A c \in io.snap : c \in closing \/ (outbox[c] # <<>> /\ c \notin io.want) => main.pc = "wake"

LEMMA AnnouncedStep ==
  ASSUME Typed, LocalsSound, Announced, Next
  PROVE  Announced'
<1> SUFFICES ASSUME io'.pc = "select", ~pipe', ~stopped'
             PROVE  \A c \in io'.snap : c \in closing' \/ (outbox'[c] # <<>> /\ c \notin io'.want) => main'.pc = "wake"
  BY DEF Announced
<1>1. io \in IoTypes /\ main \in MainTypes /\ TableTyped /\ OutTyped
  BY DEF Typed
<1>2. ~stopped /\ piped /\ main.pc \in {"run", "reply", "wake"}
  BY FlagsStep
<1>3. CASE IoRegister
  <2>1. /\ io'.snap = Current \ closing /\ io'.want = {c \in Current \ closing : outbox[c] # <<>>}
        /\ UNCHANGED <<closing, outbox>>
    BY <1>1, <1>3 DEF IoRegister, IoTypes, table, out
  <2>2. QED BY <2>1
<1>4. CASE UNCHANGED io
  <2>1. ~IoDrainWake
    BY <1>4, IoGoes
  <2>2. ~pipe
    BY <2>1, PipeMoves
  <2>3. main.pc = "wake" => main'.pc = "wake"
    BY <1>2, MainGoes, WhoMovesMain, PipeMoves DEF Stopping
  <2>4. CASE MainSend
    <3>1. CASE Sendable(main.reply[1])
      BY <1>1, <2>4, <3>1 DEF MainSend, MainGo, MainTypes
    <3>2. CASE ~Sendable(main.reply[1])
      BY <1>4, <2>2, <2>3, <1>2, <2>4, <3>2 DEF MainSend, Announced
    <3>3. QED BY <3>1, <3>2
  <2>5. CASE UNCHANGED <<closing, outbox>>
    BY <1>2, <1>4, <2>2, <2>3, <2>5 DEF Announced
  <2>6. ~IoMark /\ ~IoPop /\ ~IoBusy /\ ~StopMark
    BY <1>2, <1>4, IoGoes, MainGoes
  <2>7. QED BY <2>4, <2>5, <2>6, WhoMovesMarks
<1>5. QED BY <1>1, <1>3, <1>4, IoGoes, WhoMovesIo DEF IoThread, IoTypes

\* A socket of a working session is closed by the I/O thread, after the event of its connection is set.
LEMMA DeadMeansCancelledStep ==
  ASSUME Typed, LocalsSound, TableSound, WorkSound, DeadMeansCancelled, Next
  PROVE  DeadMeansCancelled'
<1>1. TableTyped /\ WorkTyped /\ WorkTyped' /\ io \in IoTypes /\ MaxRequests \in Nat
  BY Constants, RestStaysTyped DEF Typed
<1>2. SUFFICES ASSUME ~stopped', NEW c \in Conns, NEW n \in 1..MaxRequests, <<c, n>> \in queue', fd'[c] = None
               PROVE  c \in cancelled'
  BY <1>1 DEF DeadMeansCancelled, Open, WorkTyped, Requests
<1>3. ~stopped /\ main.pc \in {"run", "reply", "wake"}
  BY <1>2, FlagsStep
<1>4. cancelled \subseteq cancelled'
  BY WhoMovesMarks DEF IoMark, IoPop, IoBusy, MainSend, StopMark, table
<1>5. CASE <<c, n>> \notin queue
  <2>1. IoRead
    BY <1>2, <1>5, WhoMovesWork DEF MainServe, MainSend, MainWake, StopDrain
  <2>2. fd' = fd /\ \E d \in io.r : fd[d] # None /\ queue' = queue \cup {<<d, received[d] + 1>>}
    BY <1>2, <1>5, <2>1 DEF IoRead, work, table, Open
  <2>3. QED BY <1>2, <1>5, <2>2
<1>6. CASE <<c, n>> \in queue /\ fd[c] = None
  <2>1. c \in cancelled
    BY <1>3, <1>6 DEF DeadMeansCancelled, Open
  <2>2. QED BY <1>4, <2>1
<1>7. CASE <<c, n>> \in queue /\ fd[c] # None
  <2>1. Settled(c)
    BY <1>7 DEF WorkSound
  <2>2. CASE IoClose
    <3>1. c = io.conn
      BY <1>1, <1>2, <1>7, <2>2 DEF IoClose, TableTyped
    <3>2. QED BY <1>4, <2>2, <3>1 DEF IoClose, WorkSound
  <2>3. ~IoRetry
    BY <1>1, <1>2, <1>7, <2>1 DEF IoRetry, RetryPendingCloses, Settled, TableTyped
  <2>4. ~IoAccept
    BY <1>1, <1>2, <1>7, <2>1, Constants DEF IoAccept, Settled, TableTyped, FreeFds
  <2>5. ~IoInsert
    BY <1>1, <1>2, <1>7, <2>1 DEF IoInsert, Settled, TableTyped
  <2>6. ~StopClose /\ ~StopPop /\ ~StopRetry
    BY <1>3, MainGoes
  <2>7. QED BY <1>2, <1>7, <2>2, <2>3, <2>4, <2>5, <2>6, WhoMovesTable
<1>8. QED BY <1>5, <1>6, <1>7

LEMMA WakeStep ==
  ASSUME Typed, LocalsSound, TableSound, WorkSound, WakeSound, Next
  PROVE  WakeSound'
<1>1. StopAnnounced /\ Announced /\ DeadMeansCancelled
  BY DEF WakeSound, Handover, NoLostWake, StopAnnounced, Announced
<1>2. StopAnnounced' /\ Announced' /\ DeadMeansCancelled'
  BY <1>1, StopAnnouncedStep, AnnouncedStep, DeadMeansCancelledStep
<1>3. QED BY <1>2 DEF WakeSound, Handover, NoLostWake, StopAnnounced, Announced, Looking

\* When stop() reports success, every place a socket can be in has been looked at.
LEMMA CompleteStep ==
  ASSUME Typed, LocalsSound, TableSound, WorkSound, CompleteMeansDown, Next
  PROVE  CompleteMeansDown'
<1>1. TableTyped /\ FlagsTyped /\ io \in IoTypes
  BY DEF Typed
<1>2. CASE StopVerdict
  <2>1. SUFFICES ASSUME complete' PROVE CompleteMeansDown'
    BY DEF CompleteMeansDown
  <2>2. /\ main.pc = "verdict" /\ ~main.failed /\ ~listening /\ ~piped /\ Current = {} /\ pendingClose = {}
        /\ io.pc = "exited" /\ UNCHANGED <<table, out, wake, ends, work, io>>
    BY <1>2, <2>1 DEF StopVerdict, TransportClosed
  <2>3. queue = {}
    BY <2>2 DEF WorkSound
  <2>4. \A c \in Conns : fd[c] = None
    <3>1. SUFFICES ASSUME NEW c \in Conns, fd[c] # None PROVE FALSE
      OBVIOUS
    <3>2. fd[c] \in Fds /\ conns[fd[c]] = c
      BY <1>1, <2>2, <3>1 DEF TableSound, SocketsTracked, Open, TableTyped
    <3>3. c \in Current
      BY <3>2, Constants DEF Current
    <3>4. QED BY <2>2, <3>3
  <2>5. QED BY <2>2, <2>3, <2>4 DEF CompleteMeansDown, Open, table, ends, work
<1>3. CASE complete
  <2>1. main.pc = "run" /\ io.pc = "exited" /\ queue = {}
    BY <1>3 DEF WorkSound, CompleteMeansDown
  <2>2. ~IoThread
    BY <2>1, IoGoes DEF IoThread
  <2>3. ~MainServe /\ ~MainSend /\ ~MainWake /\ ~StopBegin /\ ~Stopping
    BY <1>3, <2>1, MainGoes DEF MainServe, StopBegin, StopBy, Stopping
  <2>4. UNCHANGED vars
    BY <2>2, <2>3 DEF Next, Done
  <2>5. QED BY <2>4 DEF vars, CompleteMeansDown, Open, table, ends, work
<1>4. CASE ~complete /\ ~StopVerdict
  <2>1. complete' = complete
    BY <1>4, WhoMovesFlags DEF IoDrainWake, IoBusyWake, IoAbort, MainWake, StopBegin, StopBy, StopWake, StopListener
  <2>2. QED BY <1>4, <2>1 DEF CompleteMeansDown
<1>5. QED BY <1>2, <1>3, <1>4

-------------------------------------------------------------------------------
(* The frames of one connection. *)

Byte(w) == w \in Seq((1..MaxRequests) \X (1..2))

\* The connection dies, more is asked of it, or its first frame is taken in hand or put down.
LEMMA FramesStay ==
  ASSUME NEW w, NEW o, NEW off, NEW dead \in BOOLEAN, NEW sent \in BOOLEAN, NEW head, NEW n \in Nat,
         Frames(w, o, off, dead, sent, head, n), o \in Seq(1..MaxRequests), Byte(w),
         NEW dead2 \in BOOLEAN, dead => dead2, NEW n2 \in Nat, n <= n2,
         NEW h2, h2 = 0 \/ h2 = head \/ (o # <<>> /\ h2 = o[1]), sent => h2 = head
  PROVE  Frames(w, o, off, dead2, sent, h2, n2)
<1>1. Whole(w) /\ Cut(w, o, off, dead2, sent) /\ InHand(w, o, sent, h2) /\ Apart(w, o, sent)
  BY DEF Frames, Cut, InHand
<1>2. Asked(w, o, n2)
  <2>1. ASSUME NEW i \in 1..Len(o) PROVE o[i] <= n2
    <3>1. o[i] \in 1..MaxRequests
      BY ElementOfSeq
    <3>2. o[i] <= n
      BY DEF Frames, Asked
    <3>3. QED BY <3>1, <3>2
  <2>2. ASSUME NEW j \in 1..Len(w) PROVE w[j][1] <= n2
    <3>1. w[j][1] \in Nat /\ w[j][1] <= n
      BY DEF Frames, Asked, Byte
    <3>2. QED BY <3>1
  <2>3. QED BY <2>1, <2>2 DEF Asked
<1>3. QED BY <1>1, <1>2 DEF Frames

\* A frame that is neither queued nor sent is queued, for a connection that is not dead.
LEMMA FramesQueue ==
  ASSUME NEW w, NEW o, NEW off, NEW sent \in BOOLEAN, NEW head, NEW n \in Nat,
         Frames(w, o, off, FALSE, sent, head, n), o \in Seq(1..MaxRequests), Byte(w),
         NEW r \in 1..MaxRequests, Absent(w, o, r), r <= n
  PROVE  Frames(w, Append(o, r), off, FALSE, sent, head, n)
<1> DEFINE p == Append(o, r)
<1>1. /\ Len(o) \in Nat /\ Len(p) = Len(o) + 1 /\ p[Len(p)] = r /\ \A i \in 1..Len(o) : p[i] = o[i]
      /\ p # <<>>
  BY AppendProperties
<1>2. o # <<>> => Len(o) > 0 /\ p[1] = o[1]
  BY <1>1
<1> HIDE DEF p
<1>3. \A i \in 1..Len(p) : (i \in 1..Len(o) /\ p[i] = o[i]) \/ (i = Len(p) /\ p[i] = r)
  BY <1>1
<1>4. Cut(w, p, off, FALSE, sent) /\ InHand(w, p, sent, head)
  BY <1>1, <1>2 DEF Frames, Cut, InHand
<1>5. Apart(w, p, sent)
  <2>1. ASSUME NEW i \in 1..Len(p), NEW j \in 1..Len(p), p[i] = p[j] PROVE i = j
    BY <1>3, <2>1 DEF Frames, Apart, Absent
  <2>2. ASSUME NEW i \in 1..Len(p), NEW j \in 1..Len(w), p[i] = w[j][1]
        PROVE  i = 1 /\ IF sent THEN j >= Len(w) - 1 ELSE Len(w) % 2 = 1 /\ j = Len(w)
    BY <1>3, <2>2 DEF Frames, Apart, Absent
  <2>3. QED BY <2>1, <2>2 DEF Apart
<1>6. Asked(w, p, n)
  BY <1>3 DEF Frames, Asked
<1>7. QED BY <1>4, <1>5, <1>6 DEF Frames, p

\* A connection is dropped.
LEMMA FramesDrop ==
  ASSUME NEW w, NEW o, NEW off, NEW dead \in BOOLEAN, NEW head, NEW n \in Nat, Frames(w, o, off, dead, FALSE, head, n)
  PROVE  Frames(w, <<>>, 0, TRUE, FALSE, 0, n)
<1>1. Len(<<>>) = 0 /\ \A i \in 1..0 : FALSE
  OBVIOUS
<1>2. QED BY <1>1 DEF Frames, Cut, InHand, Apart, Asked

\* The frame that is at the head and was sent whole is popped.
LEMMA FramesPop ==
  ASSUME NEW w, NEW o, NEW off, NEW dead \in BOOLEAN, NEW head, NEW n \in Nat, Frames(w, o, off, dead, TRUE, head, n),
         o \in Seq(1..MaxRequests), o # <<>>
  PROVE  Frames(w, Tail(o), 0, dead, FALSE, 0, n)
<1> DEFINE p == Tail(o)
<1>1. Len(o) \in Nat /\ Len(o) > 0 /\ Len(p) = Len(o) - 1 /\ \A i \in 1..Len(p) : p[i] = o[i + 1] /\ i + 1 \in 1..Len(o)
  BY HeadTailProperties
<1> HIDE DEF p
<1>2. Whole(w) /\ Cut(w, p, 0, dead, FALSE) /\ InHand(w, p, FALSE, 0)
  BY DEF Frames, Cut, InHand
<1>3. Apart(w, p, FALSE)
  <2>1. ASSUME NEW i \in 1..Len(p), NEW j \in 1..Len(p), p[i] = p[j] PROVE i = j
    <3>1. o[i + 1] = o[j + 1] /\ i + 1 \in 1..Len(o) /\ j + 1 \in 1..Len(o)
      BY <1>1, <2>1
    <3>2. i + 1 = j + 1
      BY <3>1 DEF Frames, Apart
    <3>3. QED BY <1>1, <3>2
  <2>2. ASSUME NEW i \in 1..Len(p), NEW j \in 1..Len(w) PROVE p[i] # w[j][1]
    <3>1. o[i + 1] = w[j][1] => i + 1 = 1
      BY <1>1 DEF Frames, Apart
    <3>2. QED BY <1>1, <3>1
  <2>3. QED BY <2>1, <2>2 DEF Apart
<1>4. Asked(w, p, n)
  BY <1>1 DEF Frames, Asked
<1>5. QED BY <1>2, <1>3, <1>4 DEF Frames, p

\* One half of a whole frame is sent.
LEMMA FramesHalf ==
  ASSUME NEW w, NEW o, NEW dead \in BOOLEAN, NEW head \in 1..MaxRequests, NEW n \in Nat,
         Frames(w, o, 0, dead, FALSE, head, n), o \in Seq(1..MaxRequests), Byte(w)
  PROVE  Frames(Append(w, <<head, 1>>), o, 1, dead, FALSE, 0, n)
<1> DEFINE v == Append(w, <<head, 1>>)
<1>1. Len(w) \in Nat /\ Len(v) = Len(w) + 1 /\ v[Len(v)] = <<head, 1>> /\ \A i \in 1..Len(w) : v[i] = w[i]
  BY AppendProperties DEF Byte
<1>2. o # <<>> /\ o[1] = head /\ Len(o) \in Nat /\ Len(o) > 0
  BY DEF Frames, InHand
<1>3. Len(w) % 2 = 0 /\ Len(v) % 2 = 1
  BY <1>1, <1>2 DEF Frames, Cut
<1>4. \A j \in 1..Len(w) : w[j][1] # head
  <2>1. SUFFICES ASSUME NEW j \in 1..Len(w), w[j][1] = o[1] PROVE FALSE
    BY <1>2
  <2>2. Len(w) % 2 = 1
    BY <1>2, <2>1 DEF Frames, Apart
  <2>3. QED BY <1>3, <2>2
<1> HIDE DEF v
<1>5. \A i \in 1..Len(v) : (i \in 1..Len(w) /\ v[i] = w[i]) \/ (i = Len(v) /\ i = Len(w) + 1 /\ v[i] = <<head, 1>>)
  BY <1>1
<1>6. Whole(v)
  <2>1. ASSUME NEW i \in 1..Len(v) PROVE v[i][2] = (IF i % 2 = 1 THEN 1 ELSE 2)
    BY <1>3, <1>5 DEF Frames, Whole
  <2>2. ASSUME NEW i \in 1..Len(v), i % 2 = 0 PROVE v[i][1] = v[i - 1][1]
    <3>1. i \in 1..Len(w)
      BY <1>3, <1>5, <2>2
    <3>2. w[i][1] = w[i - 1][1]
      BY <2>2, <3>1 DEF Frames, Whole
    <3>3. i - 1 \in 1..Len(w)
      BY <1>1, <2>2, <3>1
    <3>4. QED BY <1>1, <3>1, <3>2, <3>3
  <2>3. ASSUME NEW i \in 1..Len(v), NEW j \in 1..Len(v), v[i] = v[j] PROVE i = j
    <3>1. CASE i \in 1..Len(w) /\ j \in 1..Len(w)
      BY <1>1, <2>3, <3>1 DEF Frames, Whole
    <3>2. CASE i = Len(v) /\ j = Len(v)
      BY <3>2
    <3>3. \A k \in 1..Len(w) : v[k] # <<head, 1>>
      BY <1>1, <1>4
    <3>4. QED BY <1>5, <2>3, <3>1, <3>2, <3>3
  <2>4. QED BY <2>1, <2>2, <2>3 DEF Whole
<1>7. Cut(v, o, 1, dead, FALSE) /\ InHand(v, o, FALSE, 0)
  BY <1>1, <1>2, <1>3 DEF Cut, InHand
<1>8. Apart(v, o, FALSE)
  <2>1. ASSUME NEW i \in 1..Len(o), NEW j \in 1..Len(v), o[i] = v[j][1] PROVE i = 1 /\ j = Len(v)
    <3>1. CASE j \in 1..Len(w)
      <4>1. Len(w) % 2 = 1
        BY <1>1, <2>1, <3>1 DEF Frames, Apart
      <4>2. QED BY <1>3, <4>1
    <3>2. CASE j = Len(v) /\ v[j] = <<head, 1>>
      <4>1. o[i] = o[1] /\ 1 \in 1..Len(o)
        BY <1>2, <2>1, <3>2
      <4>2. QED BY <3>2, <4>1 DEF Frames, Apart
    <3>3. QED BY <1>5, <3>1, <3>2
  <2>2. QED BY <1>3, <2>1 DEF Frames, Apart
<1>9. Asked(v, o, n)
  <2>1. head <= n
    BY <1>2 DEF Frames, Asked
  <2>2. QED BY <1>5, <2>1 DEF Frames, Asked
<1>10. QED BY <1>6, <1>7, <1>8, <1>9 DEF Frames, v

\* The rest of a frame is sent: the second half of one that is cut, or both halves.
LEMMA FramesRest ==
  ASSUME NEW w, NEW o, NEW dead \in BOOLEAN, NEW head \in 1..MaxRequests, NEW n \in Nat,
         Frames(w, o, 1, dead, FALSE, head, n), o \in Seq(1..MaxRequests), Byte(w)
  PROVE  Frames(Append(w, <<head, 2>>), o, 1, dead, TRUE, head, n)
<1> DEFINE v == Append(w, <<head, 2>>)
<1>1. Len(w) \in Nat /\ Len(v) = Len(w) + 1 /\ v[Len(v)] = <<head, 2>> /\ \A i \in 1..Len(w) : v[i] = w[i]
  BY AppendProperties DEF Byte
<1>2. o # <<>> /\ o[1] = head /\ Len(o) \in Nat /\ Len(o) > 0
  BY DEF Frames, InHand
<1>3. Len(w) % 2 = 1 /\ Len(v) % 2 = 0 /\ w[Len(w)][1] = head /\ v # <<>>
  <2>1. Len(w) % 2 = 1 /\ w[Len(w)][1] = head
    BY <1>2 DEF Frames, Cut
  <2>2. (Len(w) + 1) % 2 = 0
    BY <1>1, <2>1
  <2> HIDE DEF v
  <2>3. v # <<>>
    BY <1>1
  <2>4. QED BY <1>1, <2>1, <2>2, <2>3
<1>4. \A j \in 1..Len(w) : w[j][1] = head => j = Len(w)
  <2>1. SUFFICES ASSUME NEW j \in 1..Len(w), w[j][1] = o[1] PROVE j = Len(w)
    BY <1>2
  <2>2. QED BY <1>2, <2>1 DEF Frames, Apart
<1> HIDE DEF v
<1>5. \A i \in 1..Len(v) : (i \in 1..Len(w) /\ v[i] = w[i]) \/ (i = Len(v) /\ i = Len(w) + 1 /\ v[i] = <<head, 2>>)
  BY <1>1
<1>6. Whole(v)
  <2>1. ASSUME NEW i \in 1..Len(v) PROVE v[i][2] = (IF i % 2 = 1 THEN 1 ELSE 2)
    BY <1>3, <1>5 DEF Frames, Whole
  <2>2. ASSUME NEW i \in 1..Len(v), i % 2 = 0 PROVE v[i][1] = v[i - 1][1]
    <3>1. CASE i \in 1..Len(w)
      <4>1. w[i][1] = w[i - 1][1]
        BY <2>2, <3>1 DEF Frames, Whole
      <4>2. i - 1 \in 1..Len(w)
        BY <1>1, <2>2, <3>1
      <4>3. QED BY <1>1, <3>1, <4>1, <4>2
    <3>2. CASE i = Len(w) + 1 /\ v[i] = <<head, 2>>
      <4>1. i - 1 = Len(w) /\ Len(w) \in 1..Len(w)
        BY <1>1, <1>3, <3>2
      <4>2. QED BY <1>1, <1>3, <3>2, <4>1
    <3>3. QED BY <1>5, <3>1, <3>2
  <2>3. ASSUME NEW i \in 1..Len(v), NEW j \in 1..Len(v), v[i] = v[j] PROVE i = j
    <3>1. CASE i \in 1..Len(w) /\ j \in 1..Len(w)
      BY <1>1, <2>3, <3>1 DEF Frames, Whole
    <3>2. CASE i = Len(v) /\ j = Len(v)
      BY <3>2
    <3>3. \A k \in 1..Len(w) : v[k] # <<head, 2>>
      <4>1. SUFFICES ASSUME NEW k \in 1..Len(w), w[k] = <<head, 2>> PROVE FALSE
        BY <1>1
      <4>2. k = Len(w)
        BY <1>4, <4>1
      <4>3. w[k][2] = 1
        BY <1>3, <4>2 DEF Frames, Whole
      <4>4. QED BY <4>1, <4>3
    <3>4. QED BY <1>5, <2>3, <3>1, <3>2, <3>3
  <2>4. QED BY <2>1, <2>2, <2>3 DEF Whole
<1>7. Cut(v, o, 1, dead, TRUE) /\ InHand(v, o, TRUE, head)
  BY <1>1, <1>2, <1>3 DEF Cut, InHand
<1>8. Apart(v, o, TRUE)
  <2>1. ASSUME NEW i \in 1..Len(o), NEW j \in 1..Len(v), o[i] = v[j][1] PROVE i = 1 /\ j >= Len(v) - 1
    <3>1. CASE j \in 1..Len(w)
      <4>1. i = 1 /\ j = Len(w)
        BY <1>1, <2>1, <3>1 DEF Frames, Apart
      <4>2. QED BY <1>1, <4>1
    <3>2. CASE j = Len(v) /\ v[j] = <<head, 2>>
      <4>1. o[i] = o[1] /\ 1 \in 1..Len(o)
        BY <1>2, <2>1, <3>2
      <4>2. i = 1
        BY <4>1 DEF Frames, Apart
      <4>3. QED BY <1>1, <3>2, <4>2
    <3>3. QED BY <1>5, <3>1, <3>2
  <2>2. QED BY <2>1 DEF Frames, Apart
<1>9. Asked(v, o, n)
  <2>1. head <= n
    BY <1>2 DEF Frames, Asked
  <2>2. QED BY <1>5, <2>1 DEF Frames, Asked
<1>10. QED BY <1>6, <1>7, <1>8, <1>9 DEF Frames, v

-------------------------------------------------------------------------------
(* The frames of all connections, until stop() begins. *)

\* The types of what Frames is stated on.
LEMMA FramesTyped ==
  ASSUME Typed, NEW d \in Conns
  PROVE  /\ wire[d] \in Seq((1..MaxRequests) \X (1..2)) /\ outbox[d] \in Seq(1..MaxRequests)
         /\ offset[d] \in 0..1 /\ received[d] \in Nat /\ Byte(wire[d])
BY Constants DEF Typed, OutTyped, WorkTyped, Byte

\* A connection the step leaves alone, or whose frame it takes in hand or puts down.
LEMMA WireKept ==
  ASSUME Typed, Typed', NEW d \in Conns, WireSound(d),
         wire'[d] = wire[d], outbox'[d] = outbox[d], offset'[d] = offset[d],
         d \in closing => d \in closing', received[d] <= received'[d], Sent(d)' <=> Sent(d),
         InHandOf(d)' = 0 \/ InHandOf(d)' = InHandOf(d) \/ (outbox[d] # <<>> /\ InHandOf(d)' = outbox[d][1]),
         Sent(d) => InHandOf(d)' = InHandOf(d)
  PROVE  WireSound(d)'
<1>1. /\ outbox[d] \in Seq(1..MaxRequests) /\ received[d] \in Nat /\ received'[d] \in Nat /\ Byte(wire[d])
  BY FramesTyped, Constants DEF Typed, WorkTyped
<1>2. PICK dead \in BOOLEAN : dead <=> d \in closing
  <2>1. CASE d \in closing
    BY <2>1
  <2>2. CASE d \notin closing
    BY <2>2
  <2>3. QED BY <2>1, <2>2
<1>3. PICK dead2 \in BOOLEAN : dead2 <=> d \in closing'
  <2>1. CASE d \in closing'
    BY <2>1
  <2>2. CASE d \notin closing'
    BY <2>2
  <2>3. QED BY <2>1, <2>2
<1>4. PICK sent \in BOOLEAN : sent = Sent(d)
  BY DEF Sent
<1>5. Frames(wire[d], outbox[d], offset[d], dead, sent, InHandOf(d), received[d])
  BY <1>2, <1>4 DEF WireSound
<1>6. sent = Sent(d)'
  BY <1>4 DEF Sent
<1>7. Frames(wire[d], outbox[d], offset[d], dead2, sent, InHandOf(d)', received'[d])
  BY <1>1, <1>2, <1>3, <1>4, <1>5, FramesStay
<1>8. QED BY <1>3, <1>6, <1>7 DEF WireSound

\* What the I/O thread has in hand changes in its send loop only.
LEMMA HandStays ==
  ASSUME Typed, Next, ~IoFlush, ~IoSend, ~IoPop, NEW d \in Conns
  PROVE  (Sent(d)' <=> Sent(d)) /\ InHandOf(d)' = InHandOf(d)
<1>1. io.back \notin {"sending", "sent"}
  BY DEF Typed, IoTypes
<1>2. io' = io \/ (io.pc \notin {"sending", "sent"} /\ io'.pc \notin {"sending", "sent"})
  BY <1>1, IoGoes, WhoMovesIo DEF IoThread
<1>3. QED BY <1>2 DEF Sent, InHandOf

\* The send loop takes the head of an outbox in hand, and keeps it until it is sent or put down.
LEMMA FlushStep ==
  ASSUME Typed, Typed', NEW d \in Conns, WireSound(d), IoFlush
  PROVE  WireSound(d)'
<1>1. /\ io \in IoTypes /\ io.pc = "flush" /\ UNCHANGED <<wire, outbox, offset, closing, received>>
  BY DEF Typed, IoFlush, table, out, work
<1>2. received'[d] = received[d] /\ received[d] \in Nat /\ outbox[d] \in Seq(1..MaxRequests)
  BY <1>1, FramesTyped
<1>3. ~Sent(d) /\ InHandOf(d) = 0
  BY <1>1 DEF Sent, InHandOf
<1>4. CASE io'.pc # "sending"
  <2>1. ~Sent(d)' /\ InHandOf(d)' = 0
    BY <1>4, IoGoes DEF Sent, InHandOf
  <2>2. QED BY <1>1, <1>2, <1>3, <2>1, WireKept
<1>5. CASE io'.pc = "sending"
  <2>1. PICK c \in io.w : outbox[c] # <<>> /\ io' = [io EXCEPT !.pc = "sending", !.conn = c, !.head = Head(outbox[c])]
    BY <1>1, <1>5 DEF IoFlush, IoAt, IoTypes
  <2>2. ~Sent(d)'
    BY <1>5 DEF Sent
  <2>3. io'.conn = c /\ io'.head = Head(outbox[c])
    BY <1>1, <2>1 DEF IoTypes
  <2>4. InHandOf(d)' = IF c = d THEN outbox[d][1] ELSE 0
    BY <1>2, <1>5, <2>1, <2>3 DEF InHandOf
  <2>5. QED BY <1>1, <1>2, <1>3, <2>1, <2>2, <2>4, WireKept
<1>6. QED BY <1>4, <1>5

\* WireSound with the two conditions named.
LEMMA WireHas ==
  ASSUME NEW d, WireSound(d), NEW dead \in BOOLEAN, dead <=> d \in closing, NEW sent \in BOOLEAN, sent <=> Sent(d)
  PROVE  Frames(wire[d], outbox[d], offset[d], dead, sent, InHandOf(d), received[d])
<1>1. dead = (d \in closing) /\ sent = Sent(d)
  BY DEF Sent
<1>2. QED BY <1>1 DEF WireSound

LEMMA WireIs ==
  ASSUME NEW d, NEW dead \in BOOLEAN, dead <=> d \in closing', NEW sent \in BOOLEAN, sent <=> Sent(d)',
         Frames(wire'[d], outbox'[d], offset'[d], dead, sent, InHandOf(d)', received'[d])
  PROVE  WireSound(d)'
<1>1. dead = (d \in closing') /\ sent = Sent(d)'
  BY DEF Sent
<1>2. QED BY <1>1 DEF WireSound

\* A send that takes the rest of a frame, from its first half or from its second.
LEMMA RestSent ==
  ASSUME NEW w, NEW o, NEW off \in 0..1, NEW dead \in BOOLEAN, NEW head \in 1..MaxRequests, NEW n \in Nat,
         Frames(w, o, off, dead, FALSE, head, n), o \in Seq(1..MaxRequests), Byte(w)
  PROVE  Frames(w \o [i \in 1..(2 - off) |-> <<head, off + i>>], o, off, dead, TRUE, head, n)
<1>1. o # <<>> /\ o[1] = head
  BY DEF Frames, InHand
<1>2. CASE off = 1
  <2>1. [i \in 1..(2 - off) |-> <<head, off + i>>] = <<<<head, 2>>>>
    BY <1>2
  <2>2. w \o <<<<head, 2>>>> = Append(w, <<head, 2>>)
    BY DEF Byte
  <2>3. Frames(Append(w, <<head, 2>>), o, 1, dead, TRUE, head, n)
    BY <1>2, FramesRest
  <2>4. QED BY <1>2, <2>1, <2>2, <2>3
<1>3. CASE off = 0
  <2> DEFINE w1 == Append(w, <<head, 1>>)
             w2 == Append(w1, <<head, 2>>)
             rest == [i \in 1..2 |-> <<head, i>>]
  <2>1. [i \in 1..(2 - off) |-> <<head, off + i>>] = rest
    BY <1>3
  <2>2. Byte(w1)
    BY Constants DEF Byte
  <2>3. Frames(w1, o, 1, dead, FALSE, 0, n)
    BY <1>3, FramesHalf
  <2>4. Frames(w1, o, 1, dead, FALSE, head, n)
    <3> HIDE DEF w1
    <3>1. QED BY <1>1, <2>3 DEF Frames, InHand
  <2>5. Frames(w2, o, 1, dead, TRUE, head, n)
    <3> HIDE DEF w1
    <3>1. QED BY <2>2, <2>4, FramesRest
  <2>6. Frames(w2, o, 0, dead, TRUE, head, n)
    BY <2>5 DEF Frames, Cut, InHand
  <2>7. w \o rest = w2
    <3>1. rest \in Seq((1..MaxRequests) \X (1..2)) /\ Len(rest) = 2 /\ rest[1] = <<head, 1>> /\ rest[2] = <<head, 2>>
      OBVIOUS
    <3>2. w2 \in Seq((1..MaxRequests) \X (1..2)) /\ w \o rest \in Seq((1..MaxRequests) \X (1..2))
      BY <2>2, <3>1 DEF Byte
    <3>3. /\ Len(w2) = Len(w) + 2 /\ Len(w \o rest) = Len(w) + 2 /\ Len(w) \in Nat
          /\ \A i \in 1..Len(w) : w2[i] = w[i] /\ (w \o rest)[i] = w[i]
          /\ w2[Len(w) + 1] = <<head, 1>> /\ w2[Len(w) + 2] = <<head, 2>>
          /\ (w \o rest)[Len(w) + 1] = rest[1] /\ (w \o rest)[Len(w) + 2] = rest[2]
      BY <2>2, <3>1 DEF Byte
    <3>4. \A i \in 1..(Len(w) + 2) : w2[i] = (w \o rest)[i]
      BY <3>1, <3>3
    <3> HIDE DEF w2, rest
    <3>5. QED BY <3>2, <3>3, <3>4, SeqEqual
  <2>8. Frames(w \o rest, o, 0, dead, TRUE, head, n)
    <3> HIDE DEF w2, rest
    <3>1. QED BY <2>6, <2>7
  <2>9. w \o [i \in 1..(2 - off) |-> <<head, off + i>>] = w \o rest
    BY <2>1
  <2> HIDE DEF rest
  <2>10. QED BY <1>3, <2>8, <2>9
<1>4. off = 1 \/ off = 0
  OBVIOUS
<1>5. QED BY ONLY <1>2, <1>3, <1>4, Zenon

LEMMA SendStep ==
  ASSUME Typed, Typed', LocalsSound, NEW d \in Conns, WireSound(d), IoSend
  PROVE  WireSound(d)'
<1>1. /\ io \in IoTypes /\ io.pc = "sending" /\ UNCHANGED <<outbox, closing, received>> /\ io.conn \in Conns
      /\ io.head \in 1..MaxRequests /\ offset \in [Conns -> 0..1] /\ wire \in [Conns -> Seq((1..MaxRequests) \X (1..2))]
  <2>1. io \in IoTypes /\ io.pc = "sending" /\ UNCHANGED <<outbox, closing, received>>
    BY DEF Typed, IoSend, table, out, work
  <2>2. io.conn \in Conns /\ io.head \in 1..MaxRequests
    BY <2>1 DEF LocalsSound, IoTypes
  <2>3. QED BY <2>1, <2>2 DEF Typed, OutTyped
<1>2. received'[d] = received[d] /\ received[d] \in Nat /\ outbox[d] \in Seq(1..MaxRequests) /\ Byte(wire[d]) /\ offset[d] \in 0..1
  BY <1>1, FramesTyped
<1>3. ~Sent(d) /\ InHandOf(d) = (IF io.conn = d THEN io.head ELSE 0)
  BY <1>1 DEF Sent, InHandOf
<1>4. CASE UNCHANGED <<wire, offset>> /\ io'.pc \notin {"sending", "sent"}
  <2>1. ~Sent(d)' /\ InHandOf(d)' = 0
    BY <1>4 DEF Sent, InHandOf
  <2>2. QED BY <1>1, <1>2, <1>3, <1>4, <2>1, WireKept
<1>5. ASSUME io.conn # d, wire'[d] = wire[d], offset'[d] = offset[d], io'.pc = "sent" => io'.conn = io.conn
      PROVE  WireSound(d)'
  <2>1. ~Sent(d)' /\ InHandOf(d)' = 0
    BY <1>1, <1>5, IoGoes DEF Sent, InHandOf
  <2>2. QED BY <1>1, <1>2, <1>3, <1>5, <2>1, WireKept
<1>6. PICK dead \in BOOLEAN : dead <=> d \in closing
  <2>1. CASE d \in closing
    BY <2>1
  <2>2. CASE d \notin closing
    BY <2>2
  <2>3. QED BY <2>1, <2>2
<1>7. io.conn = d => Frames(wire[d], outbox[d], offset[d], dead, FALSE, io.head, received[d])
  <2>1. SUFFICES ASSUME io.conn = d PROVE Frames(wire[d], outbox[d], offset[d], dead, FALSE, io.head, received[d])
    OBVIOUS
  <2>2. ~Sent(d) /\ InHandOf(d) = io.head
    BY <1>3, <2>1
  <2>3. Frames(wire[d], outbox[d], offset[d], dead, FALSE, InHandOf(d), received[d])
    BY <1>6, <2>2, WireHas
  <2>4. QED BY <2>2, <2>3
<1>8. CASE /\ wire' = [wire EXCEPT ![io.conn] = @ \o [i \in 1..(2 - offset[io.conn]) |-> <<io.head, offset[io.conn] + i>>]]
           /\ io' = [io EXCEPT !.pc = "sent"] /\ UNCHANGED offset
  <2>1. io'.pc = "sent" /\ io'.conn = io.conn /\ io'.head = io.head
    BY <1>1, <1>8 DEF IoTypes
  <2>2. CASE io.conn # d
    BY <1>1, <1>5, <1>8, <2>1, <2>2
  <2>3. CASE io.conn = d
    <3> DEFINE rest == [i \in 1..(2 - offset[d]) |-> <<io.head, offset[d] + i>>]
    <3>1. Frames(wire[d] \o rest, outbox[d], offset[d], dead, TRUE, io.head, received[d])
      BY <1>1, <1>2, <1>7, <2>3, RestSent
    <3>2. wire' = [wire EXCEPT ![d] = wire[d] \o rest]
      BY <1>8, <2>3
    <3> HIDE DEF rest
    <3>3. wire'[d] = wire[d] \o rest
      BY <1>1, <3>2
    <3>4. Sent(d)' /\ InHandOf(d)' = io.head
      BY <2>1, <2>3 DEF Sent, InHandOf
    <3>5. QED BY <1>1, <1>2, <1>6, <1>8, <3>1, <3>3, <3>4 DEF WireSound
  <2>4. QED BY <2>2, <2>3
<1>9. CASE /\ offset[io.conn] = 0 /\ wire' = [wire EXCEPT ![io.conn] = Append(@, <<io.head, 1>>)]
           /\ offset' = [offset EXCEPT ![io.conn] = 1] /\ io' = FlushDone
  <2>1. io'.pc = "flush"
    BY <1>1, <1>9 DEF IoTypes, FlushDone
  <2>2. CASE io.conn # d
    BY <1>1, <1>5, <1>9, <2>1, <2>2
  <2>3. CASE io.conn = d
    <3>1. Frames(Append(wire[d], <<io.head, 1>>), outbox[d], 1, dead, FALSE, 0, received[d])
      BY <1>1, <1>2, <1>7, <1>9, <2>3, FramesHalf
    <3>2. wire'[d] = Append(wire[d], <<io.head, 1>>) /\ offset'[d] = 1
      BY <1>1, <1>9, <2>3
    <3>3. ~Sent(d)' /\ InHandOf(d)' = 0
      BY <2>1 DEF Sent, InHandOf
    <3>4. Frames(wire'[d], outbox'[d], offset'[d], dead, FALSE, InHandOf(d)', received'[d])
      BY <1>1, <1>2, <3>1, <3>2, <3>3
    <3>5. QED BY <1>1, <1>6, <3>3, <3>4, WireIs
  <2>4. QED BY <2>2, <2>3
<1>10. CASE UNCHANGED <<wire, offset>> /\ (io' = FlushDone \/ IoDrop(io.conn, "flush"))
  <2>1. io'.pc \notin {"sending", "sent"}
    BY <1>1, <1>10 DEF FlushDone, IoDrop, IoTypes
  <2>2. QED BY <1>4, <1>10, <2>1
<1>11. QED BY <1>4, <1>8, <1>9, <1>10 DEF IoSend, IoGo

LEMMA PopStep ==
  ASSUME Typed, Typed', LocalsSound, NEW d \in Conns, WireSound(d), IoPop
  PROVE  WireSound(d)'
<1>1. /\ io \in IoTypes /\ io.pc = "sent" /\ UNCHANGED <<wire, closing, received>> /\ io.conn \in Conns /\ OutTyped
  BY DEF Typed, IoPop, table, out, work, LocalsSound
<1>2. received'[d] = received[d] /\ received[d] \in Nat /\ outbox[d] \in Seq(1..MaxRequests) /\ Byte(wire[d]) /\ offset[d] \in 0..1
  BY <1>1, FramesTyped
<1>3. io'.pc = "flush"
  BY IoGoes
<1>4. ~Sent(d)' /\ InHandOf(d)' = 0
  BY <1>3 DEF Sent, InHandOf
<1>5. CASE io.conn # d
  <2>1. ~Sent(d)
    BY <1>5 DEF Sent
  <2>2. outbox'[d] = outbox[d] /\ offset'[d] = offset[d]
    BY <1>1, <1>5 DEF IoPop, OutTyped
  <2>3. QED BY <1>1, <1>2, <1>4, <2>1, <2>2, WireKept
<1>6. CASE io.conn = d
  <2>1. Sent(d) /\ InHandOf(d) = io.head
    BY <1>1, <1>6 DEF Sent, InHandOf
  <2>2. PICK dead \in BOOLEAN : dead <=> d \in closing
    <3>1. CASE d \in closing
      BY <3>1
    <3>2. CASE d \notin closing
      BY <3>2
    <3>3. QED BY <3>1, <3>2
  <2>3. Frames(wire[d], outbox[d], offset[d], dead, TRUE, io.head, received[d])
    BY <2>1, <2>2 DEF WireSound
  <2>4. outbox[d] # <<>> /\ Head(outbox[d]) = io.head
    BY <1>2, <2>3 DEF Frames, InHand
  <2>5. Frames(wire[d], Tail(outbox[d]), 0, dead, FALSE, 0, received[d])
    BY <1>2, <2>3, <2>4, FramesPop
  <2>6. outbox'[d] = Tail(outbox[d]) /\ offset'[d] = 0
    BY <1>1, <1>6, <2>4 DEF IoPop, OutTyped
  <2>7. Frames(wire'[d], outbox'[d], offset'[d], dead, FALSE, InHandOf(d)', received'[d])
    BY <1>1, <1>2, <1>4, <2>5, <2>6
  <2>8. QED BY <1>1, <1>4, <2>2, <2>7, WireIs
<1>7. QED BY <1>5, <1>6

LEMMA MarkStep ==
  ASSUME Typed, Typed', LocalsSound, NEW d \in Conns, WireSound(d), Next, IoMark
  PROVE  WireSound(d)'
<1>1. /\ io.pc = "mark" /\ io'.pc = "close" /\ OutTyped /\ io.conn \in Conns /\ UNCHANGED <<wire, received>>
      /\ closing' = closing \cup {io.conn} /\ outbox' = [outbox EXCEPT ![io.conn] = <<>>]
      /\ offset' = [offset EXCEPT ![io.conn] = 0]
  BY IoGoes DEF Typed, IoMark, Mark, LocalsSound, work
<1>2. ~Sent(d) /\ ~Sent(d)' /\ InHandOf(d) = 0 /\ InHandOf(d)' = 0
  BY <1>1 DEF Sent, InHandOf
<1>3. received'[d] = received[d] /\ received[d] \in Nat
  BY <1>1, FramesTyped
<1>4. CASE io.conn # d
  <2>1. outbox'[d] = outbox[d] /\ offset'[d] = offset[d]
    BY <1>1, <1>4 DEF OutTyped
  <2>2. QED BY <1>1, <1>2, <1>3, <2>1, WireKept
<1>5. CASE io.conn = d
  <2>1. PICK dead \in BOOLEAN : dead <=> d \in closing
    <3>1. CASE d \in closing
      BY <3>1
    <3>2. CASE d \notin closing
      BY <3>2
    <3>3. QED BY <3>1, <3>2
  <2>2. Frames(wire[d], outbox[d], offset[d], dead, FALSE, InHandOf(d), received[d])
    BY <1>2, <2>1, WireHas
  <2>3. Frames(wire[d], <<>>, 0, TRUE, FALSE, 0, received[d])
    BY <1>3, <2>2, FramesDrop
  <2>4. outbox'[d] = <<>> /\ offset'[d] = 0 /\ wire'[d] = wire[d] /\ d \in closing'
    BY <1>1, <1>5 DEF OutTyped
  <2>5. Frames(wire'[d], outbox'[d], offset'[d], TRUE, FALSE, InHandOf(d)', received'[d])
    BY <1>2, <1>3, <2>3, <2>4
  <2>6. QED BY <1>2, <2>4, <2>5, WireIs
<1>6. QED BY <1>4, <1>5

\* An answer is queued, or its connection is marked.
LEMMA AnswerStep ==
  ASSUME Typed, Typed', NEW d \in Conns, WireSound(d), Next, NEW c \in Conns, NEW n \in 1..MaxRequests,
         Sendable(c), Enqueue(c, n), Unanswered(c, n), n <= received[c], UNCHANGED <<wire, offset, received>>,
         ~IoFlush, ~IoSend, ~IoPop
  PROVE  WireSound(d)'
<1>1. OutTyped /\ TableTyped
  BY DEF Typed
<1>2. (Sent(d)' <=> Sent(d)) /\ InHandOf(d)' = InHandOf(d) /\ received'[d] = received[d] /\ received[d] \in Nat
  BY HandStays, FramesTyped
<1>3. CASE closing \subseteq closing' /\ outbox'[d] = outbox[d]
  BY <1>2, <1>3, WireKept
<1>4. CASE closing' = closing /\ outbox' = [outbox EXCEPT ![c] = Append(outbox[c], n)]
  <2>1. CASE d # c
    BY <1>1, <1>3, <1>4, <2>1 DEF OutTyped
  <2>2. CASE d = c
    <3>1. d \notin closing /\ d \notin closing'
      BY <1>4, <2>2 DEF Sendable
    <3>2. PICK sent \in BOOLEAN : sent <=> Sent(d)
      <4>1. CASE Sent(d)
        BY <4>1
      <4>2. CASE ~Sent(d)
        BY <4>2
      <4>3. QED BY <4>1, <4>2
    <3>3. Frames(wire[d], outbox[d], offset[d], FALSE, sent, InHandOf(d), received[d])
      BY <3>1, <3>2, WireHas
    <3>4. Frames(wire[d], Append(outbox[d], n), offset[d], FALSE, sent, InHandOf(d), received[d])
      BY <1>2, <2>2, <3>3, FramesTyped, FramesQueue DEF Unanswered
    <3>5. outbox'[d] = Append(outbox[d], n) /\ wire'[d] = wire[d] /\ offset'[d] = offset[d]
      BY <1>1, <1>4, <2>2 DEF OutTyped
    <3>6. Frames(wire'[d], outbox'[d], offset'[d], FALSE, sent, InHandOf(d)', received'[d])
      BY <1>2, <3>4, <3>5
    <3>7. QED BY <1>2, <3>1, <3>2, <3>6, WireIs
  <2>3. QED BY <2>1, <2>2
<1>5. QED BY <1>1, <1>3, <1>4, Enqueued

LEMMA WireStep ==
  ASSUME Typed, LocalsSound, WorkSound, LimitsSound, FramesSound, Next, ~stopped', NEW d \in Conns
  PROVE  WireSound(d)'
<1>1. Typed' /\ ~stopped /\ main.pc \in {"run", "reply", "wake"}
  BY TypedStep, FlagsStep
<1>2. PendingSound /\ WireSound(d)
  BY <1>1 DEF FramesSound
<1>3. CASE IoFlush \/ IoSend \/ IoPop \/ IoMark
  BY <1>1, <1>2, <1>3, FlushStep, SendStep, PopStep, MarkStep
<1>4. CASE ~IoFlush /\ ~IoSend /\ ~IoPop /\ ~IoMark
  <2>1. UNCHANGED <<wire, offset>> /\ ~StopMark
    BY <1>1, <1>4, MainGoes, WhoMovesWire
  <2>2. (Sent(d)' <=> Sent(d)) /\ InHandOf(d)' = InHandOf(d)
    BY <1>4, HandStays
  <2>3. received[d] <= received'[d]
    <3>1. received'[d] = received[d] \/ received'[d] = received[d] + 1
      BY RequestsComeIn DEF RequestsStay
    <3>2. received[d] \in Nat
      BY FramesTyped
    <3>3. QED BY <3>1, <3>2
  <2>4. CASE UNCHANGED <<closing, outbox>>
    BY <1>1, <1>2, <2>1, <2>2, <2>3, <2>4, WireKept
  <2>5. CASE IoBusy
    <3>1. CASE UNCHANGED <<closing, outbox>>
      BY <2>4, <3>1
    <3>2. CASE Sendable(io.conn) /\ Enqueue(io.conn, io.head)
      <4>1. io.pc = "busy" /\ UNCHANGED received /\ io.conn \in Conns /\ io.head \in 1..MaxRequests
        BY <2>5 DEF IoBusy, work, LocalsSound, Typed, IoTypes
      <4>2. Unanswered(io.conn, io.head) /\ io.head <= received[io.conn]
        BY <1>2, <4>1 DEF PendingSound
      <4>3. QED BY <1>1, <1>2, <1>4, <2>1, <3>2, <4>1, <4>2, AnswerStep
    <3>3. QED BY <2>5, <3>1, <3>2 DEF IoBusy
  <2>6. CASE MainSend
    <3>1. CASE UNCHANGED <<closing, outbox>>
      BY <2>4, <3>1
    <3>2. CASE Sendable(main.reply[1]) /\ Enqueue(main.reply[1], main.reply[2])
      <4>1. PICK c \in Conns, n \in 1..MaxRequests : main.reply = <<c, n>>
        BY <2>6 DEF MainSend, LocalsSound, Requests
      <4>2. main.pc = "reply" /\ UNCHANGED received /\ <<c, n>> \in queue
        BY <1>2, <2>6, <4>1 DEF MainSend, PendingSound
      <4>3. Unanswered(c, n) /\ n <= received[c]
        <5>1. Unanswered(c, n)
          BY <1>2, <4>2 DEF PendingSound
        <5>2. n \in 1..received[c]
          BY <4>2 DEF WorkSound
        <5>3. QED BY <5>1, <5>2, FramesTyped
      <4>4. Sendable(c) /\ Enqueue(c, n)
        BY <3>2, <4>1
      <4>5. QED BY <1>1, <1>2, <1>4, <2>1, <4>2, <4>3, <4>4, AnswerStep
    <3>3. QED BY <2>6, <3>1, <3>2 DEF MainSend
  <2>7. QED BY <1>4, <2>1, <2>4, <2>5, <2>6, WhoMovesMarks
<1>5. QED BY <1>3, <1>4

\* Only the answer to a request ends its wait: the refusal of the I/O thread or the reply of the main thread.
LEMMA UnansweredStays ==
  ASSUME Typed, LocalsSound, FramesSound, Next, ~stopped', NEW c \in Conns, NEW n \in 1..MaxRequests, Unanswered(c, n),
         ~(IoBusy /\ io.conn = c /\ io.head = n), ~(MainSend /\ main.reply = <<c, n>> /\ Sendable(c))
  PROVE  Unanswered(c, n)'
<1>1. OutTyped /\ TableTyped /\ io \in IoTypes /\ main \in MainTypes /\ ~stopped /\ main.pc \in {"run", "reply", "wake"}
  BY FlagsStep DEF Typed
<1>2. WireSound(c) /\ Absent(wire[c], outbox[c], n)
  BY <1>1 DEF FramesSound, Unanswered
<1>3. outbox[c] \in Seq(1..MaxRequests) /\ wire[c] \in Seq((1..MaxRequests) \X (1..2)) /\ offset[c] \in 0..1
  BY FramesTyped
<1>4. \A i \in 1..Len(outbox'[c]) : outbox'[c][i] # n
  <2>1. CASE outbox'[c] = outbox[c]
    BY <1>2, <2>1 DEF Absent
  <2>2. CASE outbox'[c] = <<>>
    BY <2>2
  <2>3. CASE outbox[c] # <<>> /\ outbox'[c] = Tail(outbox[c])
    <3>1. /\ Len(outbox[c]) \in Nat /\ Len(Tail(outbox[c])) = Len(outbox[c]) - 1
          /\ \A i \in 1..Len(Tail(outbox[c])) : Tail(outbox[c])[i] = outbox[c][i + 1] /\ i + 1 \in 1..Len(outbox[c])
      BY <1>3, <2>3, HeadTailProperties
    <3>2. QED BY <1>2, <2>3, <3>1 DEF Absent
  <2>4. ASSUME NEW m \in 1..MaxRequests, m # n, outbox'[c] = Append(outbox[c], m)
        PROVE  \A i \in 1..Len(outbox'[c]) : outbox'[c][i] # n
    <3> DEFINE p == Append(outbox[c], m)
    <3>1. Len(outbox[c]) \in Nat /\ Len(p) = Len(outbox[c]) + 1 /\ p[Len(p)] = m /\ \A i \in 1..Len(outbox[c]) : p[i] = outbox[c][i]
      BY <1>3, AppendProperties
    <3>2. outbox'[c] = p
      BY <2>4
    <3> HIDE DEF p
    <3>3. \A i \in 1..Len(p) : p[i] # n
      BY <1>2, <2>4, <3>1 DEF Absent
    <3>4. QED BY <3>2, <3>3
  <2>5. CASE IoMark
    <3>1. outbox' = [outbox EXCEPT ![io.conn] = <<>>] /\ io.conn \in Conns
      BY <2>5 DEF IoMark, Mark, LocalsSound
    <3>2. outbox'[c] = outbox[c] \/ outbox'[c] = <<>>
      BY <1>1, <3>1 DEF OutTyped
    <3>3. QED BY <2>1, <2>2, <3>2
  <2>6. CASE IoPop
    <3>1. UNCHANGED outbox \/ (outbox[io.conn] # <<>> /\ outbox' = [outbox EXCEPT ![io.conn] = Tail(@)])
      BY <2>6 DEF IoPop
    <3>2. outbox'[c] = outbox[c] \/ (outbox[c] # <<>> /\ outbox'[c] = Tail(outbox[c]))
      BY <1>1, <3>1 DEF OutTyped
    <3>3. QED BY <2>1, <2>3, <3>2
  <2>7. ASSUME NEW d \in Conns, NEW m \in 1..MaxRequests, Enqueue(d, m), <<d, m>> # <<c, n>>
        PROVE  \A i \in 1..Len(outbox'[c]) : outbox'[c][i] # n
    <3>1. outbox' = outbox \/ outbox' = [outbox EXCEPT ![d] = Append(outbox[d], m)]
      BY <1>1, <2>7, Enqueued
    <3>2. outbox'[c] = outbox[c] \/ (d = c /\ outbox'[c] = Append(outbox[c], m))
      BY <1>1, <3>1 DEF OutTyped
    <3>3. d = c => m # n
      BY <2>7
    <3>4. QED BY <2>1, <2>4, <3>2, <3>3
  <2>8. CASE IoBusy
    <3>1. io.conn \in Conns /\ io.head \in 1..MaxRequests
      BY <1>1, <2>8 DEF IoBusy, LocalsSound, IoTypes
    <3>2. CASE Enqueue(io.conn, io.head)
      <4>1. <<io.conn, io.head>> # <<c, n>>
        BY <2>8
      <4>2. QED BY <2>7, <3>1, <3>2, <4>1
    <3>3. QED BY <2>1, <2>8, <3>2 DEF IoBusy
  <2>9. CASE MainSend
    <3>1. PICK d \in Conns, m \in 1..MaxRequests : main.reply = <<d, m>>
      BY <2>9 DEF MainSend, LocalsSound, Requests
    <3>2. CASE Sendable(d) /\ Enqueue(d, m)
      <4>1. <<d, m>> # <<c, n>>
        BY <2>9, <3>1, <3>2
      <4>2. QED BY <2>7, <3>2, <4>1
    <3>3. QED BY <2>1, <2>9, <3>1, <3>2 DEF MainSend
  <2>10. ~StopMark
    BY <1>1, MainGoes
  <2>11. QED BY <2>1, <2>5, <2>6, <2>8, <2>9, <2>10, WhoMovesMarks
<1>5. \A j \in 1..Len(wire'[c]) : wire'[c][j][1] # n
  <2>1. CASE wire'[c] = wire[c]
    BY <1>2, <2>1 DEF Absent
  <2>2. CASE IoSend /\ io.conn = c
    <3>1. io.pc = "sending" /\ io.head \in 1..MaxRequests
      BY <1>1, <2>2 DEF IoSend, LocalsSound, IoTypes
    <3>2. outbox[c] # <<>> /\ outbox[c][1] = io.head
      <4>1. InHandOf(c) = io.head
        BY <2>2, <3>1 DEF InHandOf
      <4>2. QED BY <1>2, <3>1, <4>1 DEF WireSound, Frames, InHand
    <3>3. io.head # n
      <4>1. 1 \in 1..Len(outbox[c])
        BY <1>3, <3>2
      <4>2. QED BY <1>2, <3>2, <4>1 DEF Absent
    <3>4. ASSUME NEW v \in Seq((1..MaxRequests) \X (1..2)), wire'[c] = wire[c] \o v, \A j \in 1..Len(v) : v[j][1] = io.head
          PROVE  \A j \in 1..Len(wire'[c]) : wire'[c][j][1] # n
      <4>1. /\ Len(wire[c]) \in Nat /\ Len(v) \in Nat /\ Len(wire[c] \o v) = Len(wire[c]) + Len(v)
            /\ \A j \in 1..Len(wire[c]) : (wire[c] \o v)[j] = wire[c][j]
            /\ \A j \in 1..Len(v) : (wire[c] \o v)[Len(wire[c]) + j] = v[j]
        BY <1>3, <3>4, ConcatProperties
      <4> DEFINE p == wire[c] \o v
      <4> HIDE DEF p
      <4>2. \A j \in 1..Len(p) : j \in 1..Len(wire[c]) \/ (j - Len(wire[c]) \in 1..Len(v) /\ p[j] = v[j - Len(wire[c])])
        <5>1. SUFFICES ASSUME NEW j \in 1..Len(p), j \notin 1..Len(wire[c])
                       PROVE  j - Len(wire[c]) \in 1..Len(v) /\ p[j] = v[j - Len(wire[c])]
          OBVIOUS
        <5>2. j - Len(wire[c]) \in 1..Len(v) /\ Len(wire[c]) + (j - Len(wire[c])) = j
          BY <4>1, <5>1 DEF p
        <5>3. QED BY <4>1, <5>2 DEF p
      <4>3. ASSUME NEW j \in 1..Len(p) PROVE p[j][1] # n
        <5>1. CASE j \in 1..Len(wire[c])
          <6>1. p[j] = wire[c][j]
            BY <4>1, <5>1 DEF p
          <6>2. QED BY <1>2, <5>1, <6>1 DEF Absent
        <5>2. CASE j - Len(wire[c]) \in 1..Len(v) /\ p[j] = v[j - Len(wire[c])]
          BY <3>3, <3>4, <5>2
        <5>3. QED BY <4>2, <5>1, <5>2
      <4>4. QED BY <3>4, <4>3 DEF p
    <3>5. CASE wire' = [wire EXCEPT ![c] = Append(@, <<io.head, 1>>)]
      <4>1. PICK h \in (1..MaxRequests) \X (1..2) : h = <<io.head, 1>>
        <5>1. 1 \in 1..2 /\ <<io.head, 1>> \in (1..MaxRequests) \X (1..2)
          BY <3>1
        <5>2. QED BY <5>1
      <4>2. wire'[c] = Append(wire[c], h)
        BY <1>1, <3>5, <4>1 DEF OutTyped
      <4>3. Append(wire[c], h) = wire[c] \o <<h>>
        BY <1>3, AppendIsConcat
      <4>4. <<h>> \in Seq((1..MaxRequests) \X (1..2)) /\ Len(<<h>>) = 1 /\ <<h>>[1] = h
        OBVIOUS
      <4>5. \A j \in 1..Len(<<h>>) : <<h>>[j][1] = io.head
        BY <4>1, <4>4
      <4>6. QED BY <3>4, <4>2, <4>3, <4>4, <4>5
    <3>6. CASE wire' = [wire EXCEPT ![c] = @ \o [i \in 1..(2 - offset[c]) |-> <<io.head, offset[c] + i>>]]
      <4> DEFINE v == [i \in 1..(2 - offset[c]) |-> <<io.head, offset[c] + i>>]
      <4>1. v \in Seq((1..MaxRequests) \X (1..2)) /\ \A j \in 1..Len(v) : v[j][1] = io.head
        <5>1. 2 - offset[c] \in Nat /\ \A i \in 1..(2 - offset[c]) : <<io.head, offset[c] + i>> \in (1..MaxRequests) \X (1..2)
          BY <1>3, <3>1
        <5>2. QED BY <5>1
      <4>2. wire' = [wire EXCEPT ![c] = wire[c] \o v]
        BY <3>6
      <4> HIDE DEF v
      <4>3. wire'[c] = wire[c] \o v
        BY <1>1, <4>2 DEF OutTyped
      <4>4. QED BY <3>4, <4>1, <4>3
    <3>7. QED BY <2>1, <2>2, <3>5, <3>6 DEF IoSend
  <2>3. CASE IoSend /\ io.conn # c
    <3>1. wire'[c] = wire[c]
      BY <1>1, <2>3 DEF IoSend, OutTyped
    <3>2. QED BY <2>1, <3>1
  <2>4. ~StopMark
    BY <1>1, MainGoes
  <2>5. QED BY <2>1, <2>2, <2>3, <2>4, WhoMovesWire DEF IoMark, IoPop
<1>6. QED BY <1>4, <1>5 DEF Unanswered, Absent

\* The next request of a connection has no answer yet.
LEMMA NextUnanswered ==
  ASSUME Typed, NEW c \in Conns, WireSound(c)
  PROVE  Unanswered(c, received[c] + 1)
<1>1. outbox[c] \in Seq(1..MaxRequests) /\ wire[c] \in Seq((1..MaxRequests) \X (1..2)) /\ received[c] \in Nat
  BY FramesTyped
<1>2. Asked(wire[c], outbox[c], received[c])
  BY DEF WireSound, Frames
<1>3. ASSUME NEW i \in 1..Len(outbox[c]) PROVE outbox[c][i] # received[c] + 1
  <2>1. outbox[c][i] \in 1..MaxRequests
    BY <1>1, ElementOfSeq
  <2>2. outbox[c][i] <= received[c]
    BY <1>2 DEF Asked
  <2>3. QED BY <1>1, <2>1, <2>2
<1>4. ASSUME NEW j \in 1..Len(wire[c]) PROVE wire[c][j][1] # received[c] + 1
  <2>1. wire[c][j] \in (1..MaxRequests) \X (1..2)
    BY <1>1, ElementOfSeq
  <2>2. wire[c][j][1] <= received[c]
    BY <1>2 DEF Asked
  <2>3. QED BY <1>1, <2>1, <2>2
<1>5. QED BY <1>3, <1>4 DEF Unanswered, Absent

LEMMA PendingStep ==
  ASSUME Typed, LocalsSound, WorkSound, FramesSound, Next, ~stopped'
  PROVE  PendingSound'
<1>1. /\ TableTyped /\ WorkTyped /\ WorkTyped' /\ io \in IoTypes /\ main \in MainTypes
      /\ ~stopped /\ main.pc \in {"run", "reply", "wake"} /\ main'.pc \in {"run", "reply", "wake"}
  BY FlagsStep, RestStaysTyped DEF Typed
<1>2. PendingSound /\ \A c \in Conns : WireSound(c)
  BY <1>1 DEF FramesSound
<1>3. ASSUME NEW c \in Conns, NEW n \in 1..MaxRequests, <<c, n>> \in queue', <<c, n>> # main'.reply \/ main'.pc # "wake"
      PROVE  Unanswered(c, n)'
  <2>1. CASE <<c, n>> \notin queue
    <3>1. IoRead
      BY <1>3, <2>1, WhoMovesWork DEF MainServe, MainSend, MainWake, StopDrain
    <3>2. n = received[c] + 1
      BY <1>3, <2>1, RequestsComeIn DEF RequestsStay
    <3>3. Unanswered(c, n)
      BY <1>2, <3>2, NextUnanswered
    <3>4. ~IoBusy
      BY <3>1, IoGoes
    <3>5. ~(MainSend /\ main.reply = <<c, n>>)
      BY <1>2, <2>1 DEF MainSend, PendingSound
    <3>6. QED BY <1>3, <3>3, <3>4, <3>5, UnansweredStays
  <2>2. CASE <<c, n>> \in queue
    <3>1. CASE main.pc = "wake" /\ main.reply = <<c, n>>
      <4>1. MainWake
        BY <1>3, <3>1, MainGoes, WhoMovesMain DEF Stopping
      <4>2. QED BY <1>3, <3>1, <4>1 DEF MainWake
    <3>2. CASE main.pc # "wake" \/ main.reply # <<c, n>>
      <4>1. Unanswered(c, n)
        BY <1>2, <2>2, <3>2 DEF PendingSound
      <4>2. ~(IoBusy /\ io.conn = c /\ io.head = n)
        BY <1>2, <2>2 DEF IoBusy, PendingSound
      <4>3. ~(MainSend /\ main.reply = <<c, n>> /\ Sendable(c))
        <5>1. SUFFICES ASSUME MainSend, main.reply = <<c, n>>, Sendable(c) PROVE FALSE
          OBVIOUS
        <5>2. main' = [main EXCEPT !.pc = "wake"]
          BY <5>1 DEF MainSend, MainGo
        <5>3. QED BY <1>1, <1>3, <5>1, <5>2 DEF MainTypes
      <4>4. QED BY <1>3, <4>1, <4>2, <4>3, UnansweredStays
    <3>3. QED BY <3>1, <3>2
  <2>3. QED BY <2>1, <2>2
<1>4. (\A q \in queue : q # main.reply \/ main.pc # "wake" => Unanswered(q[1], q[2]))'
  <2>1. SUFFICES ASSUME NEW q \in queue', q # main'.reply \/ main'.pc # "wake"
                 PROVE  Unanswered(q[1], q[2])'
    OBVIOUS
  <2>2. PICK c \in Conns, n \in 1..MaxRequests : q = <<c, n>>
    BY <1>1 DEF WorkTyped, Requests
  <2>3. Unanswered(c, n)'
    BY <1>3, <2>1, <2>2
  <2>4. QED BY <2>2, <2>3 DEF Unanswered
<1>5. (main.pc \in {"reply", "wake"} => main.reply \in queue)'
  <2>1. CASE MainServe
    <3>1. PICK r \in queue : (main' = [main EXCEPT !.pc = "reply", !.reply = r] /\ UNCHANGED queue) \/ UNCHANGED main
      BY <2>1 DEF MainServe
    <3>2. main.pc = "run"
      BY <2>1 DEF MainServe
    <3>3. CASE UNCHANGED main
      BY <3>2, <3>3
    <3>4. CASE main' = [main EXCEPT !.pc = "reply", !.reply = r] /\ UNCHANGED queue
      <4>1. main'.reply = r
        BY <1>1, <3>4 DEF MainTypes
      <4>2. QED BY <3>4, <4>1
    <3>5. QED BY <3>1, <3>3, <3>4
  <2>2. CASE MainSend
    <3>1. CASE Sendable(main.reply[1])
      BY <1>1, <1>2, <2>2, <3>1 DEF MainSend, MainGo, PendingSound, MainTypes
    <3>2. CASE ~Sendable(main.reply[1])
      BY <2>2, <3>2 DEF MainSend, MainAt
    <3>3. QED BY <3>1, <3>2
  <2>3. CASE ~MainServe /\ ~MainSend
    <3>1. SUFFICES ASSUME main'.pc \in {"reply", "wake"} PROVE main'.reply \in queue'
      OBVIOUS
    <3>2. UNCHANGED main
      BY <1>1, <2>3, <3>1, MainGoes, WhoMovesMain DEF Stopping
    <3>3. queue \subseteq queue'
      BY <1>1, <2>3, <3>1, <3>2, MainGoes, WhoMovesWork DEF IoRead, work
    <3>4. QED BY <1>2, <3>1, <3>2, <3>3 DEF PendingSound
  <2>4. QED BY <2>1, <2>2, <2>3
<1>6. (io.pc = "busy" => /\ Unanswered(io.conn, io.head) /\ <<io.conn, io.head>> \notin queue
                         /\ io.head <= received[io.conn])'
  <2>1. SUFFICES ASSUME NEW c \in Conns, NEW n \in 1..MaxRequests, io'.pc = "busy", io'.conn = c, io'.head = n
                 PROVE  Unanswered(c, n)' /\ <<c, n>> \notin queue' /\ n <= received'[c]
    <3>1. LocalsSound' /\ io' \in IoTypes
      BY LocalsStep, IoTyped
    <3>2. io'.pc = "busy" => io'.conn \in Conns /\ io'.head \in 1..MaxRequests
      BY <3>1 DEF LocalsSound, IoTypes
    <3>3. SUFFICES ASSUME io'.pc = "busy"
                   PROVE  (Unanswered(io.conn, io.head) /\ <<io.conn, io.head>> \notin queue /\ io.head <= received[io.conn])'
      OBVIOUS
    <3>4. PICK c \in Conns, n \in 1..MaxRequests : io'.conn = c /\ io'.head = n
      BY <3>2, <3>3
    <3>5. Unanswered(c, n)' /\ <<c, n>> \notin queue' /\ n <= received'[c]
      BY <2>1, <3>3, <3>4
    <3>6. QED BY <3>4, <3>5 DEF Unanswered
  <2>2. CASE IoRead
    <3>1. PICK d \in io.r : /\ received' = [received EXCEPT ![d] = @ + 1] /\ UNCHANGED queue
                            /\ io' = [ReadDone(d) EXCEPT !.pc = "busy", !.conn = d, !.head = received[d] + 1]
      <4>1. io'.pc # "loop" /\ io'.pc # "read" /\ io'.pc # "mark"
        BY <2>1
      <4>2. io' # IoAt("loop")
        BY <4>1 DEF IoAt
      <4>3. \A d \in io.r : io' # ReadDone(d) /\ io' # [ReadDone(d) EXCEPT !.pc = "mark", !.conn = d, !.back = "read"]
        <5>1. SUFFICES ASSUME NEW d \in io.r
                       PROVE  io' # ReadDone(d) /\ io' # [ReadDone(d) EXCEPT !.pc = "mark", !.conn = d, !.back = "read"]
          OBVIOUS
        <5>2. PICK x : x = ReadDone(d)
          OBVIOUS
        <5>3. DOMAIN x = DOMAIN io /\ x.pc = "read"
          BY <1>1, <2>2, <5>2 DEF ReadDone, IoRead, IoTypes
        <5>4. QED BY <1>1, <4>1, <5>2, <5>3 DEF IoTypes
      <4>4. QED BY <2>2, <4>2, <4>3 DEF IoRead
    <3>2. d \in Conns
      BY <1>1 DEF IoTypes
    <3>3. d = c /\ n = received[c] + 1 /\ received[c] \in Nat
      <4>1. io'.conn = d /\ io'.head = received[d] + 1
        <5>1. PICK x : x = ReadDone(d)
          OBVIOUS
        <5>2. DOMAIN x = DOMAIN io
          BY <1>1, <5>1 DEF ReadDone, IoTypes
        <5>3. QED BY <1>1, <3>1, <5>1, <5>2 DEF IoTypes
      <4>2. QED BY <2>1, <3>2, <4>1, FramesTyped
    <3>4. Unanswered(c, n)
      BY <1>2, <3>3, NextUnanswered
    <3>5. <<c, n>> \notin queue
      <4>1. <<c, n>> \in queue => n \in 1..received[c]
        BY DEF WorkSound
      <4>2. QED BY <3>3, <4>1
    <3>6. ~IoBusy /\ ~(MainSend /\ main.reply = <<c, n>>)
      BY <1>2, <2>2, <3>5, IoGoes DEF MainSend, PendingSound
    <3>7. n <= received'[c]
      BY <1>1, <3>1, <3>3 DEF WorkTyped
    <3>8. QED BY <3>1, <3>4, <3>5, <3>6, <3>7, UnansweredStays
  <2>3. CASE ~IoRead
    <3>1. UNCHANGED io
      <4>1. io.back # "busy"
        BY <1>1 DEF IoTypes
      <4>2. QED BY <2>1, <2>3, <4>1, IoGoes, WhoMovesIo DEF IoThread
    <3>2. Unanswered(c, n) /\ <<c, n>> \notin queue /\ n <= received[c]
      BY <1>2, <2>1, <3>1 DEF PendingSound
    <3>3. ~IoBusy
      BY <2>1, <3>1, IoGoes
    <3>4. ~(MainSend /\ main.reply = <<c, n>>)
      BY <1>2, <3>2 DEF MainSend, PendingSound
    <3>5. queue' \subseteq queue /\ received' = received
      BY <2>3, WhoMovesWork DEF MainServe, MainSend, MainWake, StopDrain
    <3>6. QED BY <3>2, <3>3, <3>4, <3>5, UnansweredStays
  <2>4. QED BY <2>2, <2>3
<1>7. QED BY <1>4, <1>5, <1>6 DEF PendingSound

LEMMA FramesSoundStep ==
  ASSUME Typed, LocalsSound, WorkSound, LimitsSound, FramesSound, Next
  PROVE  FramesSound'
<1>1. SUFFICES ASSUME ~stopped' PROVE PendingSound' /\ \A d \in Conns : WireSound(d)'
  BY DEF FramesSound
<1>2. QED BY <1>1, PendingStep, WireStep

-------------------------------------------------------------------------------
(* The theorems. *)

LEMMA TransportInit == Init => TransportInv
<1> SUFFICES ASSUME Init PROVE TransportInv
  OBVIOUS
<1> USE Constants DEF Init
<1>1. Typed
  <2>1. TableTyped
    BY DEF TableTyped
  <2>2. OutTyped
    <3>1. 0 \in 0..1 /\ 0 \in Nat /\ <<>> \in Seq(1..MaxRequests) /\ <<>> \in Seq((1..MaxRequests) \X (1..2))
      OBVIOUS
    <3>2. QED BY <3>1 DEF OutTyped
  <2>3. FlagsTyped /\ WorkTyped
    <3>1. MaxFaults \in 0..MaxFaults /\ 0 \in 0..MaxRequests /\ TRUE \in BOOLEAN /\ FALSE \in BOOLEAN
      OBVIOUS
    <3>2. FlagsTyped
      BY <3>1 DEF FlagsTyped
    <3>3. WorkTyped
      BY <3>1 DEF WorkTyped
    <3>4. QED BY <3>2, <3>3
  <2>4. io \in IoTypes /\ main \in MainTypes
    BY AtTyped DEF IoPcs, MainPcs
  <2>5. QED BY <2>1, <2>2, <2>3, <2>4 DEF Typed
<1>2. main = MainAt("run") /\ io = IoAt("loop") /\ main.pc = "run" /\ io.pc = "loop" /\ main.todo = {}
      /\ io.snap = {} /\ io.want = {} /\ io.r = {} /\ io.w = {}
  BY DEF MainAt, IoAt
<1>3. LocalsSound
  BY <1>1, <1>2 DEF LocalsSound, Typed
<1>4. TableSound
  BY <1>2 DEF TableSound, SocketsTracked, Open
<1>5. WorkSound
  BY <1>2 DEF WorkSound
<1>6. LimitsSound
  <2>1. {f \in Fds : conns[f] # None} = {} /\ Units(bytes, Current) = {}
    <3>1. Current = {}
      BY DEF Current
    <3>2. QED BY <3>1 DEF Units
  <2>2. Cardinality({f \in Fds : conns[f] # None}) = 0 /\ Total(bytes, Current) = 0
    BY <2>1, FS_EmptySet DEF Total
  <2>3. QED BY <1>2, <2>2 DEF LimitsSound
<1>7. FramesSound
  <2>1. ASSUME NEW c \in Conns PROVE WireSound(c)
    <3>1. ~Sent(c) /\ InHandOf(c) = 0 /\ wire[c] = <<>> /\ outbox[c] = <<>> /\ offset[c] = 0 /\ c \notin closing
      BY <1>2 DEF Sent, InHandOf
    <3>2. Frames(<<>>, <<>>, 0, FALSE, FALSE, 0, received[c])
      BY DEF Frames, Whole, Cut, InHand, Apart, Asked
    <3>3. (c \in closing) = FALSE /\ Sent(c) = FALSE
      BY <3>1 DEF Sent
    <3>4. QED BY <3>1, <3>2, <3>3 DEF WireSound
  <2>2. PendingSound
    BY <1>2 DEF PendingSound
  <2>3. QED BY <2>1, <2>2 DEF FramesSound
<1>8. WakeSound /\ CompleteMeansDown
  BY <1>2 DEF WakeSound, Handover, NoLostWake, DeadMeansCancelled, CompleteMeansDown
<1>9. QED BY <1>1, <1>3, <1>4, <1>5, <1>6, <1>7, <1>8 DEF TransportInv

LEMMA TransportStep == TransportInv /\ [Next]_vars => TransportInv'
<1>1. ASSUME TransportInv, Next PROVE TransportInv'
  BY <1>1, TypedStep, LocalsStep, TableStep, WorkStep, LimitsStep, FramesSoundStep, WakeStep, CompleteStep DEF TransportInv
<1>2. ASSUME TransportInv, UNCHANGED vars PROVE TransportInv'
  <2> USE <1>2 DEF vars, table, out, wake, ends, work
  <2>1. Typed'
    <3>1. Typed
      BY DEF TransportInv
    <3>2. TableTyped' /\ OutTyped'
      BY <3>1 DEF Typed, TableTyped, OutTyped
    <3>3. FlagsTyped' /\ WorkTyped'
      BY <3>1 DEF Typed, FlagsTyped, WorkTyped, Requests
    <3>4. (io \in IoTypes)' /\ (main \in MainTypes)'
      BY <3>1 DEF Typed, IoTypes, MainTypes, Requests
    <3>5. QED BY <3>2, <3>3, <3>4 DEF Typed
  <2>2. LocalsSound'
    BY DEF TransportInv, LocalsSound, MainTypes, Requests
  <2>3. TableSound'
    BY DEF TransportInv, TableSound, SocketsTracked, Open, Settled, Copied
  <2>4. WorkSound'
    BY DEF TransportInv, WorkSound, Settled
  <2>5. LimitsSound'
    BY DEF TransportInv, LimitsSound, Emptied, Current, Total, Units
  <2>6. FramesSound'
    BY DEF TransportInv, FramesSound, PendingSound, Unanswered, WireSound, Sent, InHandOf
  <2>7. WakeSound' /\ CompleteMeansDown'
    BY DEF TransportInv, WakeSound, Handover, NoLostWake, DeadMeansCancelled, CompleteMeansDown, Open
  <2>8. QED BY <2>1, <2>2, <2>3, <2>4, <2>5, <2>6, <2>7 DEF TransportInv
<1>3. QED BY <1>1, <1>2

LEMMA TransportInductive == Spec => []TransportInv
BY TransportInit, TransportStep, PTL DEF Spec

\* The table holds no more connections than entries.
LEMMA CurrentBounded == TransportInv => Cardinality(Current) <= MaxConns /\ Total(bytes, Conns) <= MaxTotal
<1> SUFFICES ASSUME TransportInv PROVE Cardinality(Current) <= MaxConns /\ Total(bytes, Conns) <= MaxTotal
  OBVIOUS
<1>1. TableTyped /\ OutTyped /\ LimitsSound
  BY DEF TransportInv, Typed
<1>2. Cardinality(Current) <= MaxConns
  <2> DEFINE E == {f \in Fds : conns[f] # None}
             g == [f \in E |-> conns[f]]
  <2>1. IsFiniteSet(E)
    BY Constants, FS_Subset
  <2>2. g \in Surjection(E, Current)
    BY <1>1 DEF Surjection, Current, TableTyped
  <2>3. IsFiniteSet(Current) /\ Cardinality(Current) <= Cardinality(E)
    <3> HIDE DEF E, g
    <3>1. QED BY <2>1, <2>2, FS_Surjection
  <2>4. Cardinality(E) \in Nat /\ Cardinality(Current) \in Nat /\ Cardinality(E) <= MaxConns /\ MaxConns \in Nat
    BY <1>1, <2>1, <2>3, FS_CardinalityType, Constants DEF LimitsSound
  <2> HIDE DEF E
  <2>5. QED BY <2>3, <2>4
<1>3. Total(bytes, Conns) <= MaxTotal
  <2>1. bytes \in [Conns -> Nat] /\ MaxOutbox \in Nat /\ MaxTotal \in Nat /\ \A c \in Conns : bytes[c] <= MaxOutbox
    BY <1>1, Constants DEF OutTyped, LimitsSound
  <2>2. Current \in SUBSET Conns
    BY <1>1 DEF Current, TableTyped
  <2>3. ASSUME NEW c \in Conns PROVE bytes[c] = 0 \/ (c \in Current /\ bytes[c] <= bytes[c])
    <3>1. bytes[c] = Len(outbox[c]) /\ (outbox[c] # <<>> => c \in Current) /\ bytes[c] \in Nat
      BY <1>1, <2>1 DEF LimitsSound
    <3>2. QED BY <3>1
  <2>4. Total(bytes, Conns) <= Total(bytes, Current)
    BY <2>1, <2>2, <2>3, TotalLess
  <2>5. Total(bytes, Conns) \in Nat /\ Total(bytes, Current) \in Nat
    BY <2>1, <2>2, UnitsFinite
  <2>6. Total(bytes, Current) <= MaxTotal
    BY <1>1 DEF LimitsSound
  <2>7. QED BY <2>1, <2>4, <2>5, <2>6
<1>4. QED BY <1>2, <1>3

\* Whatever peers do, what a session holds for them is bounded, and the byte counters this is decided
\* on are exact (lifecycle.py, _accept, send and _flush).
THEOREM Bounded == Spec => []LimitsHold
<1>1. TransportInv => LimitsHold
  <2> SUFFICES ASSUME TransportInv PROVE LimitsHold
    OBVIOUS
  <2>1. TypeOK
    BY TypedIsTyped DEF TransportInv
  <2>2. \A c \in Conns : bytes[c] = Len(outbox[c]) /\ bytes[c] <= MaxOutbox
    BY DEF TransportInv, LimitsSound
  <2>3. QED BY <2>1, <2>2, CurrentBounded DEF LimitsHold
<1>2. QED BY <1>1, TransportInductive, PTL

\* Until stop() begins the peers get whole frames in one piece and no answer twice, however sends are
\* cut up and drops come between (lifecycle.py, _flush and _drop).
THEOREM AnswersWhole == Spec => []FramesWhole
<1>1. TransportInv => FramesWhole
  BY DEF TransportInv, FramesSound, WireSound, Frames, Whole, FramesWhole
<1>2. QED BY <1>1, TransportInductive, PTL

\* No wake-up is lost between the threads, and a request of a dropped connection is cancelled
\* (lifecycle.py, _wake, _drain_wake and _drop).
THEOREM HandedOver == Spec => []Handover
<1>1. TransportInv => Handover
  BY DEF TransportInv, WakeSound
<1>2. QED BY <1>1, TransportInductive, PTL

\* No socket is lost while stop() and the I/O thread are at the table together, with descriptors used
\* again, and none is open when stop() reports success (lifecycle.py, _close_all_conns and stop).
THEOREM SocketsKept == Spec => []NoSocketLost
<1>1. TransportInv => NoSocketLost
  BY DEF TransportInv, TableSound, NoSocketLost
<1>2. QED BY <1>1, TransportInductive, PTL
===============================================================================
