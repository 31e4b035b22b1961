--------------------------- MODULE BridgeTransport ---------------------------
(***************************************************************************)
(* bridge/core/lifecycle.py, the transport half of BridgeSession: the table *)
(* of connections, their outboxes, the wake pipe, the I/O thread's loop and *)
(* the steps of stop() that take all of it down (2-5 and 8).                *)
(*                                                                          *)
(* Two threads act.  The I/O thread accepts, reads, flushes and drops       *)
(* connections.  Blender's main thread answers requests through send(), and *)
(* runs stop().  stop() waits for the I/O thread only a bounded time, so    *)
(* every step of the one can meet every step of the other.  Each `with      *)
(* lock' block and each system call is an action.  The task queue appears   *)
(* as the set of requests that hold a slot of it (see RequestService).      *)
(* File descriptors are modelled because the table is keyed by them and a   *)
(* closed one is handed out again by the next accept.                       *)
(***************************************************************************)
EXTENDS Integers, Sequences, FiniteSets

CONSTANTS Conns,        \* the connections peers will ever make
          Fds,          \* the descriptors the process has to spare
          None,         \* no connection, no descriptor
          MaxConns,     \* MAX_CONNECTIONS
          MaxOutbox,    \* MAX_OUTBOX, in frames of one size
          MaxTotal,     \* MAX_TOTAL_OUTBOX, in frames
          Capacity,     \* the task queue's capacity
          MaxRequests,  \* bound: requests the peers send altogether
          MaxFaults     \* bound: close() errors, join timeouts, I/O errors

ASSUME ConstantsAssumption ==
  /\ Fds \subseteq Nat /\ IsFiniteSet(Conns) /\ IsFiniteSet(Fds)
  /\ None \notin Conns /\ None \notin Fds
  /\ {MaxConns, MaxOutbox, MaxTotal, Capacity, MaxRequests, MaxFaults}
       \subseteq Nat

VARIABLES
  conns,         \* _conns: descriptor -> connection
  fd,            \* fd[c]: c.sock.fileno(); None before accept and after close
  accepted,      \* the connections accepted so far
  closing,       \* the connections whose `closing' is set
  cancelled,     \* the connections whose `cancelled' event is set
  outbox,        \* outbox[c]: frames, each named by the request it answers
  bytes,         \* bytes[c]: outbox_bytes, in frames
  offset,        \* offset[c]: send_offset, in halves of a frame
  wire,          \* wire[c]: the halves of frames handed to the kernel
  pendingClose,  \* _pending_close
  pipe,          \* a byte waits in the wake socketpair
  wakePending,   \* _wake_pending
  stopped,       \* the session's stop flag
  timer,         \* the driver's timer is registered
  listening,     \* the listener is open
  piped,         \* the wake socketpair is open
  queue,         \* requests <<c, n>> that hold a slot of the task queue
  received,      \* received[c]: requests read from c
  io,            \* the I/O thread's program counter and local variables
  main,          \* the main thread's
  complete,      \* cleanup_complete
  faults         \* faults the environment still has in stock

table == <<conns, fd, accepted, closing, cancelled, pendingClose>>
out == <<outbox, bytes, offset, wire>>
wake == <<pipe, wakePending>>
ends == <<stopped, timer, listening, piped>>
work == <<queue, received>>
vars == <<table, out, wake, ends, work, io, main, complete, faults>>

Current == {conns[f] : f \in Fds} \ {None}

\* The sum of n[c] over the connections cs: there are n[c] units of each of them.
Units(n, cs) == UNION {{c} \X (1..n[c]) : c \in cs}
Total(n, cs) == Cardinality(Units(n, cs))

Open(c) == fd[c] # None

\* A thread at a point where its local variables are dead.
IoAt(p) == [pc |-> p, conn |-> None, back |-> "drops", snap |-> {}, want |-> {},
            r |-> {}, w |-> {}, acc |-> FALSE, head |-> 0]
MainAt(p) == [pc |-> p, reply |-> <<None, 0>>, todo |-> {}, entry |-> <<0, None>>,
              failed |-> FALSE]

Init ==
  /\ conns = [f \in Fds |-> None]
  /\ fd = [c \in Conns |-> None]
  /\ accepted = {} /\ closing = {} /\ cancelled = {} /\ pendingClose = {}
  /\ outbox = [c \in Conns |-> <<>>]
  /\ bytes = [c \in Conns |-> 0]
  /\ offset = [c \in Conns |-> 0]
  /\ wire = [c \in Conns |-> <<>>]
  /\ pipe = FALSE /\ wakePending = FALSE
  /\ stopped = FALSE /\ timer = TRUE /\ listening = TRUE /\ piped = TRUE
  /\ queue = {} /\ received = [c \in Conns |-> 0]
  /\ io = IoAt("loop")
  /\ main = MainAt("run")
  /\ complete = FALSE
  /\ faults = MaxFaults

-----------------------------------------------------------------------------
(* Code both threads run. *)

\* send(), the part under _conns_lock, for a connection that is current and not
\* closing: over a limit it is marked for the I/O thread to drop, else the
\* frame is queued.
Sendable(c) == Open(c) /\ conns[fd[c]] = c /\ c \notin closing

\* Mutant: one frame too many is let in.
OverLimitByOne(c) == \/ bytes[c] > MaxOutbox
                     \/ Total(bytes, Current) > MaxTotal
OverLimit(c) == \/ bytes[c] + 1 > MaxOutbox
                \/ Total(bytes, Current) + 1 > MaxTotal

Enqueue(c, n) ==
  IF OverLimit(c)
  THEN closing' = closing \cup {c} /\ UNCHANGED <<outbox, bytes>>
  ELSE /\ outbox' = [outbox EXCEPT ![c] = Append(@, n)]
       /\ bytes' = [bytes EXCEPT ![c] = @ + 1]
       /\ UNCHANGED closing

\* _wake(), under _wake_lock: one byte at most is under way; a closed pipe is
\* left alone.
Wake ==
  IF wakePending \/ ~piped THEN UNCHANGED wake
                           ELSE pipe' = TRUE /\ wakePending' = TRUE

\* What _drop() and _close_all_conns() do to a connection under the lock.
Mark(c) ==
  /\ closing' = closing \cup {c}
  /\ outbox' = [outbox EXCEPT ![c] = <<>>]
  /\ bytes' = [bytes EXCEPT ![c] = 0]
  /\ offset' = [offset EXCEPT ![c] = 0]

\* A rejected socket that fails to close stays on the list.
RetryPendingCloses ==
  \/ /\ pendingClose' = {}
     /\ fd' = [c \in Conns |-> IF c \in pendingClose THEN None ELSE fd[c]]
     /\ UNCHANGED faults
  \/ /\ faults > 0 /\ pendingClose # {}
     /\ faults' = faults - 1
     /\ UNCHANGED <<pendingClose, fd>>

-----------------------------------------------------------------------------
(* The I/O thread: _io_loop() and _io_iterate(). *)

IoGo(p) == io' = [io EXCEPT !.pc = p]
IoDrop(c, back) == io' = [io EXCEPT !.pc = "mark", !.conn = c, !.back = back]

\* `while not self.stopped'.
IoLoop ==
  /\ io.pc = "loop"
  /\ io' = IoAt(IF stopped THEN "exited" ELSE "retry")
  /\ UNCHANGED <<table, out, wake, ends, work, main, complete, faults>>

IoRetry ==
  /\ io.pc = "retry"
  /\ RetryPendingCloses
  /\ io' = [io EXCEPT !.pc = "drops", !.r = Current \cap closing]
  /\ UNCHANGED <<conns, accepted, closing, cancelled, out, wake, ends, work,
                 main, complete>>

IoDropClosing ==
  /\ io.pc = "drops"
  /\ \E c \in io.r : io' = [io EXCEPT !.r = @ \ {c}, !.pc = "mark", !.conn = c,
                                      !.back = "drops"]
  /\ UNCHANGED <<table, out, wake, ends, work, main, complete, faults>>

\* _drop(): the event, then the state under the lock ...
IoMark ==
  /\ io.pc = "mark"
  /\ cancelled' = cancelled \cup {io.conn}
  /\ Mark(io.conn)
  /\ IoGo("close")
  /\ UNCHANGED <<conns, fd, accepted, pendingClose, wire, wake, ends, work,
                 main, complete, faults>>

\* ... then close(); after a failure the table entry stays for the next pass.
IoClose ==
  /\ io.pc = "close"
  /\ \/ /\ fd' = [fd EXCEPT ![io.conn] = None]
        /\ conns' = [f \in Fds |-> IF conns[f] = io.conn THEN None ELSE conns[f]]
        /\ UNCHANGED faults
     \/ /\ Open(io.conn) /\ faults > 0
        /\ faults' = faults - 1
        /\ UNCHANGED <<fd, conns>>
  /\ IoGo(io.back)
  /\ UNCHANGED <<accepted, closing, cancelled, pendingClose, out, wake, ends,
                 work, main, complete>>

\* The wake pipe, the listener (not while a rejected socket is still to be
\* closed) and the live connections are registered, for writing where something
\* is queued.  register() raises for a closed one: see IoAbort.
Registrable == listening /\ piped /\ \A c \in Current \ closing : Open(c)

IoRegister ==
  /\ io.pc = "drops" /\ io.r = {} /\ Registrable
  /\ io' = [io EXCEPT !.pc = "select",
                      !.snap = Current \ closing,
                      !.want = {c \in Current \ closing : outbox[c] # <<>>},
                      !.acc = (pendingClose = {})]
  /\ UNCHANGED <<table, out, wake, ends, work, main, complete, faults>>

\* select() returns, after one second at the latest, with some of what is
\* registered ready; the wake byte is level triggered.
IoSelect ==
  /\ io.pc = "select"
  /\ \E r \in SUBSET io.snap, w \in SUBSET io.want, a \in BOOLEAN :
       /\ a => io.acc /\ accepted # Conns
       /\ io' = [io EXCEPT !.pc = IF pipe THEN "woken" ELSE "accept",
                           !.r = r, !.w = w, !.acc = a]
  /\ UNCHANGED <<table, out, wake, ends, work, main, complete, faults>>

\* Mutant: the pipe is emptied, the flag stays.
IoDrainPipe ==
  /\ io.pc = "woken" /\ piped
  /\ pipe' = FALSE /\ UNCHANGED wakePending
  /\ IoGo("drained")
  /\ UNCHANGED <<table, out, ends, work, main, complete, faults>>

\* _drain_wake().
IoDrainWake ==
  /\ io.pc = "woken" /\ piped
  /\ pipe' = FALSE /\ wakePending' = FALSE
  /\ IoGo("drained")
  /\ UNCHANGED <<table, out, ends, work, main, complete, faults>>

IoCheckStopped ==
  /\ io.pc = "drained"
  /\ IF stopped THEN io' = IoAt("exited") ELSE IoGo("accept")
  /\ UNCHANGED <<table, out, wake, ends, work, main, complete, faults>>

FreeFds == {f \in Fds : \A c \in Conns : fd[c] # f}

\* accept(): the new socket gets the lowest free descriptor.  Without one, or
\* with the listener closed meanwhile, it fails and nothing happens.
IoAccept ==
  /\ io.pc = "accept"
  /\ IF io.acc /\ listening /\ FreeFds # {}
     THEN \E c \in Conns \ accepted, f \in FreeFds :
            /\ \A g \in FreeFds : f <= g
            /\ accepted' = accepted \cup {c}
            /\ fd' = [fd EXCEPT ![c] = f]
            /\ io' = [io EXCEPT !.pc = "insert", !.conn = c]
     ELSE IoGo("flush") /\ UNCHANGED <<accepted, fd>>
  /\ UNCHANGED <<conns, closing, cancelled, pendingClose, out, wake, ends, work,
                 main, complete, faults>>

\* Into the table, or, at the limit, closed at once.
TableFull == Cardinality({f \in Fds : conns[f] # None}) >= MaxConns

IoInsert ==
  /\ io.pc = "insert"
  /\ \/ /\ ~TableFull
        /\ conns' = [conns EXCEPT ![fd[io.conn]] = io.conn]
        /\ UNCHANGED <<fd, pendingClose, faults>>
     \/ /\ TableFull
        /\ fd' = [fd EXCEPT ![io.conn] = None]
        /\ UNCHANGED <<conns, pendingClose, faults>>
     \/ /\ TableFull /\ faults > 0
        /\ faults' = faults - 1
        /\ pendingClose' = pendingClose \cup {io.conn}
        /\ UNCHANGED <<conns, fd>>
  /\ IoGo("flush")
  /\ UNCHANGED <<accepted, closing, cancelled, out, wake, ends, work, main,
                 complete>>

\* _flush(): the head of the outbox is read under the lock ...
IoFlush ==
  /\ io.pc = "flush"
  /\ IF io.w = {} THEN io' = [IoAt("read") EXCEPT !.r = io.r]
     ELSE \E c \in io.w :
            io' = IF outbox[c] = <<>> THEN [io EXCEPT !.w = @ \ {c}]
                  ELSE [io EXCEPT !.pc = "sending", !.conn = c,
                                  !.head = Head(outbox[c])]
  /\ UNCHANGED <<table, out, wake, ends, work, main, complete, faults>>

\* ... sent without it, from send_offset on: all of the rest, one half of a
\* whole frame, or nothing (BlockingIOError); any other error drops c.
FlushDone == [io EXCEPT !.pc = "flush", !.w = @ \ {io.conn}]

IoSend ==
  /\ io.pc = "sending"
  /\ \/ /\ Open(io.conn)
        /\ \/ /\ wire' = [wire EXCEPT ![io.conn] =
                            @ \o [i \in 1..(2 - offset[io.conn]) |->
                                    <<io.head, offset[io.conn] + i>>]]
              /\ IoGo("sent")
              /\ UNCHANGED offset
           \/ /\ offset[io.conn] = 0
              /\ wire' = [wire EXCEPT ![io.conn] = Append(@, <<io.head, 1>>)]
              /\ offset' = [offset EXCEPT ![io.conn] = 1]
              /\ io' = FlushDone
           \/ io' = FlushDone /\ UNCHANGED <<wire, offset>>
     \/ IoDrop(io.conn, "flush") /\ UNCHANGED <<wire, offset>>
  /\ UNCHANGED <<table, outbox, bytes, wake, ends, work, main, complete, faults>>

\* Mutant: the next frame starts at the old offset.
IoPopKeepsOffset ==
  /\ io.pc = "sent"
  /\ IF outbox[io.conn] = <<>> \/ Head(outbox[io.conn]) # io.head
     THEN io' = FlushDone /\ UNCHANGED <<outbox, bytes>>
     ELSE /\ outbox' = [outbox EXCEPT ![io.conn] = Tail(@)]
          /\ bytes' = [bytes EXCEPT ![io.conn] = @ - 1]
          /\ IoGo("flush")
  /\ UNCHANGED <<table, offset, wire, wake, ends, work, main, complete, faults>>

\* ... and popped under the lock again, unless it is no longer the head.
IoPop ==
  /\ io.pc = "sent"
  /\ IF outbox[io.conn] = <<>> \/ Head(outbox[io.conn]) # io.head
     THEN io' = FlushDone /\ UNCHANGED <<outbox, bytes, offset>>
     ELSE /\ outbox' = [outbox EXCEPT ![io.conn] = Tail(@)]
          /\ bytes' = [bytes EXCEPT ![io.conn] = @ - 1]
          /\ offset' = [offset EXCEPT ![io.conn] = 0]
          /\ IoGo("flush")
  /\ UNCHANGED <<table, wire, wake, ends, work, main, complete, faults>>

\* _read() and _dispatch(): nothing there; end of file, an error, a frame too
\* large, undecodable or unauthenticated - the connection is dropped; or a
\* request, which takes a slot of the queue or is answered BRIDGE_BUSY.
ReadDone(c) == [io EXCEPT !.r = @ \ {c}]

IoRead ==
  /\ io.pc = "read"
  /\ IF io.r = {} THEN io' = IoAt("loop") /\ UNCHANGED work
     ELSE \E c \in io.r :
       \/ io' = ReadDone(c) /\ Open(c) /\ UNCHANGED work
       \/ /\ io' = [ReadDone(c) EXCEPT !.pc = "mark", !.conn = c, !.back = "read"]
          /\ UNCHANGED work
       \/ /\ Open(c) /\ Total(received, Conns) < MaxRequests
          /\ received' = [received EXCEPT ![c] = @ + 1]
          /\ IF Cardinality(queue) < Capacity
             THEN io' = ReadDone(c) /\ queue' = queue \cup {<<c, received[c] + 1>>}
             ELSE /\ io' = [ReadDone(c) EXCEPT !.pc = "busy", !.conn = c,
                                               !.head = received[c] + 1]
                  /\ UNCHANGED queue
  /\ UNCHANGED <<table, out, wake, ends, main, complete, faults>>

IoBusy ==
  /\ io.pc = "busy"
  /\ IF Sendable(io.conn) THEN Enqueue(io.conn, io.head) /\ IoGo("busyWake")
     ELSE IoGo("read") /\ UNCHANGED <<closing, outbox, bytes>>
  /\ UNCHANGED <<conns, fd, accepted, cancelled, pendingClose, offset, wire, wake,
                 ends, work, main, complete, faults>>

IoBusyWake ==
  /\ io.pc = "busyWake"
  /\ Wake
  /\ IoGo("read")
  /\ UNCHANGED <<table, out, ends, work, main, complete, faults>>

\* An exception out of _io_iterate(): what it waits on was closed under it, or
\* the selector failed.  The thread flags the session stopped and ends.
IoAbort ==
  /\ \/ io.pc = "drops" /\ io.r = {} /\ ~Registrable /\ UNCHANGED faults
     \/ io.pc = "woken" /\ ~piped /\ UNCHANGED faults
     \/ io.pc = "select" /\ faults > 0 /\ faults' = faults - 1
  /\ stopped' = TRUE
  /\ io' = IoAt("exited")
  /\ UNCHANGED <<table, out, wake, timer, listening, piped, work, main, complete>>

-----------------------------------------------------------------------------
(* The main thread: tick(), as far as it meets the transport. *)

MainGo(p) == main' = [main EXCEPT !.pc = p]

\* The queue calls the reply callback of a request that is not cancelled; a
\* tick that has begun does not look at the stop flag.
MainServe ==
  /\ main.pc = "run"
  /\ \E r \in queue :
       \/ /\ r[1] \notin cancelled
          /\ main' = [main EXCEPT !.pc = "reply", !.reply = r]
          /\ UNCHANGED queue
       \/ queue' = queue \ {r} /\ UNCHANGED main      \* cancelled, or late
  /\ UNCHANGED <<table, out, wake, ends, received, io, complete, faults>>

\* The callback is send(): under the lock, then the wake.
MainSend ==
  /\ main.pc = "reply"
  /\ IF Sendable(main.reply[1])
     THEN Enqueue(main.reply[1], main.reply[2]) /\ MainGo("wake") /\ UNCHANGED queue
     ELSE /\ main' = MainAt("run") /\ queue' = queue \ {main.reply}
          /\ UNCHANGED <<closing, outbox, bytes>>
  /\ UNCHANGED <<conns, fd, accepted, cancelled, pendingClose, offset, wire, wake,
                 ends, received, io, complete, faults>>

MainWake ==
  /\ main.pc = "wake"
  /\ Wake
  /\ main' = MainAt("run")
  /\ queue' = queue \ {main.reply}
  /\ UNCHANGED <<table, out, ends, received, io, complete, faults>>

-----------------------------------------------------------------------------
(* The main thread: stop(), called by the user or, once the session is        *)
(* stopped, by the driver's timer until it returns True.  A stop() by the     *)
(* user takes the timer away, between two of its steps, whatever comes of     *)
(* the others: an incomplete one is then for the user to repeat.              *)

StopBy(user) ==
  /\ main.pc = "run" /\ ~complete
  /\ ~user => stopped /\ timer
  /\ stopped' = TRUE
  /\ timer' = (timer /\ ~user)
  /\ MainGo("stopWake")
  /\ UNCHANGED <<table, out, wake, listening, piped, work, io, complete, faults>>

StopBegin == \E user \in BOOLEAN : StopBy(user)

StopWake ==
  /\ main.pc = "stopWake"
  /\ Wake
  /\ MainGo("join")
  /\ UNCHANGED <<table, out, ends, work, io, complete, faults>>

\* _join_io(): at most two seconds; a timeout goes unreported here.
StopJoin ==
  /\ main.pc = "join"
  /\ main' = [main EXCEPT !.pc = "closeAll",
                          !.todo = {<<f, conns[f]>> : f \in {g \in Fds : conns[g] # None}}]
  /\ UNCHANGED <<table, out, wake, ends, work, io, complete, faults>>

\* _close_all_conns(): connection by connection, the state under the lock ...
StopMark ==
  /\ main.pc = "closeAll"
  /\ \E e \in main.todo :
       /\ Mark(e[2])
       /\ main' = [main EXCEPT !.pc = "closeOne", !.todo = @ \ {e}, !.entry = e]
  /\ UNCHANGED <<conns, fd, accepted, cancelled, pendingClose, wire, wake, ends,
                 work, io, complete, faults>>

\* ... shutdown() and close() ...
StopClose ==
  /\ main.pc = "closeOne"
  /\ \/ /\ fd' = [fd EXCEPT ![main.entry[2]] = None]
        /\ MainGo("popOne")
        /\ UNCHANGED faults
     \/ /\ Open(main.entry[2]) /\ faults > 0
        /\ faults' = faults - 1
        /\ main' = [main EXCEPT !.pc = "closeAll", !.failed = TRUE]
        /\ UNCHANGED fd
  /\ UNCHANGED <<conns, accepted, closing, cancelled, pendingClose, out, wake,
                 ends, work, io, complete>>

\* Mutant: the entry is removed whoever it belongs to by now.
StopPopBlind ==
  /\ main.pc = "popOne"
  /\ conns' = [conns EXCEPT ![main.entry[1]] = None]
  /\ main' = [main EXCEPT !.pc = "closeAll", !.entry = <<0, None>>]
  /\ UNCHANGED <<fd, accepted, closing, cancelled, pendingClose, out, wake, ends,
                 work, io, complete, faults>>

\* ... and the table entry, unless the I/O thread has given its descriptor to
\* another connection meanwhile.
StopPop ==
  /\ main.pc = "popOne"
  /\ LET f == main.entry[1] IN
       conns' = IF conns[f] = main.entry[2] THEN [conns EXCEPT ![f] = None] ELSE conns
  /\ main' = [main EXCEPT !.pc = "closeAll", !.entry = <<0, None>>]
  /\ UNCHANGED <<fd, accepted, closing, cancelled, pendingClose, out, wake, ends,
                 work, io, complete, faults>>

\* The rejected sockets are retried unless a close failed.
StopRetry ==
  /\ main.pc = "closeAll" /\ main.todo = {}
  /\ IF main.failed THEN UNCHANGED <<pendingClose, fd, faults>>
                    ELSE RetryPendingCloses
  /\ MainGo("listener")
  /\ UNCHANGED <<conns, accepted, closing, cancelled, out, wake, ends, work, io,
                 complete>>

\* _close_listener(): the listener and the wake pair ...
StopListener ==
  /\ main.pc = "listener"
  /\ \/ /\ listening' = FALSE /\ piped' = FALSE
        /\ MainGo("join2")
        /\ UNCHANGED faults
     \/ /\ faults > 0 /\ faults' = faults - 1
        /\ \/ piped /\ listening' = FALSE /\ UNCHANGED piped
           \/ listening /\ piped' = FALSE /\ UNCHANGED listening
        /\ main' = [main EXCEPT !.pc = "join2", !.failed = TRUE]
  /\ UNCHANGED <<table, out, wake, stopped, timer, work, io, complete>>

\* ... and one second more for the I/O thread; a timeout fails the step.
StopJoinAgain ==
  /\ main.pc = "join2"
  /\ \/ io.pc = "exited" /\ MainGo("drain") /\ UNCHANGED faults
     \/ /\ io.pc # "exited" /\ faults > 0 /\ faults' = faults - 1
        /\ main' = [main EXCEPT !.pc = "drain", !.failed = TRUE]
  /\ UNCHANGED <<table, out, wake, ends, work, io, complete>>

StopDrain ==
  /\ main.pc = "drain"
  /\ queue' = {}
  /\ MainGo("verdict")
  /\ UNCHANGED <<table, out, wake, ends, received, io, complete, faults>>

TransportClosed == /\ ~listening /\ ~piped
                   /\ Current = {} /\ pendingClose = {}
                   /\ io.pc = "exited"

\* Mutant: a failure of one attempt counts against the next.
StopVerdictSticky ==
  /\ main.pc = "verdict"
  /\ complete' = (~main.failed /\ TransportClosed)
  /\ MainGo("run")
  /\ UNCHANGED <<table, out, wake, ends, work, io, faults>>

StopVerdict ==
  /\ main.pc = "verdict"
  /\ complete' = (~main.failed /\ TransportClosed)
  /\ main' = MainAt("run")
  /\ UNCHANGED <<table, out, wake, ends, work, io, faults>>

-----------------------------------------------------------------------------
IoThread == \/ IoLoop \/ IoRetry \/ IoDropClosing \/ IoMark \/ IoClose
            \/ IoRegister \/ IoSelect \/ IoDrainWake \/ IoCheckStopped
            \/ IoAccept \/ IoInsert \/ IoFlush \/ IoSend \/ IoPop
            \/ IoRead \/ IoBusy \/ IoBusyWake \/ IoAbort

Stopping == \/ StopWake \/ StopJoin \/ StopMark \/ StopClose \/ StopPop
            \/ StopRetry \/ StopListener \/ StopJoinAgain \/ StopDrain
            \/ StopVerdict

\* Nothing is left to do once the cleanup is complete.
Done == complete /\ UNCHANGED vars

Next == \/ IoThread
        \/ MainServe \/ MainSend \/ MainWake
        \/ StopBegin \/ Stopping
        \/ Done

Spec == Init /\ [][Next]_vars

\* Both threads run; the driver's timer, as long as it is registered, calls stop()
\* again while the session is stopped and its cleanup incomplete.
FairSpec == /\ Spec
            /\ WF_vars(IoThread)
            /\ WF_vars(MainSend \/ MainWake \/ Stopping)
            /\ WF_vars(StopBy(FALSE))

-----------------------------------------------------------------------------
(* Properties. *)

IoPcs == {"loop", "retry", "drops", "mark", "close", "select", "woken",
          "drained", "accept", "insert", "flush", "sending", "sent", "read",
          "busy", "busyWake", "exited"}
MainPcs == {"run", "reply", "wake", "stopWake", "join", "closeAll", "closeOne",
            "popOne", "listener", "join2", "drain", "verdict"}
Requests == Conns \X (1..MaxRequests)

TypeOK ==
  /\ conns \in [Fds -> Conns \cup {None}]
  /\ fd \in [Conns -> Fds \cup {None}]
  /\ {accepted, closing, cancelled, pendingClose} \subseteq SUBSET Conns
  /\ outbox \in [Conns -> Seq(1..MaxRequests)]
  /\ bytes \in [Conns -> Nat]
  /\ offset \in [Conns -> 0..1]
  /\ wire \in [Conns -> Seq((1..MaxRequests) \X (1..2))]
  /\ {pipe, wakePending, stopped, timer, listening, piped, complete} \subseteq BOOLEAN
  /\ queue \subseteq Requests /\ received \in [Conns -> 0..MaxRequests]
  /\ io \in [pc : IoPcs, conn : Conns \cup {None},
             back : {"drops", "flush", "read"},
             snap : SUBSET Conns, want : SUBSET Conns, r : SUBSET Conns,
             w : SUBSET Conns, acc : BOOLEAN, head : 0..MaxRequests]
  /\ main.pc \in MainPcs /\ main.failed \in BOOLEAN
  /\ main.reply \in Requests \cup {<<None, 0>>}
  /\ main.todo \subseteq (Fds \X Conns)
  /\ faults \in 0..MaxFaults

\* No socket is lost: an open one is in the table under its own descriptor, on
\* the list of closes to retry, or in the I/O thread's hands between accept()
\* and the table - also when a descriptor is reused while stop() closes the
\* table of a thread it could not join.  An entry's socket has that descriptor,
\* or is closed already, and no connection has two entries.
SocketsTracked ==
  /\ \A c \in Conns : Open(c) =>
       \/ conns[fd[c]] = c
       \/ c \in pendingClose
       \/ io.pc = "insert" /\ io.conn = c
  /\ \A f \in Fds : conns[f] # None => fd[conns[f]] \in {f, None}
  /\ \A f, g \in Fds : conns[f] = conns[g] /\ conns[f] # None => f = g

\* What peers can make the session hold is bounded: the connections, and the
\* frames queued for peers that do not read.  The byte counters this is decided
\* on are exact although flush, drop, send and stop() change them in two threads.
LimitsHold ==
  /\ TypeOK
  /\ Cardinality(Current) <= MaxConns
  /\ \A c \in Conns : bytes[c] = Len(outbox[c]) /\ bytes[c] <= MaxOutbox
  /\ Total(bytes, Conns) <= MaxTotal

\* Frames go out whole and in one piece: until stop() begins, what was sent to
\* a peer is a row of frames, no two for the same request, the last one
\* possibly cut - however sends were cut up by a full kernel buffer.
FramesWhole ==
  ~stopped => \A c \in Conns :
    /\ \A i \in 1..Len(wire[c]) :
         /\ wire[c][i][2] = (IF i % 2 = 1 THEN 1 ELSE 2)
         /\ i % 2 = 0 => wire[c][i][1] = wire[c][i - 1][1]
    /\ \A i, j \in 1..Len(wire[c]) : wire[c][i] = wire[c][j] => i = j

\* No lost wake-up: while the I/O thread sleeps in select(), everything it does
\* not know of - a frame in an outbox it did not register for writing, a
\* connection to drop, a stop - is announced by a byte in the pipe, or by a
\* main thread that is about to write one.
NoLostWake ==
  io.pc = "select" /\ ~pipe =>
    /\ \A c \in io.snap :
         (c \in closing \/ (outbox[c] # <<>> /\ c \notin io.want))
            => main.pc = "wake" \/ stopped
    /\ stopped /\ piped => main.pc = "stopWake"

\* A request of a connection that was dropped is never worked on: unless the
\* session is being stopped (then the queue is drained) its event is set.
DeadMeansCancelled ==
  ~stopped => \A r \in queue : ~Open(r[1]) => r[1] \in cancelled

\* What one thread decides reaches the other: a wake-up to the I/O thread, a drop to
\* the main thread (the two parts).
Handover == NoLostWake /\ DeadMeansCancelled

\* cleanup_complete means what the driver takes it for: both threads are out of
\* the transport, nothing is open, and no task waits in the queue.
CompleteMeansDown ==
  complete => /\ \A c \in Conns : ~Open(c)
              /\ ~listening /\ ~piped /\ io.pc = "exited"
              /\ queue = {}

\* No socket is lost while stop() and the I/O thread are at the table together, and
\* none is left when stop() says so (the two parts).
NoSocketLost == SocketsTracked /\ CompleteMeansDown

\* Everything begun comes to an end.  As long as the timer is registered, a connection
\* marked for dropping is closed, and a session the I/O thread has stopped is cleaned
\* up completely.  Every stop() returns and the I/O thread of a stopped session ends;
\* and when the user has to repeat a stop() that was incomplete, one that begins after
\* that and meets no fault of its own completes what the earlier ones have left.
TransportSettles ==
  /\ []<>(/\ main.pc = "run" /\ (stopped => io.pc = "exited")
          /\ timer => (\A c \in closing : ~Open(c)) /\ (stopped => complete))
  /\ main.pc = "stopWake" /\ io.pc = "exited" /\ faults = 0 ~> complete
=============================================================================
