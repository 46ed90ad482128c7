----------------------------- MODULE CppTracker -----------------------------
(***************************************************************************)
(* The C++ tracker: one thread runs EventManager::mainLoop over epoll; the *)
(* events are the listener (p2pListener), a Peer per connection            *)
(* (edge-triggered) and a SocketWriter per connection that has been        *)
(* answered (one-shot, on a descriptor of its own made by dup).            *)
(*                                                                         *)
(* Grain.  The loop is sequential; a step is one event, one accepted       *)
(* connection or one request line.  Only the peers and the kernel act in   *)
(* between.  Connections are numbered in the order they are made, and Peer *)
(* c and SocketWriter c are the objects of connection c.  Descriptors are  *)
(* reused, lowest first.  A request is one line; an answer counts 1 in the *)
(* output buffer.  There are descriptors enough (dup and accept succeed).  *)
(*                                                                         *)
(* A definition named Op_Something is a faulty variant of Op, no part of   *)
(* the specification.                                                      *)
(***************************************************************************)
EXTENDS Integers, Sequences, FiniteSets

CONSTANTS MaxConn,   \* bound: connections made over the whole run
          MaxSend,   \* bound: request lines sent over the whole run
          Request,   \* the kinds of request line the peers send
          MaxErr,    \* MAX_SEQ_ERROR_COUNT (5 in the code)
          MaxBatch   \* events taken by one epoll_wait (10 in the code)

ASSUME CppAssumption ==
    /\ MaxConn \in Nat \ {0} /\ MaxSend \in Nat
    /\ MaxErr \in Nat /\ MaxBatch \in Nat \ {0}
    /\ Request \subseteq {"announce", "half", "update", "look", "getfile",
                          "getbad", "bad", "empty"}

Conn == 1..MaxConn
Fd == 1..(2 * MaxConn)
NoObj == [kind |-> "none", c |-> 0]
Listener == [kind |-> "listener", c |-> 0]
PeerObj(c) == [kind |-> "peer", c |-> c]
WriterObj(c) == [kind |-> "writer", c |-> c]
Obj == {NoObj} \cup {PeerObj(c) : c \in Conn} \cup {WriterObj(c) : c \in Conn}

VARIABLES
    \* the peers and the kernel
    link,           \* "none" | "up" | "fin" (peer closed) | "rst" (reset)
    inq,            \* request lines not read yet
    nconn, nacc,    \* connections made; accepted (the backlog is FIFO)
    nsend,
    full,           \* the send buffer of the connection has no room
    edge, ledge,    \* an edge epoll has not reported: of Peer c, the listener
    epout,          \* SocketWriter c is enabled in epoll
    \* the objects
    peer, writer,   \* "none" | "live" | "freed"
    pfd, wfd,       \* their descriptors, 0 when closed
    armed, out,     \* SocketWriter::_armed; the bytes in _writeBuf
    announced, errs, peers,    \* Peer::_announced, _seqErrorCount; File::_peers
    \* EventManager
    events,         \* _events, but for the listener, which is always there
    eventCount, deleteSet,
    pc, batch,      \* position of mainLoop; the events epoll_wait returned
    cur, lines, eof,    \* the Peer being handled, its unread lines, end of file
    \* history: a write to the connection failed; the second write of a
    \* wrapped buffer was refused
    wfail, refused,
    fault           \* "none" | "crash" | "ub"

kernelVars == <<link, inq, nconn, nacc, nsend, full, edge, ledge>>
objVars == <<peer, writer, pfd, wfd>>
outVars == <<epout, armed, out, wfail, refused>>
peerVars == <<announced, errs, peers>>
evVars == <<events, eventCount, deleteSet>>
loopVars == <<pc, batch, cur, lines, eof>>
vars == <<kernelVars, objVars, outVars, peerVars, evVars, loopVars, fault>>

Dead(c) == link[c] \in {"fin", "rst"}
Registered(o) == \E fd \in Fd : events[fd] = o
FreeFd == Fd \ ({pfd[c] : c \in Conn} \cup {wfd[c] : c \in Conn})
LowestFd == CHOOSE fd \in FreeFd : \A g \in FreeFd : fd <= g

(* main registers the listener with a new EventManager.                    *)
NoEvents ==
    /\ events = [fd \in Fd |-> NoObj] /\ deleteSet = {}
    /\ pc = "wait" /\ batch = {} /\ cur = 0 /\ lines = <<>> /\ eof = FALSE
ListenerRegistered == eventCount = 1 /\ ledge = FALSE

Init ==
    /\ NoEvents /\ ListenerRegistered
    /\ link = [c \in Conn |-> "none"] /\ inq = [c \in Conn |-> <<>>]
    /\ nconn = 0 /\ nacc = 0 /\ nsend = 0
    /\ full = [c \in Conn |-> FALSE]
    /\ edge = [c \in Conn |-> FALSE]
    /\ epout = [c \in Conn |-> FALSE]
    /\ peer = [c \in Conn |-> "none"] /\ writer = [c \in Conn |-> "none"]
    /\ pfd = [c \in Conn |-> 0] /\ wfd = [c \in Conn |-> 0]
    /\ armed = [c \in Conn |-> FALSE] /\ out = [c \in Conn |-> 0]
    /\ announced = [c \in Conn |-> FALSE] /\ errs = [c \in Conn |-> 0]
    /\ peers = {}
    /\ wfail = [c \in Conn |-> FALSE] /\ refused = [c \in Conn |-> FALSE]
    /\ fault = "none"
-----------------------------------------------------------------------------
Running == fault = "none" /\ pc # "exit"

Connect ==
    /\ Running /\ nconn < MaxConn
    /\ nconn' = nconn + 1 /\ link' = [link EXCEPT ![nconn + 1] = "up"]
    /\ ledge' = TRUE
    /\ UNCHANGED <<inq, nacc, nsend, full, edge, objVars, outVars, peerVars,
                   evVars, loopVars, fault>>

Send(c, r) ==
    /\ Running /\ link[c] = "up" /\ nsend < MaxSend
    /\ nsend' = nsend + 1
    /\ inq' = [inq EXCEPT ![c] = Append(@, r)]
    /\ edge' = [edge EXCEPT ![c] = TRUE]
    /\ UNCHANGED <<link, nconn, nacc, full, ledge, objVars, outVars, peerVars,
                   evVars, loopVars, fault>>

Close(c, how) ==
    /\ Running /\ (link[c] = "up" \/ (link[c] = "fin" /\ how = "rst"))
    /\ link' = [link EXCEPT ![c] = how]
    /\ edge' = [edge EXCEPT ![c] = TRUE]
    /\ UNCHANGED <<inq, nconn, nacc, nsend, full, ledge, objVars, outVars,
                   peerVars, evVars, loopVars, fault>>

(* The peer reads its answers: the send buffer has room again.             *)
PeerReads(c) ==
    /\ Running /\ link[c] \in {"up", "fin"} /\ full[c]
    /\ full' = [full EXCEPT ![c] = FALSE]
    /\ UNCHANGED <<link, inq, nconn, nacc, nsend, edge, ledge, objVars, outVars,
                   peerVars, evVars, loopVars, fault>>
-----------------------------------------------------------------------------
(* EventManager and the objects it is given.  EPOLL_CTL_MOD fails for a    *)
(* descriptor that is no longer registered.                                *)
registerEvent(fd, o) ==
    /\ events' = [events EXCEPT ![fd] = o] /\ eventCount' = eventCount + 1
unregisterEvent(fd) ==
    /\ events' = [events EXCEPT ![fd] = NoObj] /\ eventCount' = eventCount - 1

rearmEvent(c) ==
    epout' = [epout EXCEPT ![c] = @ \/ Registered(WriterObj(c))]

(* The constructor of Socket keeps the descriptor, its destructor closes it. *)
NewSocket(c, fd) ==
    peer' = [peer EXCEPT ![c] = "live"] /\ pfd' = [pfd EXCEPT ![c] = fd]
DeleteSocket(c) ==
    peer' = [peer EXCEPT ![c] = "freed"] /\ pfd' = [pfd EXCEPT ![c] = 0]

(* A SocketWriter is made armed, on a duplicate of the descriptor.         *)
makeSockFD(c, fd) == wfd' = [wfd EXCEPT ![c] = fd]
NewSocketWriter(c, fd) ==
    /\ writer' = [writer EXCEPT ![c] = "live"] /\ makeSockFD(c, fd)
    /\ armed' = [armed EXCEPT ![c] = TRUE]
DeleteSocketWriter(c) ==
    writer' = [writer EXCEPT ![c] = "freed"] /\ wfd' = [wfd EXCEPT ![c] = 0]

rearm(c) ==
    /\ armed' = [armed EXCEPT ![c] = TRUE]
    /\ IF armed[c] THEN UNCHANGED epout ELSE rearmEvent(c)
-----------------------------------------------------------------------------
At(here) == fault = "none" /\ pc = here

(* epoll_wait.  Nothing is reported of a SocketWriter that is disabled;    *)
(* one that is enabled is reported when there is room, or after a reset.   *)
EventOf(fd) == [fd |-> fd, obj |-> events[fd]]
IsReady(fd) ==
    LET o == events[fd]
    IN  \/ o.kind = "peer" /\ edge[o.c]
        \/ o.kind = "writer" /\ epout[o.c] /\ (~full[o.c] \/ link[o.c] = "rst")
Ready == {EventOf(fd) : fd \in {g \in Fd : IsReady(g)}}
            \cup (IF ledge THEN {[fd |-> 0, obj |-> Listener]} ELSE {})

EpollWait ==
    /\ At("wait") /\ Ready # {}
    /\ \E b \in SUBSET Ready :
        /\ b = Ready \/ Cardinality(b) = MaxBatch
        /\ Cardinality(b) <= MaxBatch
        /\ batch' = b
        /\ edge' = [c \in Conn |-> edge[c] /\ \A e \in b : e.obj # PeerObj(c)]
        /\ ledge' = (ledge /\ \A e \in b : e.obj # Listener)
        /\ epout' = [c \in Conn |->
                       epout[c] /\ \A e \in b : e.obj # WriterObj(c)]
    /\ pc' = "dispatch"
    /\ UNCHANGED <<link, inq, nconn, nacc, nsend, full, armed, out, wfail,
                   refused, objVars, peerVars, evVars, cur, lines, eof, fault>>

(* The descriptor of the event was unregistered earlier in the batch.      *)
DispatchNone(e) ==
    /\ At("dispatch") /\ e \in batch /\ e.fd # 0 /\ events[e.fd] = NoObj
    /\ batch' = batch \ {e}
    /\ UNCHANGED <<kernelVars, objVars, outVars, peerVars, evVars, pc, cur,
                   lines, eof, fault>>
-----------------------------------------------------------------------------
(* ServerSocket::eventHandler accepts until EAGAIN; p2pListener makes a    *)
(* Peer of each connection, deleted with its event.                        *)
DispatchListener(e) ==
    /\ At("dispatch") /\ e \in batch /\ e.fd = 0
    /\ batch' = batch \ {e} /\ pc' = "accept"
    /\ UNCHANGED <<kernelVars, objVars, outVars, peerVars, evVars, cur, lines,
                   eof, fault>>

Pending == nacc < nconn
Accept ==
    LET c == nacc + 1
    IN  /\ At("accept") /\ Pending /\ link[c] # "rst"
        /\ nacc' = c
        /\ NewSocket(c, LowestFd) /\ registerEvent(LowestFd, PeerObj(c))
        /\ edge' = [edge EXCEPT ![c] = inq[c] # <<>> \/ Dead(c)]
        /\ UNCHANGED <<link, inq, nconn, nsend, full, ledge, writer, wfd,
                       outVars, peerVars, deleteSet, loopVars, fault>>

(* ClientSocket's constructor exits the process when getpeername fails.    *)
AcceptFails ==
    /\ At("accept") /\ Pending /\ link[nacc + 1] = "rst"
    /\ fault' = "crash"
    /\ UNCHANGED <<kernelVars, objVars, outVars, peerVars, evVars, loopVars>>

AcceptEnd ==
    /\ At("accept") /\ ~Pending
    /\ pc' = "dispatch"
    /\ UNCHANGED <<kernelVars, objVars, outVars, peerVars, evVars, batch, cur,
                   lines, eof, fault>>
-----------------------------------------------------------------------------
(* unregisterEvent of a Peer, whose deletion waits for cleanDeleteList.    *)
UnregisterPeer_Leak(c) ==
    /\ events' = [events EXCEPT ![pfd[c]] = NoObj]
    /\ eventCount' = eventCount - 1
    /\ UNCHANGED <<deleteSet, objVars>>

UnregisterPeer_DeleteNow(c) ==
    /\ events' = [fd \in Fd |-> IF fd \in {pfd[c], wfd[c]}
                                THEN NoObj ELSE events[fd]]
    /\ eventCount' = eventCount - (IF writer[c] = "live" THEN 2 ELSE 1)
    /\ peer' = [peer EXCEPT ![c] = "freed"] /\ pfd' = [pfd EXCEPT ![c] = 0]
    /\ writer' = [writer EXCEPT ![c] = IF @ = "live" THEN "freed" ELSE @]
    /\ wfd' = [wfd EXCEPT ![c] = 0]
    /\ UNCHANGED deleteSet

UnregisterPeer_NotCounted(c) ==
    /\ events' = [events EXCEPT ![pfd[c]] = NoObj]
    /\ deleteSet' = deleteSet \cup {c}
    /\ UNCHANGED <<eventCount, objVars>>

UnregisterPeer(c) ==
    /\ unregisterEvent(pfd[c])
    /\ deleteSet' = deleteSet \cup {c}
    /\ UNCHANGED objVars

(* ClientSocket::eventHandler reads until EAGAIN, end of file or an error. *)
Drained_OneLine(c) == IF inq[c] = <<>> THEN <<>> ELSE <<Head(inq[c])>>
Drained(c) == inq[c]

DispatchPeer(e) ==
    LET c == events[e.fd].c
    IN  /\ At("dispatch") /\ e \in batch /\ e.fd # 0
        /\ events[e.fd].kind = "peer"
        /\ cur' = c /\ batch' = batch \ {e} /\ pc' = "lines"
        /\ lines' = Drained(c)
        /\ inq' = [inq EXCEPT ![c] = SubSeq(@, Len(Drained(c)) + 1, Len(@))]
        /\ eof' = Dead(c)
        /\ UNCHANGED <<link, nconn, nacc, nsend, full, edge, ledge, objVars,
                       outVars, peerVars, evVars, fault>>

(* Peer::readHandler, one line per step.                                   *)
Outcome(c, r) ==
    CASE r = "empty" -> "none"
      [] r \in {"bad", "half"} -> "error"
      [] r = "announce" /\ ~announced[c] -> "ok"
      [] r # "announce" /\ announced[c] ->
            IF r = "getbad" THEN "crash"
            ELSE IF r = "getfile" /\ \E d \in peers \ {c} : peer[d] = "freed"
            THEN "ub" ELSE "ok"
      [] OTHER -> "error"

(* The lists are parsed, and the peer added to the files they name, before *)
(* a later word of the request is found wrong ("half").                    *)
Joins(c, r) == IF announced[c] THEN r = "update" ELSE r \in {"announce", "half"}

(* ClientSocket::write: the first answer makes the SocketWriter, a later   *)
(* one rearms it.                                                          *)
Write(c) ==
    /\ out' = [out EXCEPT ![c] = @ + 1]
    /\ IF writer[c] = "none"
       THEN /\ NewSocketWriter(c, LowestFd)
            /\ registerEvent(LowestFd, WriterObj(c))
            /\ epout' = [epout EXCEPT ![c] = TRUE]
       ELSE rearm(c) /\ UNCHANGED <<writer, wfd, events, eventCount>>
    /\ refused' = [refused EXCEPT ![c] = @ /\ armed[c]]
    /\ UNCHANGED <<peer, pfd, deleteSet, wfail>>

(* A request that is answered; too many errors in a row end the reading.   *)
TooManyErrors(n) == n > MaxErr

HandleLine ==
    LET c == cur
        r == Head(lines)
        o == Outcome(c, r)
        n == IF o = "ok" THEN 0 ELSE errs[c] + 1
    IN  /\ At("lines") /\ lines # <<>> /\ o \in {"ok", "error"}
        /\ Write(c)
        /\ announced' = [announced EXCEPT ![c] =
                            @ \/ (o = "ok" /\ r = "announce")]
        /\ peers' = IF Joins(c, r) THEN peers \cup {c} ELSE peers
        /\ errs' = [errs EXCEPT ![c] = n]
        /\ lines' = Tail(lines)
        /\ pc' = IF TooManyErrors(n) THEN "drop" ELSE "lines"
        /\ UNCHANGED <<kernelVars, batch, cur, eof, fault>>

HandleEmptyLine ==
    /\ At("lines") /\ lines # <<>> /\ Outcome(cur, Head(lines)) = "none"
    /\ lines' = Tail(lines)
    /\ UNCHANGED <<kernelVars, objVars, outVars, peerVars, evVars, pc, batch,
                   cur, eof, fault>>

(* getfile of an unknown key dereferences NULL; getfile of a file whose    *)
(* _peers holds a deleted Peer uses it.                                    *)
HandleFault ==
    /\ At("lines") /\ lines # <<>>
    /\ Outcome(cur, Head(lines)) \in {"crash", "ub"}
    /\ fault' = Outcome(cur, Head(lines))
    /\ UNCHANGED <<kernelVars, objVars, outVars, peerVars, evVars, loopVars>>

(* eventHandler returns true: the connection is still open.                *)
KeepPeer_Always == TRUE
KeepPeer == ~eof
LinesEnd ==
    /\ At("lines") /\ lines = <<>> /\ KeepPeer
    /\ pc' = "dispatch" /\ cur' = 0
    /\ UNCHANGED <<kernelVars, objVars, outVars, peerVars, evVars, batch, lines,
                   eof, fault>>

(* eventHandler returns false.                                             *)
DropPeer ==
    /\ At("drop") \/ (At("lines") /\ lines = <<>> /\ ~KeepPeer)
    /\ UnregisterPeer(cur)
    /\ pc' = "dispatch" /\ cur' = 0 /\ lines' = <<>> /\ eof' = FALSE
    /\ UNCHANGED <<kernelVars, outVars, peerVars, batch, fault>>
-----------------------------------------------------------------------------
(* SocketWriter::eventHandler.                                             *)
DispatchWriter(e, c) ==
    /\ At("dispatch") /\ e \in batch /\ e.fd # 0
    /\ events[e.fd] = WriterObj(c)
    /\ batch' = batch \ {e}
    /\ UNCHANGED <<link, inq, nconn, nacc, nsend, edge, ledge, objVars,
                   peerVars, pc, cur, lines, eof>>

(* All of the buffer is written, or there was nothing to write.            *)
WriteAll(e, c) ==
    /\ DispatchWriter(e, c) /\ (out[c] = 0 \/ link[c] # "rst")
    /\ armed' = [armed EXCEPT ![c] = FALSE] /\ out' = [out EXCEPT ![c] = 0]
    /\ UNCHANGED <<full, epout, wfail, refused, evVars, fault>>

(* A part is written, and the writer rearmed.                              *)
WritePart_NotRearmed(e, c) ==
    /\ DispatchWriter(e, c) /\ out[c] > 0 /\ link[c] # "rst"
    /\ \E n \in 1..out[c] : out' = [out EXCEPT ![c] = n]
    /\ full' = [full EXCEPT ![c] = TRUE]
    /\ armed' = [armed EXCEPT ![c] = FALSE]
    /\ UNCHANGED <<epout, wfail, refused, evVars, fault>>

WritePart(e, c) ==
    /\ DispatchWriter(e, c) /\ out[c] > 0 /\ link[c] # "rst"
    /\ \E n \in 1..out[c] : out' = [out EXCEPT ![c] = n]
    /\ full' = [full EXCEPT ![c] = TRUE]
    /\ armed' = [armed EXCEPT ![c] = TRUE]
    /\ rearmEvent(c)
    /\ UNCHANGED <<wfail, refused, evVars, fault>>

(* The buffer wraps and its second half gets EAGAIN: nothing is taken off  *)
(* the buffer, and the writer is not rearmed.                              *)
WriteRefused(e, c) ==
    /\ DispatchWriter(e, c) /\ out[c] > 1 /\ link[c] # "rst"
    /\ full' = [full EXCEPT ![c] = TRUE]
    /\ armed' = [armed EXCEPT ![c] = FALSE]
    /\ refused' = [refused EXCEPT ![c] = TRUE]
    /\ UNCHANGED <<epout, out, wfail, evVars, fault>>

(* ECONNRESET: the SocketWriter is unregistered and kept by its Peer.      *)
WriteFails(e, c) ==
    /\ DispatchWriter(e, c) /\ out[c] > 0 /\ link[c] = "rst"
    /\ armed' = [armed EXCEPT ![c] = FALSE]
    /\ unregisterEvent(e.fd)
    /\ wfail' = [wfail EXCEPT ![c] = TRUE]
    /\ UNCHANGED <<full, epout, out, refused, deleteSet, fault>>

(* EPIPE: SIGPIPE is neither caught nor ignored.                           *)
WriteBrokenPipe(e, c) ==
    /\ DispatchWriter(e, c) /\ out[c] > 0 /\ link[c] = "rst"
    /\ fault' = "crash"
    /\ UNCHANGED <<full, epout, armed, out, wfail, refused, evVars>>
-----------------------------------------------------------------------------
(* cleanDeleteList, one deletion per step: ~ClientSocket unregisters the   *)
(* SocketWriter (again, if its write has failed) and deletes it, ~Socket   *)
(* closes the descriptor.                                                  *)
DeletePeer_KeepWriter(c) ==
    /\ At("dispatch") /\ batch = {} /\ c \in deleteSet
    /\ deleteSet' = deleteSet \ {c}
    /\ DeleteSocket(c)
    /\ UNCHANGED <<kernelVars, outVars, writer, wfd, events, eventCount,
                   peerVars, loopVars, fault>>

DeletePeer(c) ==
    /\ At("dispatch") /\ batch = {} /\ c \in deleteSet
    /\ deleteSet' = deleteSet \ {c}
    /\ DeleteSocket(c)
    /\ IF writer[c] = "live"
       THEN /\ unregisterEvent(wfd[c])
            /\ epout' = [epout EXCEPT ![c] = FALSE]
            /\ DeleteSocketWriter(c)
       ELSE UNCHANGED <<events, eventCount, epout, writer, wfd>>
    /\ UNCHANGED <<kernelVars, armed, out, wfail, refused, peerVars, loopVars,
                   fault>>

(* "no more event: exiting main event loop"                                *)
LoopEnd ==
    /\ At("dispatch") /\ batch = {} /\ deleteSet = {}
    /\ pc' = IF eventCount = 0 THEN "exit" ELSE "wait"
    /\ UNCHANGED <<kernelVars, objVars, outVars, peerVars, evVars, batch, cur,
                   lines, eof, fault>>
-----------------------------------------------------------------------------
PeerStep ==
    \/ Connect
    \/ \E c \in Conn, r \in Request : Send(c, r)
    \/ \E c \in Conn, how \in {"fin", "rst"} : Close(c, how)
    \/ \E c \in Conn : PeerReads(c)

LoopStep ==
    \/ EpollWait
    \/ \E e \in batch : DispatchNone(e) \/ DispatchListener(e) \/ DispatchPeer(e)
    \/ Accept \/ AcceptFails \/ AcceptEnd
    \/ HandleLine \/ HandleEmptyLine \/ HandleFault \/ LinesEnd \/ DropPeer
    \/ \E e \in batch, c \in Conn :
        \/ WriteAll(e, c) \/ WritePart(e, c) \/ WriteRefused(e, c)
        \/ WriteFails(e, c) \/ WriteBrokenPipe(e, c)
    \/ \E c \in Conn : DeletePeer(c)
    \/ LoopEnd

Next == PeerStep \/ LoopStep

Spec == Init /\ [][Next]_vars

(* The loop runs as long as it is not blocked in epoll_wait.               *)
FairSpec == Spec /\ WF_vars(LoopStep)
-----------------------------------------------------------------------------
(* Type invariant: the range of every variable of the event loop.          *)
TypeOK ==
    /\ link \in [Conn -> {"none", "up", "fin", "rst"}]
    /\ inq \in [Conn -> Seq(Request)] /\ lines \in Seq(Request)
    /\ nconn \in 0..MaxConn /\ nacc \in 0..nconn /\ nsend \in 0..MaxSend
    /\ full \in [Conn -> BOOLEAN] /\ edge \in [Conn -> BOOLEAN]
    /\ ledge \in BOOLEAN /\ epout \in [Conn -> BOOLEAN]
    /\ peer \in [Conn -> {"none", "live", "freed"}]
    /\ writer \in [Conn -> {"none", "live", "freed"}]
    /\ pfd \in [Conn -> Fd \cup {0}] /\ wfd \in [Conn -> Fd \cup {0}]
    /\ armed \in [Conn -> BOOLEAN] /\ out \in [Conn -> Nat]
    /\ announced \in [Conn -> BOOLEAN] /\ errs \in [Conn -> 0..(MaxErr + 1)]
    /\ peers \subseteq Conn
    /\ events \in [Fd -> Obj] /\ eventCount \in Int /\ deleteSet \subseteq Conn
    /\ pc \in {"wait", "dispatch", "accept", "lines", "drop", "exit"}
    /\ batch \subseteq [fd : Fd \cup {0}, obj : Obj \cup {Listener}]
    /\ cur \in Conn \cup {0} /\ eof \in BOOLEAN
    /\ wfail \in [Conn -> BOOLEAN] /\ refused \in [Conn -> BOOLEAN]
    /\ fault \in {"none", "crash", "ub"}

(* mainLoop looks events up by descriptor, and descriptors are reused.     *)
(* Deletion waits for the end of the batch, so an event that was reported  *)
(* for one connection never reaches the object of another one.             *)
EventReachesOwner ==
    \A e \in batch : e.fd # 0 => events[e.fd] \in {e.obj, NoObj}

(* What is registered is alive, on its own open descriptor, and a          *)
(* SocketWriter does not outlive the Peer whose buffer it writes.          *)
RegisteredIsLive ==
    \A fd \in Fd, c \in Conn :
        /\ events[fd] = PeerObj(c) => peer[c] = "live" /\ pfd[c] = fd
        /\ events[fd] = WriterObj(c) =>
              peer[c] = "live" /\ writer[c] = "live" /\ wfd[c] = fd

(* A Peer that is no longer registered will be deleted: no connection and  *)
(* no descriptor is left behind, whichever handler dropped it.             *)
UnregisteredIsDeleted ==
    \A c \in Conn : peer[c] = "live" =>
        Registered(PeerObj(c)) \/ c \in deleteSet

(* No answer is forgotten: while there is output, the SocketWriter is      *)
(* enabled in epoll or its event is in the batch, although _armed and the  *)
(* one-shot state of epoll change at different times.                      *)
OutputArmed ==
    \A c \in Conn : out[c] > 0 /\ Registered(WriterObj(c)) /\ fault = "none" =>
        epout[c] \/ refused[c] \/ \E e \in batch : e.obj = WriterObj(c)

(* _eventCount is the number of registered events, unless a SocketWriter   *)
(* whose write failed was unregistered and then unregistered again.        *)
EventCountExact ==
    (\A c \in Conn : ~wfail[c]) =>
        eventCount = 1 + Cardinality({fd \in Fd : events[fd] # NoObj})

(* mainLoop stops on _eventCount == 0 and says "no more event: exiting     *)
(* main event loop".  The listener's event stays registered, so this never *)
(* happens.                                                                *)
NoMoreEvent == pc # "exit"

Stopped == fault # "none" \/ pc = "exit"

(* Edge-triggered reading loses nothing: a line that arrives on a          *)
(* registered connection is read, whenever it arrives.                     *)
LineIsRead ==
    \A c \in Conn :
        (inq[c] # <<>> /\ Registered(PeerObj(c)))
            ~> (inq[c] = <<>> \/ ~Registered(PeerObj(c)) \/ Stopped)

(* A closed connection is noticed, and its Peer deleted.                   *)
HangupDeletesPeer ==
    \A c \in Conn : (Dead(c) /\ peer[c] = "live") ~> (peer[c] = "freed" \/ Stopped)
=============================================================================
