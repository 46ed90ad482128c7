-------------------------- MODULE CppTrackerProofs --------------------------
(***************************************************************************)
(* Theorems about CppTracker for every number of connections and lines:    *)
(* types, and the safety invariants of the event loop.                     *)
(***************************************************************************)
EXTENDS CppTracker, FiniteSetTheorems, WellFoundedInduction, TLAPS

(* The parts of TypeOK, by what keeps them.                                *)
KernelOK ==
    /\ link \in [Conn -> {"none", "up", "fin", "rst"}]
    /\ nconn \in 0..MaxConn /\ nacc \in 0..nconn /\ nsend \in 0..MaxSend
    /\ full \in [Conn -> BOOLEAN] /\ edge \in [Conn -> BOOLEAN]
    /\ ledge \in BOOLEAN
LinesOK == inq \in [Conn -> Seq(Request)] /\ lines \in Seq(Request)
ObjOK ==
    /\ peer \in [Conn -> {"none", "live", "freed"}]
    /\ writer \in [Conn -> {"none", "live", "freed"}]
    /\ pfd \in [Conn -> Fd \cup {0}] /\ wfd \in [Conn -> Fd \cup {0}]
OutOK ==
    /\ epout \in [Conn -> BOOLEAN]
    /\ armed \in [Conn -> BOOLEAN] /\ out \in [Conn -> Nat]
    /\ wfail \in [Conn -> BOOLEAN] /\ refused \in [Conn -> BOOLEAN]
PeerOK ==
    /\ announced \in [Conn -> BOOLEAN] /\ errs \in [Conn -> 0..(MaxErr + 1)]
    /\ peers \subseteq Conn
EvOK == events \in [Fd -> Obj] /\ eventCount \in Int /\ deleteSet \subseteq Conn
LoopOK ==
    /\ pc \in {"wait", "dispatch", "accept", "lines", "drop", "exit"}
    /\ batch \subseteq [fd : Fd \cup {0}, obj : Obj \cup {Listener}]
    /\ cur \in Conn \cup {0} /\ eof \in BOOLEAN
    /\ fault \in {"none", "crash", "ub"}

(* An object has a descriptor as long as it lives, no two objects the same *)
(* one, and a writer lives no longer than its Peer.                        *)
FdInv ==
    /\ \A c \in Conn : peer[c] = "live" <=> pfd[c] # 0
    /\ \A c \in Conn : writer[c] = "live" <=> wfd[c] # 0
    /\ \A c \in Conn : writer[c] = "live" => peer[c] = "live"
    /\ \A c, d \in Conn : pfd[c] = pfd[d] /\ pfd[c] # 0 => c = d
    /\ \A c, d \in Conn : wfd[c] = wfd[d] /\ wfd[c] # 0 => c = d
    /\ \A c, d \in Conn : pfd[c] # 0 => pfd[c] # wfd[d]
    /\ \A c \in Conn : c > nacc => peer[c] = "none" /\ writer[c] = "none"
    /\ \A c \in Conn : wfail[c] => writer[c] # "none"

(* A live Peer is registered on its descriptor or waits to be deleted; a   *)
(* live writer is registered on its own unless a write has failed.         *)
EventInv ==
    /\ \A fd \in Fd, c \in Conn :
          events[fd] = PeerObj(c) => pfd[c] = fd /\ c \notin deleteSet
    /\ \A fd \in Fd, c \in Conn :
          events[fd] = WriterObj(c) => wfd[c] = fd /\ ~wfail[c]
    /\ \A c \in Conn : peer[c] = "live" =>
          c \in deleteSet \/ events[pfd[c]] = PeerObj(c)
    /\ \A c \in deleteSet : peer[c] = "live"
    /\ \A c \in Conn : writer[c] = "live" =>
          wfail[c] \/ events[wfd[c]] = WriterObj(c)

(* What was reported of a connection has still the descriptor it had.      *)
EntryOf(e, c) ==
    \/ e.obj = PeerObj(c) /\ pfd[c] = e.fd
    \/ e.obj = WriterObj(c) /\ wfd[c] = e.fd
BatchInv ==
    /\ pc = "wait" => batch = {}
    /\ \A e \in batch :
          \/ e.fd = 0 /\ e.obj = Listener
          \/ e.fd \in Fd /\ \E c \in Conn : EntryOf(e, c)

(* The Peer whose lines are handled is registered, and a Peer with too     *)
(* many errors is about to be dropped or has been.                         *)
CurInv ==
    /\ pc \in {"lines", "drop"} =>
          cur \in Conn /\ peer[cur] = "live" /\ cur \notin deleteSet
    /\ \A c \in Conn : errs[c] > MaxErr =>
          c \in deleteSet \/ peer[c] = "freed" \/ (pc = "drop" /\ cur = c)

(* _armed is not set for nothing, and reset only when nothing is left to   *)
(* write or the write was refused or failed.                               *)
InBatch(c) == \E e \in batch : e.obj = WriterObj(c)
ArmedInv ==
    fault = "none" =>
        /\ \A c \in Conn : armed[c] =>
              wfail[c] \/ writer[c] # "live" \/ epout[c] \/ InBatch(c)
        /\ \A c \in Conn : out[c] > 0 => armed[c] \/ refused[c] \/ wfail[c]

SafeInv ==
    /\ TypeOK
    /\ FdInv /\ EventInv
    /\ BatchInv /\ CurInv
    /\ ArmedInv
    /\ EventCountExact
-----------------------------------------------------------------------------
LEMMA TypeParts ==
    TypeOK <=> /\ KernelOK /\ LinesOK /\ ObjOK /\ OutOK
               /\ PeerOK /\ EvOK /\ LoopOK
  BY DEF TypeOK, KernelOK, LinesOK, ObjOK, OutOK, PeerOK, EvOK, LoopOK

LEMMA TypePartsNext ==
    ASSUME (KernelOK /\ LinesOK /\ ObjOK /\ OutOK)', (PeerOK /\ EvOK /\ LoopOK)'
    PROVE  TypeOK'
  BY DEF TypeOK, KernelOK, LinesOK, ObjOK, OutOK, PeerOK, EvOK, LoopOK

(* Connections and descriptors are positive numbers.                       *)
LEMMA Numbers ==
    /\ \A c \in Conn : c \in Nat /\ c # 0 /\ c <= MaxConn
    /\ \A fd \in Fd : fd \in Nat /\ fd # 0
    /\ 0 \notin Fd /\ 0 \notin Conn
  BY CppAssumption DEF Conn, Fd

(* The objects a descriptor may be registered with are told apart.         *)
LEMMA Objects ==
    /\ \A c \in Conn : PeerObj(c).kind = "peer" /\ PeerObj(c).c = c
    /\ \A c \in Conn : WriterObj(c).kind = "writer" /\ WriterObj(c).c = c
    /\ NoObj.kind = "none" /\ Listener.kind = "listener"
    /\ \A c \in Conn : PeerObj(c) \in Obj /\ WriterObj(c) \in Obj
    /\ NoObj \in Obj
    /\ \A o \in Obj : o = NoObj \/ \E c \in Conn : o = PeerObj(c) \/ o = WriterObj(c)
  BY DEF PeerObj, WriterObj, NoObj, Listener, Obj

LEMMA Distinct ==
    /\ \A c, d \in Conn : PeerObj(c) # WriterObj(d)
    /\ \A c, d \in Conn : PeerObj(c) = PeerObj(d) => c = d
    /\ \A c, d \in Conn : WriterObj(c) = WriterObj(d) => c = d
    /\ \A c \in Conn : PeerObj(c) # NoObj /\ WriterObj(c) # NoObj
    /\ \A c \in Conn : PeerObj(c) # Listener /\ WriterObj(c) # Listener
    /\ Listener # NoObj
<1>1. \A c, d \in Conn : PeerObj(c) # WriterObj(d)
  BY Objects
<1>2. \A c, d \in Conn : PeerObj(c) = PeerObj(d) => c = d
  <2> TAKE c, d \in Conn
  <2>1. PeerObj(c).c = c /\ PeerObj(d).c = d
    BY Objects
  <2> QED
    BY <2>1
<1>3. \A c, d \in Conn : WriterObj(c) = WriterObj(d) => c = d
  <2> TAKE c, d \in Conn
  <2>1. WriterObj(c).c = c /\ WriterObj(d).c = d
    BY Objects
  <2> QED
    BY <2>1
<1>4. \A c \in Conn : PeerObj(c) # NoObj /\ WriterObj(c) # NoObj
  BY Objects
<1>5. \A c \in Conn : PeerObj(c) # Listener /\ WriterObj(c) # Listener
  BY Objects
<1>6. Listener # NoObj
  BY Objects
<1> QED
  BY <1>1, <1>2, <1>3, <1>4, <1>5, <1>6
-----------------------------------------------------------------------------
(* Of n slots one is empty: some number up to n is in none of them.        *)
LEMMA FreeNumber ==
    ASSUME NEW n \in Nat, NEW slot, NEW x \in 1..n,
           \A i \in 1..n : slot[i] \in 0..n, slot[x] = 0
    PROVE  \E k \in 1..n : \A i \in 1..n : slot[i] # k
<1> SUFFICES ASSUME \A k \in 1..n : \E i \in 1..n : slot[i] = k
             PROVE  FALSE
  OBVIOUS
<1> DEFINE S == 1..n
           T == S \ {x}
           own == [k \in S |-> CHOOSE i \in S : slot[i] = k]
<1>1. \A k \in S : own[k] \in S /\ slot[own[k]] = k
  OBVIOUS
<1>2. own \in [S -> T]
  <2>1. \A k \in S : own[k] # x
    BY <1>1
  <2> QED
    BY <1>1, <2>1
<1>3. IsFiniteSet(S) /\ Cardinality(S) = n
  BY FS_Interval
<1>4. IsFiniteSet(T) /\ Cardinality(T) = n - 1
  BY <1>3, FS_RemoveElement
<1>5. Cardinality(T) < Cardinality(S)
  BY <1>3, <1>4
<1> HIDE DEF own, T, S
<1>6. \E j, k \in S : j # k /\ own[j] = own[k]
  BY <1>2, <1>3, <1>4, <1>5, FS_PigeonHole
<1> QED
  BY <1>1, <1>6

(* A set of naturals that is not empty has a least element.                *)
LEMMA Least ==
    ASSUME NEW S \in SUBSET Nat, S # {}
    PROVE  \E k \in S : \A m \in S : k <= m
<1>1. PICK k \in S : \A m \in S : ~(<<m, k>> \in OpToRel(<, Nat))
  BY NatLessThanWellFounded, WFMin
<1>2. \A m \in S : ~(m < k)
  <2> TAKE m \in S
  <2>1. <<m, k>> \in Nat \X Nat
    OBVIOUS
  <2>2. m < k => <<m, k>> \in OpToRel(<, Nat)
    BY <2>1, Zenon DEF OpToRel
  <2> QED
    BY <2>2, <1>1
<1> QED
  BY <1>2

(* The descriptor of a new object is free.                                 *)
LEMMA LowestFree ==
    ASSUME ObjOK, NEW c \in Conn, pfd[c] = 0 \/ wfd[c] = 0
    PROVE  /\ LowestFd \in Fd
           /\ \A d \in Conn : pfd[d] # LowestFd /\ wfd[d] # LowestFd
<1> DEFINE n == 2 * MaxConn
           slot == [i \in 1..n |-> IF i <= MaxConn THEN pfd[i] ELSE wfd[i - MaxConn]]
           x == IF pfd[c] = 0 THEN c ELSE MaxConn + c
<1>1. MaxConn \in Nat /\ n \in Nat /\ x \in 1..n
  BY CppAssumption DEF Conn
<1>2. \A i \in 1..n : slot[i] \in 0..n
  BY <1>1 DEF ObjOK, Conn, Fd
<1>3. slot[x] = 0
  BY <1>1 DEF ObjOK, Conn
<1>4. \A d \in Conn : d \in 1..n /\ MaxConn + d \in 1..n
  BY <1>1 DEF Conn
<1>5. \A d \in Conn : slot[d] = pfd[d] /\ slot[MaxConn + d] = wfd[d]
  BY <1>1, <1>4 DEF ObjOK, Conn
<1> HIDE DEF n, slot, x
<1>6. \E k \in 1..n : \A i \in 1..n : slot[i] # k
  <2>1. \A s, y : y \in 1..n /\ (\A i \in 1..n : s[i] \in 0..n) /\ s[y] = 0 =>
           \E k \in 1..n : \A i \in 1..n : s[i] # k
    BY <1>1, FreeNumber
  <2>2. x \in 1..n
    BY <1>1
  <2> QED
    BY <2>1, <2>2, <1>2, <1>3, Zenon
<1>7. PICK k \in 1..n : \A i \in 1..n : slot[i] # k
  BY <1>6
<1>8. k \in FreeFd
  BY <1>4, <1>5, <1>7 DEF FreeFd, Fd, n
<1>9. FreeFd \in SUBSET Nat
  BY Numbers DEF FreeFd
<1>10. \E f \in FreeFd : \A g \in FreeFd : f <= g
  BY <1>8, <1>9, Least
<1>11. LowestFd \in FreeFd
  BY <1>10 DEF LowestFd
<1> QED
  BY <1>11 DEF FreeFd

(* The event of an object is on the object's descriptor, and a descriptor  *)
(* nobody has is registered with nothing.                                  *)
LEMMA NoOwner ==
    ASSUME EvOK, EventInv, NEW fd \in Fd,
           \A c \in Conn : pfd[c] # fd /\ wfd[c] # fd
    PROVE  events[fd] = NoObj
  BY Objects DEF EvOK, EventInv

(* What the batch says of a writer.                                        *)
LEMMA WriterEntry ==
    ASSUME FdInv, EventInv, BatchInv, NEW e \in batch, NEW c \in Conn,
           e.obj = WriterObj(c)
    PROVE  /\ e.fd \in Fd /\ wfd[c] = e.fd /\ writer[c] = "live"
           /\ wfail[c] \/ events[e.fd] = WriterObj(c)
<1>1. e.fd \in Fd /\ \E d \in Conn : EntryOf(e, d)
  BY Distinct DEF BatchInv
<1>2. wfd[c] = e.fd
  BY <1>1, Distinct DEF EntryOf
<1>3. writer[c] = "live"
  BY <1>1, <1>2, Numbers DEF FdInv
<1> QED
  BY <1>1, <1>2, <1>3 DEF EventInv

(* What is reported of a descriptor is what is registered with it.         *)
LEMMA ReportedIsOwner ==
    ASSUME EvOK, FdInv, EventInv, BatchInv
    PROVE  EventReachesOwner
<1> SUFFICES ASSUME NEW e \in batch, e.fd # 0, events[e.fd] # NoObj
             PROVE  events[e.fd] = e.obj
  BY DEF EventReachesOwner
<1>1. e.fd \in Fd
  BY DEF BatchInv
<1>2. PICK c \in Conn : EntryOf(e, c)
  BY DEF BatchInv
<1>3. PICK d \in Conn : events[e.fd] = PeerObj(d) \/ events[e.fd] = WriterObj(d)
  BY <1>1, Objects DEF EvOK
<1>4. CASE events[e.fd] = PeerObj(d)
  <2>1. pfd[d] = e.fd
    BY <1>1, <1>4 DEF EventInv
  <2> QED
    BY <1>1, <1>2, <1>4, <2>1, Numbers DEF FdInv, EntryOf
<1>5. CASE events[e.fd] = WriterObj(d)
  <2>1. wfd[d] = e.fd
    BY <1>1, <1>5 DEF EventInv
  <2> QED
    BY <1>1, <1>2, <1>5, <2>1, Numbers DEF FdInv, EntryOf
<1> QED
  BY <1>3, <1>4, <1>5
-----------------------------------------------------------------------------
(* What a step leaves as it is when it does not touch the objects.         *)
LEMMA ObjectsKept ==
    ASSUME FdInv, EventInv, UNCHANGED <<objVars, events, deleteSet, nacc, wfail>>
    PROVE  FdInv' /\ EventInv'
<1>1. UNCHANGED <<peer, writer, pfd, wfd, events, deleteSet, nacc, wfail>>
  BY DEF objVars
<1>2. FdInv'
  BY <1>1 DEF FdInv
<1>3. EventInv'
  BY <1>1 DEF EventInv, PeerObj, WriterObj
<1> QED
  BY <1>2, <1>3

LEMMA CountKept ==
    ASSUME EventCountExact, UNCHANGED <<events, eventCount, wfail>>
    PROVE  EventCountExact'
  BY DEF EventCountExact, NoObj

LEMMA BatchKept ==
    ASSUME BatchInv, batch' \subseteq batch, pc' = "wait" => batch' = {},
           \A c \in Conn : pfd[c] # 0 => pfd'[c] = pfd[c],
           \A c \in Conn : wfd[c] # 0 => wfd'[c] = wfd[c]
    PROVE  BatchInv'
<1> SUFFICES ASSUME NEW e \in batch'
             PROVE  \/ e.fd = 0 /\ e.obj = Listener
                    \/ e.fd \in Fd /\ \E c \in Conn : EntryOf(e, c)'
  BY DEF BatchInv, Listener
<1>1. CASE e.fd = 0 /\ e.obj = Listener
  BY <1>1
<1>2. CASE e.fd \in Fd /\ \E c \in Conn : EntryOf(e, c)
  <2>1. PICK c \in Conn : EntryOf(e, c)
    BY <1>2
  <2>2. e.fd # 0
    BY <1>2, Numbers
  <2>3. CASE e.obj = PeerObj(c) /\ pfd[c] = e.fd
    BY <1>2, <2>2, <2>3 DEF EntryOf, PeerObj
  <2>4. CASE e.obj = WriterObj(c) /\ wfd[c] = e.fd
    BY <1>2, <2>2, <2>4 DEF EntryOf, WriterObj
  <2> QED
    BY <2>1, <2>3, <2>4 DEF EntryOf
<1> QED
  BY <1>1, <1>2 DEF BatchInv

LEMMA ArmedKept ==
    ASSUME ArmedInv, UNCHANGED <<armed, out, refused, writer, wfail, epout>>,
           fault' = "none" => fault = "none",
           \A c \in Conn : InBatch(c) =>
              InBatch(c)' \/ wfail[c] \/ writer[c] # "live"
    PROVE  ArmedInv'
  BY DEF ArmedInv

(* Taking an event of anything but a writer out of the batch.              *)
LEMMA EventTaken ==
    ASSUME FdInv, EventInv, BatchInv, NEW e \in batch, batch' = batch \ {e},
           \A c \in Conn : e.fd \in Fd => events[e.fd] # WriterObj(c)
    PROVE  \A c \in Conn : InBatch(c) =>
              InBatch(c)' \/ wfail[c] \/ writer[c] # "live"
<1> SUFFICES ASSUME NEW c \in Conn, NEW f \in batch, f.obj = WriterObj(c)
             PROVE  InBatch(c)' \/ wfail[c] \/ writer[c] # "live"
  BY DEF InBatch
<1>1. CASE f = e
  BY <1>1, WriterEntry
<1>2. CASE f # e
  <2>1. f \in batch'
    BY <1>2
  <2> QED
    BY <2>1 DEF InBatch, WriterObj
<1> QED
  BY <1>1, <1>2
-----------------------------------------------------------------------------
LEMMA LoopStarts == Init => SafeInv
<1> SUFFICES ASSUME Init PROVE SafeInv
  OBVIOUS
<1>1. events = [fd \in Fd |-> NoObj] /\ eventCount = 1 /\ deleteSet = {}
  BY DEF Init, NoEvents, ListenerRegistered
<1>2. /\ pc = "wait" /\ batch = {} /\ cur = 0 /\ lines = <<>>
      /\ eof = FALSE /\ ledge = FALSE
      /\ fault = "none"
  BY DEF Init, NoEvents, ListenerRegistered
<1>3. TypeOK
  <2>1. KernelOK
    <3>1. MaxConn \in Nat /\ MaxSend \in Nat
      BY CppAssumption
    <3>2. /\ link \in [Conn -> {"none", "up", "fin", "rst"}]
          /\ full \in [Conn -> BOOLEAN] /\ edge \in [Conn -> BOOLEAN]
      BY DEF Init
    <3>3. nconn \in 0..MaxConn /\ nacc \in 0..nconn /\ nsend \in 0..MaxSend
      BY <3>1 DEF Init
    <3>4. ledge \in BOOLEAN
      BY <1>2
    <3> QED
      BY <3>2, <3>3, <3>4 DEF KernelOK
  <2>2. LinesOK
    BY <1>2 DEF Init, LinesOK
  <2>3. ObjOK /\ OutOK
    BY DEF Init, ObjOK, OutOK
  <2>4. PeerOK
    BY CppAssumption DEF Init, PeerOK
  <2>5. EvOK
    BY <1>1, Objects DEF EvOK
  <2>6. LoopOK
    BY <1>2 DEF LoopOK
  <2> QED
    BY <2>1, <2>2, <2>3, <2>4, <2>5, <2>6, TypeParts
<1>4. FdInv
  BY Numbers DEF Init, FdInv
<1>5. EventInv
  BY <1>1, Distinct DEF Init, EventInv
<1>6. BatchInv
  BY <1>2 DEF BatchInv
<1>7. CurInv
  BY <1>2, CppAssumption DEF Init, CurInv
<1>8. ArmedInv
  BY DEF Init, ArmedInv
<1>9. EventCountExact
  <2>1. {fd \in Fd : events[fd] # NoObj} = {}
    BY <1>1
  <2> QED
    BY <1>1, <2>1, FS_EmptySet DEF EventCountExact
<1> QED
  BY <1>3, <1>4, <1>5, <1>6, <1>7, <1>8, <1>9 DEF SafeInv
-----------------------------------------------------------------------------
(* A step of a peer: the kernel only.                                      *)
LEMMA PeersKeep == ASSUME SafeInv, PeerStep PROVE SafeInv'
<1> USE DEF SafeInv
<1>1. /\ UNCHANGED <<objVars, outVars, peerVars, evVars, loopVars, fault, nacc>>
  BY DEF PeerStep, Connect, Send, Close, PeerReads
<1>2. /\ UNCHANGED <<peer, writer, pfd, wfd, epout, armed, out, wfail, refused>>
      /\ UNCHANGED <<announced, errs, peers, events, eventCount, deleteSet>>
      /\ UNCHANGED <<pc, batch, cur, lines, eof, fault, nacc>>
  BY <1>1 DEF objVars, outVars, peerVars, evVars, loopVars
<1>3. KernelOK /\ LinesOK /\ ObjOK /\ OutOK /\ PeerOK /\ EvOK /\ LoopOK
  BY TypeParts
<1>4. KernelOK'
  <2>1. CASE Connect
    BY <1>3, <2>1, CppAssumption DEF KernelOK, Connect, Conn
  <2>2. CASE \E c \in Conn, r \in Request : Send(c, r)
    BY <1>2, <1>3, <2>2, CppAssumption DEF KernelOK, Send
  <2>3. CASE \E c \in Conn, how \in {"fin", "rst"} : Close(c, how)
    BY <1>2, <1>3, <2>3 DEF KernelOK, Close
  <2>4. CASE \E c \in Conn : PeerReads(c)
    BY <1>2, <1>3, <2>4 DEF KernelOK, PeerReads
  <2> QED
    BY <2>1, <2>2, <2>3, <2>4 DEF PeerStep
<1>5. LinesOK'
  <2>1. CASE UNCHANGED inq
    BY <1>2, <1>3, <2>1 DEF LinesOK
  <2>2. CASE \E c \in Conn, r \in Request : Send(c, r)
    BY <1>2, <1>3, <2>2 DEF LinesOK, Send
  <2> QED
    BY <2>1, <2>2 DEF PeerStep, Connect, Close, PeerReads
<1>6. (ObjOK /\ OutOK /\ PeerOK /\ EvOK /\ LoopOK)'
  BY <1>2, <1>3 DEF ObjOK, OutOK, PeerOK, EvOK, LoopOK
<1>7. FdInv' /\ EventInv'
  BY <1>1, <1>2, ObjectsKept
<1>8. BatchInv'
  BY <1>2, BatchKept DEF BatchInv
<1>9. CurInv'
  BY <1>2 DEF CurInv
<1>10. ArmedInv'
  <2>1. \A c \in Conn : InBatch(c) => InBatch(c)'
    BY <1>2 DEF InBatch
  <2> QED
    BY <1>2, <2>1, ArmedKept
<1>11. EventCountExact'
  BY <1>2, CountKept
<1>12. TypeOK'
  BY <1>4, <1>5, <1>6, TypePartsNext
<1> QED
  BY <1>7, <1>8, <1>9, <1>10, <1>11, <1>12

(* The loop goes from one event or line to the next.                       *)
Moves ==
    \/ \E e \in batch : DispatchNone(e) \/ DispatchListener(e)
    \/ AcceptEnd \/ HandleEmptyLine \/ LinesEnd \/ LoopEnd
LEMMA MovesKeep == ASSUME SafeInv, Moves PROVE SafeInv'
<1> USE DEF SafeInv
<1>1. UNCHANGED <<kernelVars, objVars, outVars, peerVars, evVars, eof, fault>>
  BY DEF Moves, DispatchNone, DispatchListener, AcceptEnd, HandleEmptyLine,
         LinesEnd, LoopEnd
<1>2. /\ UNCHANGED <<link, inq, nconn, nacc, nsend, full, edge, ledge>>
      /\ UNCHANGED <<peer, writer, pfd, wfd, epout, armed, out, wfail, refused>>
      /\ UNCHANGED <<announced, errs, peers, events, eventCount, deleteSet>>
      /\ UNCHANGED <<eof, fault>>
  BY <1>1 DEF kernelVars, objVars, outVars, peerVars, evVars
<1>3. KernelOK /\ LinesOK /\ ObjOK /\ OutOK /\ PeerOK /\ EvOK /\ LoopOK
  BY TypeParts
<1>4. /\ pc' \in {"wait", "dispatch", "accept", "lines", "exit"}
      /\ pc' = "wait" => batch' = {}
      /\ pc' = "lines" => pc = "lines" /\ cur' = cur
      /\ pc # "drop"
      /\ batch' \subseteq batch /\ cur' \in {cur, 0}
      /\ lines' = lines \/ (lines # <<>> /\ lines' = Tail(lines))
  BY DEF Moves, At, DispatchNone, DispatchListener, AcceptEnd, HandleEmptyLine,
         LinesEnd, LoopEnd
<1>5. LinesOK'
  BY <1>2, <1>3, <1>4 DEF LinesOK
<1>6. LoopOK'
  BY <1>2, <1>3, <1>4 DEF LoopOK
<1>7. (KernelOK /\ ObjOK /\ OutOK /\ PeerOK /\ EvOK)'
  BY <1>2, <1>3 DEF KernelOK, ObjOK, OutOK, PeerOK, EvOK
<1>8. FdInv' /\ EventInv'
  BY <1>1, <1>2, ObjectsKept
<1>9. BatchInv'
  BY <1>2, <1>4, BatchKept
<1>10. CurInv'
  BY <1>2, <1>4 DEF CurInv
<1>11. \A c \in Conn : InBatch(c) => InBatch(c)' \/ wfail[c] \/ writer[c] # "live"
  <2>1. CASE batch' = batch
    BY <2>1 DEF InBatch
  <2>2. CASE \E e \in batch : DispatchNone(e) \/ DispatchListener(e)
    <3>1. PICK e \in batch : DispatchNone(e) \/ DispatchListener(e)
      BY <2>2
    <3>2. batch' = batch \ {e} /\ (e.fd # 0 => events[e.fd] = NoObj)
      BY <3>1 DEF DispatchNone, DispatchListener
    <3>3. \A c \in Conn : e.fd \in Fd => events[e.fd] # WriterObj(c)
      BY <3>2, Numbers, Distinct
    <3> QED
      BY <3>2, <3>3, EventTaken
  <2> QED
    BY <2>1, <2>2 DEF Moves, AcceptEnd, HandleEmptyLine, LinesEnd, LoopEnd,
                      loopVars
<1>12. ArmedInv'
  BY <1>2, <1>11, ArmedKept
<1>13. EventCountExact'
  BY <1>2, CountKept
<1>14. TypeOK'
  BY <1>5, <1>6, <1>7, TypePartsNext
<1> QED
  BY <1>8, <1>9, <1>10, <1>12, <1>13, <1>14

(* The process dies, or goes on after undefined behaviour: the specification *)
(* stops.                                                                  *)
Faults ==
    \/ AcceptFails \/ HandleFault
    \/ \E e \in batch, c \in Conn : WriteBrokenPipe(e, c)
LEMMA FaultsKeep == ASSUME SafeInv, Faults PROVE SafeInv'
<1> USE DEF SafeInv
<1>1. /\ UNCHANGED <<link, inq, nconn, nacc, nsend, full, edge, ledge>>
      /\ UNCHANGED <<peer, writer, pfd, wfd, epout, armed, out, wfail, refused>>
      /\ UNCHANGED <<announced, errs, peers, events, eventCount, deleteSet>>
      /\ UNCHANGED <<pc, cur, lines, eof>>
      /\ batch' \subseteq batch
      /\ fault' \in {"crash", "ub"}
  BY DEF Faults, AcceptFails, HandleFault, WriteBrokenPipe, DispatchWriter,
         kernelVars, objVars, outVars, peerVars, evVars, loopVars
<1>2. KernelOK /\ LinesOK /\ ObjOK /\ OutOK /\ PeerOK /\ EvOK /\ LoopOK
  BY TypeParts
<1>3. (KernelOK /\ LinesOK /\ ObjOK /\ OutOK /\ PeerOK /\ EvOK)'
  BY <1>1, <1>2 DEF KernelOK, LinesOK, ObjOK, OutOK, PeerOK, EvOK
<1>4. LoopOK'
  BY <1>1, <1>2 DEF LoopOK
<1>5. FdInv' /\ EventInv'
  BY <1>1, ObjectsKept DEF objVars
<1>6. BatchInv'
  BY <1>1, BatchKept DEF BatchInv
<1>7. CurInv'
  BY <1>1 DEF CurInv
<1>8. ArmedInv'
  BY <1>1 DEF ArmedInv
<1>9. EventCountExact'
  BY <1>1, CountKept
<1>10. TypeOK'
  BY <1>3, <1>4, TypePartsNext
<1> QED
  BY <1>5, <1>6, <1>7, <1>8, <1>9, <1>10
-----------------------------------------------------------------------------
(* epoll_wait: what is reported is registered, and a writer that is        *)
(* disabled by being reported is in the batch.                             *)
LEMMA WaitKeeps == ASSUME SafeInv, EpollWait PROVE SafeInv'
<1> USE DEF SafeInv
<1>1. /\ UNCHANGED <<link, inq, nconn, nacc, nsend, full>>
      /\ UNCHANGED <<peer, writer, pfd, wfd, armed, out, wfail, refused>>
      /\ UNCHANGED <<announced, errs, peers, events, eventCount, deleteSet>>
      /\ UNCHANGED <<cur, lines, eof, fault>>
      /\ pc' = "dispatch" /\ pc = "wait"
  BY DEF EpollWait, At, objVars, peerVars, evVars
<1>2. PICK b \in SUBSET Ready :
        /\ batch' = b
        /\ edge' = [c \in Conn |-> edge[c] /\ \A e \in b : e.obj # PeerObj(c)]
        /\ ledge' = (ledge /\ \A e \in b : e.obj # Listener)
        /\ epout' = [c \in Conn |->
                       epout[c] /\ \A e \in b : e.obj # WriterObj(c)]
  BY DEF EpollWait
<1>3. KernelOK /\ LinesOK /\ ObjOK /\ OutOK /\ PeerOK /\ EvOK /\ LoopOK
  BY TypeParts
<1>4. \A e \in b :
        \/ e = [fd |-> 0, obj |-> Listener]
        \/ \E fd \in Fd : IsReady(fd) /\ e = [fd |-> fd, obj |-> events[fd]]
  BY DEF Ready, EventOf
<1>5. \A fd \in Fd : IsReady(fd) => events[fd] # NoObj
  BY Objects DEF IsReady
<1>6. \A e \in b :
        \/ e.fd = 0 /\ e.obj = Listener
        \/ e.fd \in Fd /\ \E c \in Conn : EntryOf(e, c)
  <2> TAKE e \in b
  <2>1. CASE e = [fd |-> 0, obj |-> Listener]
    BY <2>1
  <2>2. CASE \E fd \in Fd : IsReady(fd) /\ e = [fd |-> fd, obj |-> events[fd]]
    <3>1. PICK fd \in Fd : IsReady(fd) /\ e = [fd |-> fd, obj |-> events[fd]]
      BY <2>2
    <3>2. e.fd = fd /\ e.obj = events[fd]
      BY <3>1
    <3>3. PICK c \in Conn : events[fd] = PeerObj(c) \/ events[fd] = WriterObj(c)
      BY <1>3, <1>5, <3>1, Objects DEF EvOK
    <3> QED
      BY <3>2, <3>3 DEF EventInv, EntryOf
  <2> QED
    BY <1>4, <2>1, <2>2
<1>7. b \subseteq [fd : Fd \cup {0}, obj : Obj \cup {Listener}]
  BY <1>3, <1>4 DEF EvOK
<1>8. LoopOK'
  <2>1. batch' \subseteq [fd : Fd \cup {0}, obj : Obj \cup {Listener}]
    BY <1>2, <1>7
  <2> QED
    BY <1>1, <1>3, <2>1 DEF LoopOK, Obj, PeerObj, WriterObj, NoObj, Listener
<1>9. KernelOK'
  <2>1. edge' \in [Conn -> BOOLEAN]
    BY <1>2
  <2>2. ledge' \in BOOLEAN
    BY <1>2
  <2> QED
    BY <1>1, <1>3, <2>1, <2>2 DEF KernelOK
<1>10. OutOK'
  <2>1. epout' \in [Conn -> BOOLEAN]
    BY <1>2
  <2> QED
    BY <1>1, <1>3, <2>1 DEF OutOK
<1>11. (LinesOK /\ ObjOK /\ PeerOK /\ EvOK)'
  BY <1>1, <1>3 DEF LinesOK, ObjOK, PeerOK, EvOK
<1>12. FdInv' /\ EventInv'
  BY <1>1, ObjectsKept DEF objVars
<1>13. BatchInv'
  <2>1. \A e \in batch' :
          \/ e.fd = 0 /\ e.obj = Listener
          \/ e.fd \in Fd /\ \E c \in Conn : EntryOf(e, c)
    BY <1>2, <1>6
  <2>2. \A e, c : EntryOf(e, c) <=> EntryOf(e, c)'
    BY <1>1 DEF EntryOf, PeerObj, WriterObj
  <2> QED
    BY <1>1, <2>1, <2>2 DEF BatchInv, Listener
<1>14. CurInv'
  BY <1>1 DEF CurInv
<1>15. ArmedInv'
  <2>1. \A c \in Conn : epout[c] => epout'[c] \/ InBatch(c)'
    BY <1>2 DEF InBatch, WriterObj
  <2>2. \A c \in Conn : ~InBatch(c)
    BY <1>1 DEF InBatch, BatchInv
  <2> QED
    BY <1>1, <2>1, <2>2 DEF ArmedInv
<1>16. EventCountExact'
  BY <1>1, CountKept
<1>17. TypeOK'
  BY <1>8, <1>9, <1>10, <1>11, TypePartsNext
<1> QED
  BY <1>12, <1>13, <1>14, <1>15, <1>16, <1>17

(* The lines of a Peer are taken from the kernel.                          *)
LEMMA ReadKeeps ==
    ASSUME SafeInv, NEW e \in batch, DispatchPeer(e)
    PROVE  SafeInv'
<1> USE DEF SafeInv
<1> DEFINE c == events[e.fd].c
<1>1. /\ UNCHANGED <<link, nconn, nacc, nsend, full, edge, ledge>>
      /\ UNCHANGED <<peer, writer, pfd, wfd, epout, armed, out, wfail, refused>>
      /\ UNCHANGED <<announced, errs, peers, events, eventCount, deleteSet>>
      /\ UNCHANGED fault
      /\ batch' = batch \ {e} /\ pc' = "lines" /\ cur' = c /\ pc = "dispatch"
  BY DEF DispatchPeer, At, objVars, outVars, peerVars, evVars
<1>2. KernelOK /\ LinesOK /\ ObjOK /\ OutOK /\ PeerOK /\ EvOK /\ LoopOK
  BY TypeParts
<1>3. e.fd \in Fd /\ events[e.fd].kind = "peer"
  BY DEF DispatchPeer, BatchInv
<1>4. c \in Conn /\ events[e.fd] = PeerObj(c)
  BY <1>2, <1>3, Objects DEF EvOK
<1> HIDE DEF c
<1>5. pfd[c] = e.fd /\ c \notin deleteSet /\ peer[c] = "live"
  BY <1>3, <1>4, Numbers DEF EventInv, FdInv
<1>6. LinesOK'
  <2>1. inq[c] \in Seq(Request)
    BY <1>2, <1>4 DEF LinesOK
  <2>2. lines' = inq[c] /\
        inq' = [inq EXCEPT ![c] = SubSeq(inq[c], Len(inq[c]) + 1, Len(inq[c]))]
    BY DEF DispatchPeer, Drained, c
  <2>3. SubSeq(inq[c], Len(inq[c]) + 1, Len(inq[c])) \in Seq(Request)
    BY <2>1
  <2>4. inq' \in [Conn -> Seq(Request)]
    BY <1>2, <2>2, <2>3 DEF LinesOK
  <2> QED
    BY <2>1, <2>2, <2>4 DEF LinesOK
<1>7. LoopOK'
  <2>1. eof' \in BOOLEAN
    BY DEF DispatchPeer, Dead
  <2> QED
    BY <1>1, <1>2, <1>4, <2>1 DEF LoopOK
<1>8. (KernelOK /\ ObjOK /\ OutOK /\ PeerOK /\ EvOK)'
  BY <1>1, <1>2 DEF KernelOK, ObjOK, OutOK, PeerOK, EvOK
<1>9. FdInv' /\ EventInv'
  BY <1>1, ObjectsKept DEF objVars
<1>10. BatchInv'
  BY <1>1, BatchKept
<1>11. CurInv'
  BY <1>1, <1>4, <1>5 DEF CurInv
<1>12. ArmedInv'
  <2>1. \A d \in Conn : events[e.fd] # WriterObj(d)
    BY <1>4, Distinct
  <2>2. \A d \in Conn : InBatch(d) => InBatch(d)' \/ wfail[d] \/ writer[d] # "live"
    BY <1>1, <2>1, EventTaken
  <2> QED
    BY <1>1, <2>2, ArmedKept
<1>13. EventCountExact'
  BY <1>1, CountKept
<1>14. TypeOK'
  BY <1>6, <1>7, <1>8, TypePartsNext
<1> QED
  BY <1>9, <1>10, <1>11, <1>12, <1>13, <1>14
-----------------------------------------------------------------------------
(* _eventCount follows what is registered.                                 *)
LEMMA FiniteFd == \A S : S \subseteq Fd => IsFiniteSet(S)
<1>1. 2 * MaxConn \in Int
  BY CppAssumption
<1>2. IsFiniteSet(Fd)
  BY <1>1, FS_Interval DEF Fd
<1> QED
  BY <1>2, FS_Subset

LEMMA TypesRegister ==
    ASSUME EvOK, NEW fd, NEW o \in Obj, registerEvent(fd, o)
    PROVE  events' \in [Fd -> Obj] /\ eventCount' \in Int
<1>1. events' = [events EXCEPT ![fd] = o] /\ eventCount' = eventCount + 1
  BY DEF registerEvent
<1>2. events' \in [Fd -> Obj]
  BY <1>1 DEF EvOK
<1>3. eventCount' \in Int
  BY <1>1 DEF EvOK
<1> QED
  BY <1>2, <1>3

LEMMA TypesUnregister ==
    ASSUME EvOK, NEW fd, unregisterEvent(fd)
    PROVE  events' \in [Fd -> Obj] /\ eventCount' \in Int
<1>1. events' = [events EXCEPT ![fd] = NoObj] /\ eventCount' = eventCount - 1
  BY DEF unregisterEvent
<1>2. events' \in [Fd -> Obj]
  BY <1>1, Objects DEF EvOK
<1>3. eventCount' \in Int
  BY <1>1 DEF EvOK
<1> QED
  BY <1>2, <1>3

LEMMA CountRegister ==
    ASSUME EvOK, NEW fd \in Fd, NEW o \in Obj \ {NoObj}, events[fd] = NoObj,
           registerEvent(fd, o),
           eventCount = 1 + Cardinality({g \in Fd : events[g] # NoObj})
    PROVE  eventCount' = 1 + Cardinality({g \in Fd : events'[g] # NoObj})
<1> DEFINE S == {g \in Fd : events[g] # NoObj}
<1>1. {g \in Fd : events'[g] # NoObj} = S \cup {fd} /\ fd \notin S
  BY DEF EvOK, registerEvent
<1>2. IsFiniteSet(S)
  BY FiniteFd
<1>3. Cardinality(S) \in Nat
  BY <1>2, FS_CardinalityType
<1>4. Cardinality(S \cup {fd}) = Cardinality(S) + 1
  BY <1>1, <1>2, FS_AddElement
<1>5. eventCount' = eventCount + 1
  BY DEF registerEvent
<1> QED
  BY <1>1, <1>3, <1>4, <1>5

LEMMA CountUnregister ==
    ASSUME EvOK, NEW fd \in Fd, events[fd] # NoObj, unregisterEvent(fd),
           eventCount = 1 + Cardinality({g \in Fd : events[g] # NoObj})
    PROVE  eventCount' = 1 + Cardinality({g \in Fd : events'[g] # NoObj})
<1> DEFINE S == {g \in Fd : events[g] # NoObj}
<1>1. {g \in Fd : events'[g] # NoObj} = S \ {fd} /\ fd \in S
  BY DEF EvOK, unregisterEvent
<1>2. IsFiniteSet(S)
  BY FiniteFd
<1>3. Cardinality(S) \in Nat
  BY <1>2, FS_CardinalityType
<1>4. Cardinality(S \ {fd}) = Cardinality(S) - 1
  BY <1>1, <1>2, FS_RemoveElement
<1>5. eventCount' = eventCount - 1
  BY DEF unregisterEvent
<1>6. eventCount = 1 + Cardinality(S)
  OBVIOUS
<1>7. eventCount' = 1 + Cardinality(S \ {fd})
  BY <1>3, <1>4, <1>5, <1>6
<1> QED
  BY <1>1, <1>7

(* A new Peer has a descriptor nobody had.                                 *)
LEMMA AcceptKeeps == ASSUME SafeInv, Accept PROVE SafeInv'
<1> USE DEF SafeInv
<1> DEFINE c == nacc + 1
           f == LowestFd
<1>1. /\ UNCHANGED <<link, inq, nconn, nsend, full, ledge, writer, wfd>>
      /\ UNCHANGED <<epout, armed, out, wfail, refused>>
      /\ UNCHANGED <<announced, errs, peers, deleteSet>>
      /\ UNCHANGED <<pc, batch, cur, lines, eof, fault>>
      /\ nacc' = c /\ pc = "accept" /\ nacc < nconn
  BY DEF Accept, At, Pending, outVars, peerVars, loopVars
<1>2. /\ peer' = [peer EXCEPT ![c] = "live"] /\ pfd' = [pfd EXCEPT ![c] = f]
      /\ registerEvent(f, PeerObj(c))
      /\ edge' = [edge EXCEPT ![c] = inq[c] # <<>> \/ Dead(c)]
  BY DEF Accept, NewSocket
<1>3. KernelOK /\ LinesOK /\ ObjOK /\ OutOK /\ PeerOK /\ EvOK /\ LoopOK
  BY TypeParts
<1>4. c \in Conn /\ c \in 0..nconn
  BY <1>1, <1>3, CppAssumption DEF KernelOK, Conn
<1>5. peer[c] = "none" /\ writer[c] = "none" /\ pfd[c] = 0 /\ wfd[c] = 0
  <2>1. c > nacc
    BY <1>3 DEF KernelOK
  <2> QED
    BY <1>4, <2>1 DEF FdInv
<1>6. f \in Fd /\ \A d \in Conn : pfd[d] # f /\ wfd[d] # f
  BY <1>3, <1>4, <1>5, LowestFree
<1>7. events[f] = NoObj
  BY <1>3, <1>6, NoOwner
<1>8. nacc \in Nat /\ \A d \in Conn : d > c => d > nacc
  BY <1>3, Numbers DEF KernelOK
<1> HIDE DEF c, f
<1>9. \A d \in Conn : /\ peer'[d] = (IF d = c THEN "live" ELSE peer[d])
                      /\ pfd'[d] = (IF d = c THEN f ELSE pfd[d])
  BY <1>2, <1>3 DEF ObjOK
<1>10. \A g \in Fd : events'[g] = (IF g = f THEN PeerObj(c) ELSE events[g])
  BY <1>2, <1>3 DEF EvOK, registerEvent
<1>11. c \notin deleteSet /\ PeerObj(c) \in Obj /\ PeerObj(c) # NoObj
  BY <1>4, <1>5, Objects, Distinct DEF EventInv
<1>12. TypeOK'
  <2>1. KernelOK'
    <3>1. edge' \in [Conn -> BOOLEAN]
      BY <1>2, <1>3 DEF KernelOK, Dead
    <3> QED
      BY <1>1, <1>3, <1>4, <3>1 DEF KernelOK
  <2>2. ObjOK'
    BY <1>1, <1>2, <1>3, <1>6 DEF ObjOK
  <2>3. EvOK'
    <3>1. events' \in [Fd -> Obj] /\ eventCount' \in Int
      BY <1>2, <1>3, <1>11, TypesRegister
    <3> QED
      BY <1>1, <1>3, <3>1 DEF EvOK, Obj, PeerObj, WriterObj, NoObj
  <2>4. (LinesOK /\ OutOK /\ PeerOK /\ LoopOK)'
    BY <1>1, <1>3 DEF LinesOK, OutOK, PeerOK, LoopOK
  <2> QED
    BY <2>1, <2>2, <2>3, <2>4, TypePartsNext
<1>13. FdInv'
  <2>1. f # 0
    BY <1>6, Numbers
  <2> QED
    BY <1>1, <1>4, <1>5, <1>6, <1>8, <1>9, <2>1 DEF FdInv
<1>14. EventInv'
  <2>1. \A g \in Fd, d \in Conn :
           events'[g] = PeerObj(d) => pfd'[d] = g /\ d \notin deleteSet
    BY <1>4, <1>5, <1>6, <1>9, <1>10, <1>11, Distinct, Numbers DEF EventInv
  <2>2. \A g \in Fd, d \in Conn :
           events'[g] = WriterObj(d) => wfd[d] = g /\ ~wfail[d]
    BY <1>4, <1>10, Distinct DEF EventInv
  <2>3. \A d \in Conn : peer'[d] = "live" =>
           d \in deleteSet \/ events'[pfd'[d]] = PeerObj(d)
    <3> TAKE d \in Conn
    <3>1. CASE d = c
      BY <1>6, <1>9, <1>10, <3>1
    <3>2. CASE d # c
      BY <1>3, <1>6, <1>9, <1>10, <3>2 DEF EventInv, FdInv, ObjOK
    <3> QED
      BY <3>1, <3>2
  <2>4. \A d \in deleteSet : peer'[d] = "live"
    BY <1>3, <1>9, <1>11 DEF EventInv, EvOK
  <2>5. \A d \in Conn : writer[d] = "live" =>
           wfail[d] \/ events'[wfd[d]] = WriterObj(d)
    BY <1>3, <1>6, <1>10 DEF EventInv, FdInv, ObjOK
  <2> QED
    BY <1>1, <2>1, <2>2, <2>3, <2>4, <2>5 DEF EventInv, PeerObj, WriterObj
<1>15. BatchInv'
  BY <1>1, <1>5, <1>9, BatchKept DEF BatchInv
<1>16. CurInv'
  BY <1>1, <1>5, <1>9 DEF CurInv
<1>17. ArmedInv'
  <2>1. \A d \in Conn : InBatch(d) => InBatch(d)'
    BY <1>1 DEF InBatch, WriterObj
  <2> QED
    BY <1>1, <2>1, ArmedKept
<1>18. EventCountExact'
  <2> SUFFICES ASSUME \A d \in Conn : ~wfail[d]
               PROVE  eventCount' = 1 + Cardinality({g \in Fd : events'[g] # NoObj})
    BY <1>1 DEF EventCountExact, NoObj
  <2>1. eventCount = 1 + Cardinality({g \in Fd : events[g] # NoObj})
    BY DEF EventCountExact
  <2> QED
    BY <1>2, <1>3, <1>6, <1>7, <1>11, <2>1, CountRegister
<1> QED
  BY <1>12, <1>13, <1>14, <1>15, <1>16, <1>17, <1>18

(* A Peer that is dropped is no longer registered, and will be deleted.    *)
LEMMA DropKeeps == ASSUME SafeInv, DropPeer PROVE SafeInv'
<1> USE DEF SafeInv
<1> DEFINE c == cur
           f == pfd[c]
<1>1. /\ UNCHANGED <<link, inq, nconn, nacc, nsend, full, edge, ledge>>
      /\ UNCHANGED <<peer, writer, pfd, wfd, epout, armed, out, wfail, refused>>
      /\ UNCHANGED <<announced, errs, peers, batch, fault>>
      /\ pc \in {"lines", "drop"}
      /\ pc' = "dispatch" /\ cur' = 0 /\ lines' = <<>> /\ eof' = FALSE
  BY DEF DropPeer, At, UnregisterPeer, kernelVars, objVars, outVars, peerVars
<1>2. unregisterEvent(f) /\ deleteSet' = deleteSet \cup {c}
  BY DEF DropPeer, UnregisterPeer
<1>3. KernelOK /\ LinesOK /\ ObjOK /\ OutOK /\ PeerOK /\ EvOK /\ LoopOK
  BY TypeParts
<1>4. c \in Conn /\ peer[c] = "live" /\ c \notin deleteSet
  BY <1>1 DEF CurInv
<1>5. f \in Fd /\ events[f] = PeerObj(c)
  BY <1>3, <1>4 DEF EventInv, FdInv, ObjOK
<1>6. \A d \in Conn : d # c => pfd[d] # f
  BY <1>4, <1>5, Numbers DEF FdInv
<1>7. \A d \in Conn : wfd[d] # f
  BY <1>4, <1>5, Numbers DEF FdInv
<1> HIDE DEF c, f
<1>8. \A g \in Fd : events'[g] = (IF g = f THEN NoObj ELSE events[g])
  BY <1>2, <1>3 DEF EvOK, unregisterEvent
<1>9. TypeOK'
  <2>1. EvOK'
    <3>1. events' \in [Fd -> Obj] /\ eventCount' \in Int
      BY <1>2, <1>3, TypesUnregister
    <3>2. deleteSet' \subseteq Conn
      BY <1>2, <1>3, <1>4 DEF EvOK
    <3> QED
      BY <3>1, <3>2 DEF EvOK, Obj, PeerObj, WriterObj, NoObj
  <2>2. LoopOK' /\ LinesOK'
    <3>1. eof' \in BOOLEAN
      BY <1>1
    <3>2. lines' \in Seq(Request)
      BY <1>1
    <3> QED
      BY <1>1, <1>3, <3>1, <3>2 DEF LoopOK, LinesOK
  <2>3. (KernelOK /\ ObjOK /\ OutOK /\ PeerOK)'
    BY <1>1, <1>3 DEF KernelOK, ObjOK, OutOK, PeerOK
  <2> QED
    BY <2>1, <2>2, <2>3, TypePartsNext
<1>10. FdInv'
  BY <1>1 DEF FdInv
<1>11. EventInv'
  <2>1. \A g \in Fd, d \in Conn :
           events'[g] = PeerObj(d) => pfd[d] = g /\ d \notin deleteSet'
    <3> SUFFICES ASSUME NEW g \in Fd, NEW d \in Conn, events'[g] = PeerObj(d)
                 PROVE  pfd[d] = g /\ d \notin deleteSet'
      OBVIOUS
    <3>1. g # f /\ events[g] = PeerObj(d)
      BY <1>8, Distinct
    <3>2. pfd[d] = g /\ d \notin deleteSet
      BY <3>1 DEF EventInv
    <3>3. d # c
      BY <1>4, <1>5, <3>1, <3>2 DEF EventInv
    <3> QED
      BY <1>2, <3>2, <3>3
  <2>2. \A g \in Fd, d \in Conn :
           events'[g] = WriterObj(d) => wfd[d] = g /\ ~wfail[d]
    BY <1>8, Distinct DEF EventInv
  <2>3. \A d \in Conn : peer[d] = "live" =>
           d \in deleteSet' \/ events'[pfd[d]] = PeerObj(d)
    BY <1>2, <1>3, <1>6, <1>8 DEF EventInv, FdInv, ObjOK
  <2>4. \A d \in deleteSet' : peer[d] = "live"
    BY <1>2, <1>4 DEF EventInv
  <2>5. \A d \in Conn : writer[d] = "live" =>
           wfail[d] \/ events'[wfd[d]] = WriterObj(d)
    BY <1>3, <1>7, <1>8 DEF EventInv, FdInv, ObjOK
  <2> QED
    BY <1>1, <2>1, <2>2, <2>3, <2>4, <2>5 DEF EventInv, PeerObj, WriterObj
<1>12. BatchInv'
  BY <1>1, BatchKept
<1>13. CurInv'
  BY <1>1, <1>2 DEF CurInv, c
<1>14. ArmedInv'
  <2>1. \A d \in Conn : InBatch(d) => InBatch(d)'
    BY <1>1 DEF InBatch, WriterObj
  <2> QED
    BY <1>1, <2>1, ArmedKept
<1>15. EventCountExact'
  <2> SUFFICES ASSUME \A d \in Conn : ~wfail[d]
               PROVE  eventCount' = 1 + Cardinality({g \in Fd : events'[g] # NoObj})
    BY <1>1 DEF EventCountExact, NoObj
  <2>1. eventCount = 1 + Cardinality({g \in Fd : events[g] # NoObj})
    BY DEF EventCountExact
  <2>2. events[f] # NoObj
    BY <1>4, <1>5, Distinct
  <2> QED
    BY <1>2, <1>3, <1>5, <2>1, <2>2, CountUnregister
<1> QED
  BY <1>9, <1>10, <1>11, <1>12, <1>13, <1>14, <1>15
-----------------------------------------------------------------------------
(* A writer writes all it has, a part, or nothing.                         *)
Writes(e, c) == WriteAll(e, c) \/ WritePart(e, c) \/ WriteRefused(e, c)
LEMMA WritesKeep ==
    ASSUME SafeInv, NEW e \in batch, NEW c \in Conn, Writes(e, c)
    PROVE  SafeInv'
<1> USE DEF SafeInv
<1>1. /\ UNCHANGED <<link, inq, nconn, nacc, nsend, edge, ledge>>
      /\ UNCHANGED <<peer, writer, pfd, wfd, wfail>>
      /\ UNCHANGED <<announced, errs, peers, events, eventCount, deleteSet>>
      /\ UNCHANGED <<pc, cur, lines, eof, fault>>
      /\ batch' = batch \ {e} /\ pc = "dispatch"
      /\ events[e.fd] = WriterObj(c) /\ e.fd # 0
  BY DEF Writes, WriteAll, WritePart, WriteRefused, DispatchWriter, At,
         objVars, peerVars, evVars
<1>2. KernelOK /\ LinesOK /\ ObjOK /\ OutOK /\ PeerOK /\ EvOK /\ LoopOK
  BY TypeParts
<1>3. e.fd \in Fd
  BY <1>1 DEF BatchInv
<1>4. /\ armed' \in [Conn -> BOOLEAN] /\ out' \in [Conn -> Nat]
      /\ epout' \in [Conn -> BOOLEAN] /\ refused' \in [Conn -> BOOLEAN]
      /\ \A d \in Conn : d # c =>
            armed'[d] = armed[d] /\ out'[d] = out[d] /\ refused'[d] = refused[d]
      /\ \A d \in Conn : epout[d] => epout'[d]
      /\ \/ ~armed'[c] /\ (out'[c] = 0 \/ refused'[c])
         \/ armed'[c] /\ epout'[c]
  <2>1. CASE WriteAll(e, c)
    BY <1>2, <2>1 DEF WriteAll, OutOK
  <2>2. CASE WritePart(e, c)
    <3>1. Registered(WriterObj(c))
      BY <1>1, <1>3 DEF Registered
    <3>2. /\ epout' = [epout EXCEPT ![c] = @ \/ Registered(WriterObj(c))]
          /\ armed' = [armed EXCEPT ![c] = TRUE] /\ UNCHANGED refused
      BY <2>2 DEF WritePart, rearmEvent
    <3>3. PICK n \in 1..out[c] : out' = [out EXCEPT ![c] = n]
      BY <2>2 DEF WritePart
    <3>4. epout' = [epout EXCEPT ![c] = TRUE]
      BY <3>1, <3>2
    <3>5. out[c] \in Nat
      BY <1>2 DEF OutOK
    <3>6. n \in Nat
      BY <3>5
    <3> QED
      BY <1>2, <3>2, <3>3, <3>4, <3>6 DEF OutOK
  <2>3. CASE WriteRefused(e, c)
    BY <1>2, <2>3 DEF WriteRefused, OutOK
  <2> QED
    BY <2>1, <2>2, <2>3 DEF Writes
<1>5. full' \in [Conn -> BOOLEAN]
  BY <1>2 DEF Writes, WriteAll, WritePart, WriteRefused, KernelOK
<1>6. TypeOK'
  <2>1. KernelOK'
    BY <1>1, <1>2, <1>5 DEF KernelOK
  <2>2. OutOK'
    BY <1>1, <1>2, <1>4 DEF OutOK
  <2>3. LoopOK'
    BY <1>1, <1>2 DEF LoopOK
  <2>4. (LinesOK /\ ObjOK /\ PeerOK /\ EvOK)'
    BY <1>1, <1>2 DEF LinesOK, ObjOK, PeerOK, EvOK
  <2> QED
    BY <2>1, <2>2, <2>3, <2>4, TypePartsNext
<1>7. FdInv' /\ EventInv'
  BY <1>1, ObjectsKept DEF objVars
<1>8. BatchInv'
  BY <1>1, BatchKept
<1>9. CurInv'
  BY <1>1 DEF CurInv
<1>10. ArmedInv'
  <2>1. \A d \in Conn : d # c /\ InBatch(d) =>
           InBatch(d)' \/ wfail[d] \/ writer[d] # "live"
    <3> SUFFICES ASSUME NEW d \in Conn, d # c, NEW g \in batch,
                        g.obj = WriterObj(d)
                 PROVE  InBatch(d)' \/ wfail[d] \/ writer[d] # "live"
      BY DEF InBatch
    <3>1. CASE g = e
      BY <1>1, <3>1, WriterEntry, Distinct
    <3>2. CASE g # e
      <4>1. g \in batch'
        BY <1>1, <3>2
      <4> QED
        BY <4>1 DEF InBatch, WriterObj
    <3> QED
      BY <3>1, <3>2
  <2> QED
    BY <1>1, <1>4, <2>1 DEF ArmedInv
<1>11. EventCountExact'
  BY <1>1, CountKept
<1> QED
  BY <1>6, <1>7, <1>8, <1>9, <1>10, <1>11

(* A write that fails unregisters the writer.                              *)
LEMMA FailKeeps ==
    ASSUME SafeInv, NEW e \in batch, NEW c \in Conn, WriteFails(e, c)
    PROVE  SafeInv'
<1> USE DEF SafeInv
<1> DEFINE f == e.fd
<1>1. /\ UNCHANGED <<link, inq, nconn, nacc, nsend, full, edge, ledge>>
      /\ UNCHANGED <<peer, writer, pfd, wfd, epout, out, refused>>
      /\ UNCHANGED <<announced, errs, peers, deleteSet>>
      /\ UNCHANGED <<pc, cur, lines, eof, fault>>
      /\ batch' = batch \ {e} /\ pc = "dispatch"
      /\ events[f] = WriterObj(c) /\ f # 0
      /\ armed' = [armed EXCEPT ![c] = FALSE]
      /\ wfail' = [wfail EXCEPT ![c] = TRUE]
      /\ unregisterEvent(f)
  BY DEF WriteFails, DispatchWriter, At, objVars, peerVars
<1>2. KernelOK /\ LinesOK /\ ObjOK /\ OutOK /\ PeerOK /\ EvOK /\ LoopOK
  BY TypeParts
<1>3. f \in Fd
  BY <1>1 DEF BatchInv
<1>4. wfd[c] = f /\ writer[c] = "live"
  BY <1>1, <1>3, Numbers DEF EventInv, FdInv
<1> HIDE DEF f
<1>5. \A g \in Fd : events'[g] = (IF g = f THEN NoObj ELSE events[g])
  BY <1>1, <1>2 DEF EvOK, unregisterEvent
<1>6. \A d \in Conn : /\ wfail'[d] <=> (wfail[d] \/ d = c)
                      /\ armed'[d] => armed[d] /\ d # c
                      /\ armed[d] => armed'[d] \/ d = c
  BY <1>1, <1>2 DEF OutOK
<1>7. TypeOK'
  <2>1. EvOK'
    <3>1. events' \in [Fd -> Obj] /\ eventCount' \in Int
      BY <1>1, <1>2, TypesUnregister
    <3> QED
      BY <1>1, <1>2, <3>1 DEF EvOK, Obj, PeerObj, WriterObj, NoObj
  <2>2. OutOK'
    BY <1>1, <1>2 DEF OutOK
  <2>3. LoopOK'
    BY <1>1, <1>2 DEF LoopOK
  <2>4. (KernelOK /\ LinesOK /\ ObjOK /\ PeerOK)'
    BY <1>1, <1>2 DEF KernelOK, LinesOK, ObjOK, PeerOK
  <2> QED
    BY <2>1, <2>2, <2>3, <2>4, TypePartsNext
<1>8. FdInv'
  BY <1>1, <1>4, <1>6 DEF FdInv
<1>9. EventInv'
  <2>1. \A g \in Fd, d \in Conn :
           events'[g] = PeerObj(d) => pfd[d] = g /\ d \notin deleteSet
    BY <1>5, Distinct DEF EventInv
  <2>2. \A g \in Fd, d \in Conn :
           events'[g] = WriterObj(d) => wfd[d] = g /\ ~wfail'[d]
    BY <1>4, <1>5, <1>6, Distinct DEF EventInv
  <2>3. \A d \in Conn : peer[d] = "live" =>
           d \in deleteSet \/ events'[pfd[d]] = PeerObj(d)
    BY <1>2, <1>3, <1>4, <1>5, Numbers DEF EventInv, FdInv, ObjOK
  <2>4. \A d \in Conn : writer[d] = "live" =>
           wfail'[d] \/ events'[wfd[d]] = WriterObj(d)
    <3> TAKE d \in Conn
    <3>1. CASE d = c
      BY <1>6, <3>1
    <3>2. CASE d # c
      BY <1>2, <1>3, <1>4, <1>5, <1>6, <3>2, Numbers DEF EventInv, FdInv, ObjOK
    <3> QED
      BY <3>1, <3>2
  <2> QED
    BY <1>1, <2>1, <2>2, <2>3, <2>4 DEF EventInv, PeerObj, WriterObj
<1>10. BatchInv'
  BY <1>1, BatchKept
<1>11. CurInv'
  BY <1>1 DEF CurInv
<1>12. ArmedInv'
  <2>1. \A d \in Conn : d # c /\ InBatch(d) =>
           InBatch(d)' \/ wfail[d] \/ writer[d] # "live"
    <3> SUFFICES ASSUME NEW d \in Conn, d # c, NEW g \in batch,
                        g.obj = WriterObj(d)
                 PROVE  InBatch(d)' \/ wfail[d] \/ writer[d] # "live"
      BY DEF InBatch
    <3>1. CASE g = e
      BY <1>1, <3>1, WriterEntry, Distinct DEF f
    <3>2. CASE g # e
      <4>1. g \in batch'
        BY <1>1, <3>2
      <4> QED
        BY <4>1 DEF InBatch, WriterObj
    <3> QED
      BY <3>1, <3>2
  <2> QED
    BY <1>1, <1>6, <2>1 DEF ArmedInv
<1>13. EventCountExact'
  BY <1>6 DEF EventCountExact
<1> QED
  BY <1>7, <1>8, <1>9, <1>10, <1>11, <1>12, <1>13

(* A Peer is deleted between two batches, and its writer with it.          *)
LEMMA DeleteKeeps ==
    ASSUME SafeInv, NEW c \in Conn, DeletePeer(c)
    PROVE  SafeInv'
<1> USE DEF SafeInv
<1> DEFINE f == wfd[c]
<1>1. /\ UNCHANGED <<link, inq, nconn, nacc, nsend, full, edge, ledge>>
      /\ UNCHANGED <<armed, out, wfail, refused>>
      /\ UNCHANGED <<announced, errs, peers>>
      /\ UNCHANGED <<pc, batch, cur, lines, eof, fault>>
      /\ batch = {} /\ pc = "dispatch"
      /\ deleteSet' = deleteSet \ {c} /\ c \in deleteSet
      /\ peer' = [peer EXCEPT ![c] = "freed"] /\ pfd' = [pfd EXCEPT ![c] = 0]
  BY DEF DeletePeer, At, DeleteSocket, kernelVars, peerVars, loopVars
<1>2. KernelOK /\ LinesOK /\ ObjOK /\ OutOK /\ PeerOK /\ EvOK /\ LoopOK
  BY TypeParts
<1>3. \/ /\ writer[c] = "live" /\ unregisterEvent(f)
         /\ epout' = [epout EXCEPT ![c] = FALSE]
         /\ writer' = [writer EXCEPT ![c] = "freed"]
         /\ wfd' = [wfd EXCEPT ![c] = 0]
      \/ writer[c] # "live" /\ UNCHANGED <<events, eventCount, epout, writer, wfd>>
  BY DEF DeletePeer, DeleteSocketWriter
<1>4. peer[c] = "live" /\ \A g \in Fd : events[g] # PeerObj(c)
  BY <1>1 DEF EventInv
<1>5. writer[c] = "live" => f \in Fd /\ \A d \in Conn : pfd[d] # f
  BY <1>2, Numbers DEF FdInv, ObjOK
<1>6. \A d \in Conn : d # c /\ wfd[d] # 0 => wfd[d] # f
  BY DEF FdInv
<1> HIDE DEF f
<1>7. \A d \in Conn :
        /\ peer'[d] = (IF d = c THEN "freed" ELSE peer[d])
        /\ pfd'[d] = (IF d = c THEN 0 ELSE pfd[d])
  BY <1>1, <1>2 DEF ObjOK
<1>8. \A d \in Conn :
        /\ d # c => writer'[d] = writer[d] /\ wfd'[d] = wfd[d]
        /\ d # c => epout'[d] = epout[d]
  BY <1>2, <1>3 DEF ObjOK, OutOK
<1>9. writer'[c] # "live" /\ wfd'[c] = 0 /\ (writer[c] = "none" <=> writer'[c] = "none")
  BY <1>2, <1>3 DEF ObjOK, FdInv
<1>10. \A g \in Fd : \/ events'[g] = events[g] /\ (writer[c] = "live" => g # f)
                     \/ writer[c] = "live" /\ g = f /\ events'[g] = NoObj
  BY <1>2, <1>3 DEF EvOK, unregisterEvent
<1>11. TypeOK'
  <2>1. EvOK'
    <3>1. events' \in [Fd -> Obj] /\ eventCount' \in Int
      <4>1. CASE writer[c] = "live"
        BY <1>2, <1>3, <4>1, TypesUnregister
      <4>2. CASE writer[c] # "live"
        BY <1>2, <1>3, <4>2 DEF EvOK
      <4> QED
        BY <4>1, <4>2
    <3> QED
      BY <1>1, <1>2, <3>1 DEF EvOK, Obj, PeerObj, WriterObj, NoObj
  <2>2. OutOK' /\ ObjOK'
    BY <1>1, <1>2, <1>3 DEF OutOK, ObjOK
  <2>3. (KernelOK /\ LinesOK /\ PeerOK /\ LoopOK)'
    BY <1>1, <1>2 DEF KernelOK, LinesOK, PeerOK, LoopOK
  <2> QED
    BY <2>1, <2>2, <2>3, TypePartsNext
<1>12. FdInv'
  BY <1>1, <1>4, <1>7, <1>8, <1>9 DEF FdInv
<1>13. EventInv'
  <2>1. \A g \in Fd, d \in Conn :
           events'[g] = PeerObj(d) => pfd'[d] = g /\ d \notin deleteSet'
    BY <1>1, <1>4, <1>7, <1>10, Distinct DEF EventInv
  <2>2. \A g \in Fd, d \in Conn :
           events'[g] = WriterObj(d) => wfd'[d] = g /\ ~wfail[d]
    <3> SUFFICES ASSUME NEW g \in Fd, NEW d \in Conn, events'[g] = WriterObj(d)
                 PROVE  wfd'[d] = g /\ ~wfail[d]
      OBVIOUS
    <3>1. events[g] = WriterObj(d) /\ (writer[c] = "live" => g # f)
      BY <1>10, Distinct
    <3>2. wfd[d] = g /\ ~wfail[d]
      BY <3>1 DEF EventInv
    <3>3. d # c
      BY <3>1, <3>2, Numbers DEF FdInv, f
    <3> QED
      BY <1>8, <3>2, <3>3
  <2>3. \A d \in Conn : peer'[d] = "live" =>
           d \in deleteSet' \/ events'[pfd'[d]] = PeerObj(d)
    <3> SUFFICES ASSUME NEW d \in Conn, peer'[d] = "live", d \notin deleteSet'
                 PROVE  events'[pfd'[d]] = PeerObj(d)
      OBVIOUS
    <3>1. d # c /\ peer[d] = "live" /\ pfd'[d] = pfd[d] /\ d \notin deleteSet
      BY <1>1, <1>7
    <3>2. events[pfd[d]] = PeerObj(d) /\ pfd[d] \in Fd
      BY <1>2, <3>1 DEF EventInv, FdInv, ObjOK
    <3> QED
      BY <1>5, <1>10, <3>1, <3>2
  <2>4. \A d \in deleteSet' : peer'[d] = "live"
    BY <1>1, <1>2, <1>7 DEF EventInv, EvOK
  <2>5. \A d \in Conn : writer'[d] = "live" =>
           wfail[d] \/ events'[wfd'[d]] = WriterObj(d)
    <3> SUFFICES ASSUME NEW d \in Conn, writer'[d] = "live", ~wfail[d]
                 PROVE  events'[wfd'[d]] = WriterObj(d)
      OBVIOUS
    <3>1. d # c /\ writer[d] = "live" /\ wfd'[d] = wfd[d]
      BY <1>8, <1>9
    <3>2. events[wfd[d]] = WriterObj(d) /\ wfd[d] \in Fd
      BY <1>2, <3>1 DEF EventInv, FdInv, ObjOK
    <3> QED
      BY <1>6, <1>10, <3>1, <3>2, Numbers
  <2> QED
    BY <1>1, <2>1, <2>2, <2>3, <2>4, <2>5 DEF EventInv, PeerObj, WriterObj
<1>14. BatchInv'
  BY <1>1 DEF BatchInv
<1>15. CurInv'
  BY <1>1, <1>7 DEF CurInv
<1>16. ArmedInv'
  <2>1. \A d \in Conn : ~InBatch(d)
    BY <1>1 DEF InBatch
  <2> QED
    BY <1>1, <1>8, <1>9, <2>1 DEF ArmedInv
<1>17. EventCountExact'
  <2> SUFFICES ASSUME \A d \in Conn : ~wfail[d]
               PROVE  eventCount' = 1 + Cardinality({g \in Fd : events'[g] # NoObj})
    BY <1>1 DEF EventCountExact, NoObj
  <2>1. eventCount = 1 + Cardinality({g \in Fd : events[g] # NoObj})
    BY DEF EventCountExact
  <2>2. CASE writer[c] = "live"
    <3>1. unregisterEvent(f) /\ f \in Fd
      BY <1>3, <1>5, <2>2
    <3>2. events[f] # NoObj
      BY <2>2, Distinct DEF EventInv, f
    <3> QED
      BY <1>2, <2>1, <3>1, <3>2, CountUnregister
  <2>3. CASE writer[c] # "live"
    BY <1>3, <2>1, <2>3
  <2> QED
    BY <2>2, <2>3
<1> QED
  BY <1>11, <1>12, <1>13, <1>14, <1>15, <1>16, <1>17
-----------------------------------------------------------------------------
(* ClientSocket::write: the writer is made, or armed and enabled.          *)
LEMMA FirstAnswer ==
    ASSUME SafeInv, NEW c \in Conn, Write(c), writer[c] = "none",
           pc = "lines", cur = c, UNCHANGED <<nacc, batch, fault>>
    PROVE  /\ (ObjOK /\ OutOK /\ EvOK)' /\ FdInv' /\ EventInv'
           /\ ArmedInv' /\ EventCountExact'
           /\ \A d \in Conn : wfd[d] # 0 => wfd'[d] = wfd[d]
<1> USE DEF SafeInv
<1> DEFINE f == LowestFd
<1>1. /\ UNCHANGED <<peer, pfd, deleteSet, wfail>>
      /\ writer' = [writer EXCEPT ![c] = "live"] /\ wfd' = [wfd EXCEPT ![c] = f]
      /\ registerEvent(f, WriterObj(c))
      /\ armed' = [armed EXCEPT ![c] = TRUE]
      /\ epout' = [epout EXCEPT ![c] = TRUE]
      /\ out' = [out EXCEPT ![c] = @ + 1]
      /\ refused' = [refused EXCEPT ![c] = @ /\ armed[c]]
  BY DEF Write, NewSocketWriter, makeSockFD
<1>2. KernelOK /\ LinesOK /\ ObjOK /\ OutOK /\ PeerOK /\ EvOK /\ LoopOK
  BY TypeParts
<1>3. peer[c] = "live" /\ wfd[c] = 0 /\ ~wfail[c]
  BY <1>2 DEF CurInv, FdInv, ObjOK, OutOK
<1>4. f \in Fd /\ \A d \in Conn : pfd[d] # f /\ wfd[d] # f
  BY <1>2, <1>3, LowestFree
<1>5. events[f] = NoObj
  BY <1>2, <1>4, NoOwner
<1> HIDE DEF f
<1>6. \A d \in Conn : /\ writer'[d] = (IF d = c THEN "live" ELSE writer[d])
                      /\ wfd'[d] = (IF d = c THEN f ELSE wfd[d])
  BY <1>1, <1>2 DEF ObjOK
<1>7. \A d \in Conn : /\ d # c => armed'[d] = armed[d] /\ out'[d] = out[d]
                      /\ d # c => refused'[d] = refused[d] /\ epout'[d] = epout[d]
  BY <1>1, <1>2 DEF OutOK
<1>8. armed'[c] /\ epout'[c]
  BY <1>1, <1>2 DEF OutOK
<1>9. \A g \in Fd : events'[g] = (IF g = f THEN WriterObj(c) ELSE events[g])
  BY <1>1, <1>2 DEF EvOK, registerEvent
<1>10. WriterObj(c) \in Obj /\ WriterObj(c) # NoObj
  BY Objects, Distinct
<1>11. ObjOK'
  BY <1>1, <1>2, <1>4 DEF ObjOK
<1>12. OutOK'
  <2>1. out[c] \in Nat /\ out[c] + 1 \in Nat
    BY <1>2 DEF OutOK
  <2>2. out' \in [Conn -> Nat]
    BY <1>1, <1>2, <2>1 DEF OutOK
  <2>3. refused' \in [Conn -> BOOLEAN]
    BY <1>1, <1>2 DEF OutOK
  <2>4. armed' \in [Conn -> BOOLEAN] /\ epout' \in [Conn -> BOOLEAN]
    BY <1>1, <1>2 DEF OutOK
  <2> QED
    BY <1>1, <1>2, <2>2, <2>3, <2>4 DEF OutOK
<1>13. EvOK'
  <2>1. events' \in [Fd -> Obj] /\ eventCount' \in Int
    BY <1>1, <1>2, <1>10, TypesRegister
  <2> QED
    BY <1>1, <1>2, <2>1 DEF EvOK, Obj, PeerObj, WriterObj, NoObj
<1>14. FdInv'
  <2>1. f # 0
    BY <1>4, Numbers
  <2>2. c <= nacc
    BY <1>2, <1>3, Numbers DEF FdInv, KernelOK
  <2>3. nacc \in Nat /\ nacc' = nacc
    BY <1>2 DEF KernelOK
  <2>4. ~(c > nacc)
    BY <2>2, <2>3, Numbers
  <2> QED
    BY <1>1, <1>3, <1>4, <1>6, <2>1, <2>3, <2>4 DEF FdInv
<1>15. EventInv'
  <2>1. \A g \in Fd, d \in Conn :
           events'[g] = PeerObj(d) => pfd[d] = g /\ d \notin deleteSet
    BY <1>9, Distinct DEF EventInv
  <2>2. \A g \in Fd, d \in Conn :
           events'[g] = WriterObj(d) => wfd'[d] = g /\ ~wfail[d]
    <3> SUFFICES ASSUME NEW g \in Fd, NEW d \in Conn, events'[g] = WriterObj(d)
                 PROVE  wfd'[d] = g /\ ~wfail[d]
      OBVIOUS
    <3>1. CASE g = f
      BY <1>3, <1>6, <1>9, <3>1, Distinct
    <3>2. CASE g # f
      <4>1. wfd[d] = g /\ ~wfail[d]
        BY <1>9, <3>2 DEF EventInv
      <4> QED
        BY <1>3, <1>6, <4>1, Numbers
    <3> QED
      BY <3>1, <3>2
  <2>3. \A d \in Conn : peer[d] = "live" =>
           d \in deleteSet \/ events'[pfd[d]] = PeerObj(d)
    BY <1>2, <1>4, <1>9 DEF EventInv, FdInv, ObjOK
  <2>4. \A d \in Conn : writer'[d] = "live" =>
           wfail[d] \/ events'[wfd'[d]] = WriterObj(d)
    <3> TAKE d \in Conn
    <3>1. CASE d = c
      BY <1>4, <1>6, <1>9, <3>1
    <3>2. CASE d # c
      BY <1>2, <1>4, <1>6, <1>9, <3>2 DEF EventInv, FdInv, ObjOK
    <3> QED
      BY <3>1, <3>2
  <2> QED
    BY <1>1, <2>1, <2>2, <2>3, <2>4 DEF EventInv, PeerObj, WriterObj
<1>16. ArmedInv'
  <2>1. \A d \in Conn : InBatch(d) => InBatch(d)'
    BY DEF InBatch, WriterObj
  <2> QED
    BY <1>1, <1>6, <1>7, <1>8, <2>1 DEF ArmedInv
<1>17. EventCountExact'
  <2> SUFFICES ASSUME \A d \in Conn : ~wfail[d]
               PROVE  eventCount' = 1 + Cardinality({g \in Fd : events'[g] # NoObj})
    BY <1>1 DEF EventCountExact, NoObj
  <2>1. eventCount = 1 + Cardinality({g \in Fd : events[g] # NoObj})
    BY DEF EventCountExact
  <2> QED
    BY <1>1, <1>2, <1>4, <1>5, <1>10, <2>1, CountRegister
<1> QED
  BY <1>3, <1>6, <1>11, <1>12, <1>13, <1>14, <1>15, <1>16, <1>17

LEMMA LaterAnswer ==
    ASSUME SafeInv, NEW c \in Conn, Write(c), writer[c] # "none",
           UNCHANGED <<nacc, batch, fault>>
    PROVE  /\ (ObjOK /\ OutOK /\ EvOK)' /\ FdInv' /\ EventInv'
           /\ ArmedInv' /\ EventCountExact' /\ UNCHANGED wfd
<1> USE DEF SafeInv
<1>1. /\ UNCHANGED <<peer, pfd, deleteSet, wfail, writer, wfd, events, eventCount>>
      /\ armed' = [armed EXCEPT ![c] = TRUE]
      /\ IF armed[c] THEN UNCHANGED epout ELSE rearmEvent(c)
      /\ out' = [out EXCEPT ![c] = @ + 1]
      /\ refused' = [refused EXCEPT ![c] = @ /\ armed[c]]
  BY DEF Write, rearm
<1>2. KernelOK /\ LinesOK /\ ObjOK /\ OutOK /\ PeerOK /\ EvOK /\ LoopOK
  BY TypeParts
<1>3. /\ epout' \in [Conn -> BOOLEAN]
      /\ \A d \in Conn : epout[d] => epout'[d]
      /\ ~armed[c] /\ Registered(WriterObj(c)) => epout'[c]
  <2>1. CASE armed[c]
    BY <1>1, <1>2, <2>1 DEF OutOK
  <2>2. CASE ~armed[c]
    <3>1. epout' = [epout EXCEPT ![c] = @ \/ Registered(WriterObj(c))]
      BY <1>1, <2>2 DEF rearmEvent
    <3>2. \A d \in Conn :
             epout'[d] = (IF d = c THEN epout[c] \/ Registered(WriterObj(c))
                          ELSE epout[d])
      BY <1>2, <3>1 DEF OutOK
    <3>3. epout' \in [Conn -> BOOLEAN]
      BY <1>2, <3>1 DEF OutOK, Registered
    <3> QED
      BY <3>2, <3>3
  <2> QED
    BY <2>1, <2>2
<1>4. OutOK'
  <2>1. out[c] \in Nat /\ out[c] + 1 \in Nat
    BY <1>2 DEF OutOK
  <2>2. out' \in [Conn -> Nat]
    BY <1>1, <1>2, <2>1 DEF OutOK
  <2>3. refused' \in [Conn -> BOOLEAN]
    BY <1>1, <1>2 DEF OutOK
  <2>4. armed' \in [Conn -> BOOLEAN]
    BY <1>1, <1>2 DEF OutOK
  <2> QED
    BY <1>1, <1>2, <1>3, <2>2, <2>3, <2>4 DEF OutOK
<1>5. (ObjOK /\ EvOK)'
  BY <1>1, <1>2 DEF ObjOK, EvOK
<1>6. FdInv' /\ EventInv'
  BY <1>1, ObjectsKept DEF objVars
<1>7. ArmedInv'
  <2>1. \A d \in Conn : InBatch(d) => InBatch(d)'
    BY DEF InBatch, WriterObj
  <2>2. writer[c] = "live" => wfail[c] \/ Registered(WriterObj(c))
    BY <1>2 DEF EventInv, FdInv, ObjOK, Registered
  <2>3. \A d \in Conn : d # c => /\ armed'[d] = armed[d] /\ out'[d] = out[d]
                                 /\ refused'[d] = refused[d]
    BY <1>1, <1>2 DEF OutOK
  <2>4. armed'[c]
    BY <1>1, <1>2 DEF OutOK
  <2> QED
    BY <1>1, <1>3, <2>1, <2>2, <2>3, <2>4 DEF ArmedInv
<1>8. EventCountExact'
  BY <1>1, CountKept
<1> QED
  BY <1>1, <1>4, <1>5, <1>6, <1>7, <1>8

(* A request that is answered.                                             *)
LEMMA AnswerKeeps == ASSUME SafeInv, HandleLine PROVE SafeInv'
<1> USE DEF SafeInv
<1> DEFINE c == cur
           n == IF Outcome(c, Head(lines)) = "ok" THEN 0 ELSE errs[c] + 1
<1>1. /\ UNCHANGED <<link, inq, nconn, nacc, nsend, full, edge, ledge>>
      /\ UNCHANGED <<batch, cur, eof, fault>>
      /\ pc = "lines" /\ lines # <<>> /\ lines' = Tail(lines)
      /\ errs' = [errs EXCEPT ![c] = n]
      /\ pc' = IF TooManyErrors(n) THEN "drop" ELSE "lines"
  BY DEF HandleLine, At, kernelVars
<1>2. /\ peers' \in {peers, peers \cup {c}}
      /\ announced' = [announced EXCEPT ![c] = @ \/
            (Outcome(c, Head(lines)) = "ok" /\ Head(lines) = "announce")]
      /\ Write(c)
  BY DEF HandleLine
<1>3. KernelOK /\ LinesOK /\ ObjOK /\ OutOK /\ PeerOK /\ EvOK /\ LoopOK
  BY TypeParts
<1>4. c \in Conn /\ peer[c] = "live" /\ c \notin deleteSet
  BY <1>1 DEF CurInv
<1>5. n \in 0..(MaxErr + 1)
  <2>1. errs[c] \in 0..(MaxErr + 1) /\ ~(errs[c] > MaxErr)
    BY <1>1, <1>3, <1>4 DEF PeerOK, CurInv
  <2> QED
    BY <2>1, CppAssumption
<1>6. UNCHANGED <<peer, pfd, deleteSet>>
  BY <1>2 DEF Write
<1> HIDE DEF c, n
<1>7. /\ (ObjOK /\ OutOK /\ EvOK)' /\ FdInv' /\ EventInv'
      /\ ArmedInv' /\ EventCountExact'
      /\ \A d \in Conn : wfd[d] # 0 => wfd'[d] = wfd[d]
  <2>1. CASE writer[c] = "none"
    BY <1>1, <1>2, <1>4, <2>1, FirstAnswer DEF c
  <2>2. CASE writer[c] # "none"
    BY <1>1, <1>2, <1>4, <2>2, LaterAnswer
  <2> QED
    BY <2>1, <2>2
<1>8. TypeOK'
  <2>1. KernelOK'
    BY <1>1, <1>3 DEF KernelOK
  <2>2. LinesOK'
    BY <1>1, <1>3 DEF LinesOK
  <2>3. PeerOK'
    <3>1. announced' \in [Conn -> BOOLEAN]
      BY <1>2, <1>3 DEF PeerOK
    <3>2. errs' \in [Conn -> 0..(MaxErr + 1)]
      BY <1>1, <1>3, <1>5 DEF PeerOK
    <3>3. peers' \subseteq Conn
      BY <1>2, <1>3, <1>4 DEF PeerOK
    <3> QED
      BY <3>1, <3>2, <3>3 DEF PeerOK
  <2>4. LoopOK'
    BY <1>1, <1>3 DEF LoopOK
  <2> QED
    BY <1>7, <2>1, <2>2, <2>3, <2>4, TypePartsNext
<1>9. BatchInv'
  BY <1>1, <1>6, <1>7, BatchKept
<1>10. CurInv'
  <2>1. \A d \in Conn : errs'[d] = (IF d = c THEN n ELSE errs[d])
    BY <1>1, <1>3 DEF PeerOK
  <2>2. n > MaxErr => pc' = "drop"
    BY <1>1 DEF TooManyErrors
  <2>3. pc # "drop" /\ cur' = c
    BY <1>1 DEF c
  <2>4. \A d \in Conn : errs'[d] > MaxErr =>
           d \in deleteSet' \/ peer'[d] = "freed" \/ (pc' = "drop" /\ cur' = d)
    BY <1>6, <2>1, <2>2, <2>3 DEF CurInv
  <2> QED
    BY <1>4, <1>6, <2>3, <2>4 DEF CurInv
<1> QED
  BY <1>7, <1>8, <1>9, <1>10
-----------------------------------------------------------------------------
LEMMA LoopKeeps == SafeInv /\ [Next]_vars => SafeInv'
<1> SUFFICES ASSUME SafeInv, [Next]_vars PROVE SafeInv'
  OBVIOUS
<1>1. CASE PeerStep
  BY <1>1, PeersKeep
<1>2. CASE Moves
  BY <1>2, MovesKeep
<1>3. CASE Faults
  BY <1>3, FaultsKeep
<1>4. CASE EpollWait
  BY <1>4, WaitKeeps
<1>5. CASE \E e \in batch : DispatchPeer(e)
  BY <1>5, ReadKeeps
<1>6. CASE Accept
  BY <1>6, AcceptKeeps
<1>7. CASE HandleLine
  BY <1>7, AnswerKeeps
<1>8. CASE DropPeer
  BY <1>8, DropKeeps
<1>9. CASE \E e \in batch, c \in Conn : Writes(e, c)
  BY <1>9, WritesKeep
<1>10. CASE \E e \in batch, c \in Conn : WriteFails(e, c)
  BY <1>10, FailKeeps
<1>11. CASE \E c \in Conn : DeletePeer(c)
  BY <1>11, DeleteKeeps
<1>12. CASE UNCHANGED vars
  <2>1. /\ UNCHANGED <<link, inq, nconn, nacc, nsend, full, edge, ledge>>
        /\ UNCHANGED <<peer, writer, pfd, wfd, epout, armed, out, wfail, refused>>
        /\ UNCHANGED <<announced, errs, peers, events, eventCount, deleteSet>>
        /\ UNCHANGED <<pc, batch, cur, lines, eof, fault>>
    BY <1>12 DEF vars, kernelVars, objVars, outVars, peerVars, evVars, loopVars
  <2>2. TypeOK'
    BY <2>1 DEF SafeInv, TypeOK, Obj, PeerObj, WriterObj, NoObj, Listener
  <2>3. FdInv' /\ EventInv'
    BY <2>1, ObjectsKept DEF SafeInv, objVars
  <2>4. BatchInv'
    BY <2>1, BatchKept DEF SafeInv, BatchInv
  <2>5. CurInv'
    BY <2>1 DEF SafeInv, CurInv
  <2>6. ArmedInv'
    BY <2>1 DEF SafeInv, ArmedInv, InBatch, WriterObj
  <2>7. EventCountExact'
    BY <2>1, CountKept DEF SafeInv
  <2> QED
    BY <2>2, <2>3, <2>4, <2>5, <2>6, <2>7 DEF SafeInv
<1> QED
  BY <1>1, <1>2, <1>3, <1>4, <1>5, <1>6, <1>7, <1>8, <1>9, <1>10, <1>11, <1>12
     DEF Next, LoopStep, Moves, Faults, Writes

LEMMA Always == Spec => []SafeInv
  BY LoopStarts, LoopKeeps, PTL DEF Spec

(* Type correctness of the event loop, for every number of connections.    *)
THEOREM CppTypes == Spec => []TypeOK
<1>1. SafeInv => TypeOK
  BY DEF SafeInv
<1> QED
  BY <1>1, Always, PTL

(* mainLoop looks an event up by its descriptor, and finds the object that *)
(* was reported, or nothing.                                               *)
THEOREM EventsReachOwners == Spec => []EventReachesOwner
<1>1. SafeInv => EventReachesOwner
  BY TypeParts, ReportedIsOwner DEF SafeInv
<1> QED
  BY <1>1, Always, PTL

(* What EventManager has registered is alive, on its own open descriptor.  *)
THEOREM RegisteredAreLive == Spec => []RegisteredIsLive
<1>1. SafeInv => RegisteredIsLive
  BY Numbers DEF SafeInv, RegisteredIsLive, EventInv, FdInv
<1> QED
  BY <1>1, Always, PTL

(* A Peer that a handler has dropped is in the list of cleanDeleteList.    *)
THEOREM UnregisteredAreDeleted == Spec => []UnregisteredIsDeleted
<1>1. SafeInv => UnregisteredIsDeleted
  <2> SUFFICES ASSUME SafeInv, NEW c \in Conn, peer[c] = "live",
                      c \notin deleteSet
               PROVE  Registered(PeerObj(c))
    BY DEF UnregisteredIsDeleted
  <2>1. pfd[c] \in Fd /\ events[pfd[c]] = PeerObj(c)
    BY TypeParts DEF SafeInv, EventInv, FdInv, ObjOK
  <2> QED
    BY <2>1 DEF Registered
<1> QED
  BY <1>1, Always, PTL

(* A SocketWriter with output left is enabled in epoll or about to run.    *)
THEOREM OutputIsArmed == Spec => []OutputArmed
<1>1. SafeInv => OutputArmed
  <2> SUFFICES ASSUME SafeInv, NEW c \in Conn, out[c] > 0, fault = "none",
                      Registered(WriterObj(c))
               PROVE  epout[c] \/ refused[c] \/ InBatch(c)
    BY DEF OutputArmed, InBatch
  <2>1. writer[c] = "live" /\ ~wfail[c]
    BY Numbers DEF SafeInv, Registered, EventInv, FdInv
  <2> QED
    BY <2>1 DEF SafeInv, ArmedInv
<1> QED
  BY <1>1, Always, PTL

(* _eventCount is what mainLoop believes it to be.                         *)
THEOREM EventCountIsExact == Spec => []EventCountExact
<1>1. SafeInv => EventCountExact
  BY DEF SafeInv
<1> QED
  BY <1>1, Always, PTL
=============================================================================
