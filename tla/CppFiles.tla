------------------------------ MODULE CppFiles ------------------------------
(***************************************************************************)
(* The files of the C++ tracker and the peers registered in them: what    *)
(* announce, update, look and getfile do to the FileMgr, to the sets      *)
(* File::_peers of bare pointers and to the Peer that sent them           *)
(* (tracker_cpp/Peer.cpp, File.cpp, FileMgr.cpp, FileMap.cpp).            *)
(*                                                                        *)
(* One line of a peer is read keyword by keyword, one step each, so that  *)
(* a line that fails half way leaves behind exactly what it had done.     *)
(* The tracker has one thread: no other peer moves while a line is read.  *)
(* Peers are named by their address, which the allocator may use again    *)
(* after `delete`; a File is never deleted and is named by its index.     *)
(* Peer::_seed and Peer::_leech are written and never read: left out.     *)
(* A definition named Op_Something is a faulty variant of Op.             *)
(***************************************************************************)
EXTENDS Naturals, Sequences, FiniteSets

CONSTANTS
  Addr,              \* addresses at which a Peer can be allocated
  NoPeer,            \* no Peer
  Key,               \* hashes
  Desc,              \* what a seed list tells of a file: name, size, hash
  BadNumber,         \* four words of which stoul refuses one
  Ragged,            \* a seed list whose word count is no multiple of 4
  MAX_SEQ_ERROR_COUNT,
  MaxSeed,           \* bound: entries of one seed list
  MaxLines,          \* bound: lines the peers send
  MaxPeers           \* bound: Peers ever allocated

ASSUME DescAssumption == \A d \in Desc : d.hash \in Key
ASSUME BoundAssumption ==
  /\ MAX_SEQ_ERROR_COUNT \in Nat
  /\ {MaxSeed, MaxLines, MaxPeers} \subseteq Nat
  /\ {BadNumber, Ragged} \cap Desc = {}

VARIABLES
  alive,       \* the addresses that hold a Peer
  peer,        \* address -> _listeningPort, _announced, _seqErrorCount
  files,       \* the File objects in order of creation: desc and _peers
  fileMap,     \* FileMap of the FileMgr: hash -> index in files, or 0
  line,        \* the line being read
  fault,       \* the undefined behaviour a getfile of a key ran into, if any
  lines, born, \* counters of the bounds
  told,        \* history: address -> keys its Peer has been registered for
  seeded,      \* history: keys some well-formed seed entry has named
  gone,        \* history: keys a deleted Peer was registered for
  failed,      \* history: Peers one of whose announces failed
  conflict     \* history: keys seeded with two different sizes

filesVars == <<alive, peer, files, fileMap, line, fault, lines, born,
          told, seeded, gone, failed, conflict>>
history == <<told, seeded, gone, failed, conflict>>

NoLine == [cmd |-> "", by |-> NoPeer, k |-> 0, got |-> {}, todo |-> <<>>]
NewPeer == [port |-> 0, announced |-> FALSE, errors |-> 0]

SeedList == (UNION {[1..n -> Desc \cup {BadNumber}] : n \in 0..MaxSeed}) \cup {Ragged}

FilesTypeOK ==
  /\ alive \subseteq Addr
  /\ DOMAIN peer = Addr
  /\ \A a \in Addr : /\ peer[a].port \in 0..1 /\ peer[a].announced \in BOOLEAN
                     /\ peer[a].errors \in 0..MAX_SEQ_ERROR_COUNT
  /\ \A i \in 1..Len(files) : files[i].desc \in Desc /\ files[i].peers \subseteq Addr
  /\ fileMap \in [Key -> 0..Len(files)]
  /\ line.cmd \in {"", "announce", "update"} /\ line.by \in Addr \cup {NoPeer} /\ line.k \in 0..3
  /\ fault \in {<<>>} \cup ({"null file", "freed peer"} \X Key)

FilesInit ==
  /\ alive = {} /\ peer = [a \in Addr |-> NewPeer]
  /\ files = <<>> /\ fileMap = [k \in Key |-> 0]
  /\ line = NoLine /\ fault = <<>> /\ lines = 0 /\ born = 0
  /\ told = [a \in Addr |-> {}]
  /\ seeded = {} /\ gone = {} /\ failed = {} /\ conflict = {}

Idle == fault = <<>> /\ line.cmd = ""

----------------------------------------------------------------------------
(* Files: FileMgr::getFile and File::addPeer.                              *)

SameFile_ByName(d, e) == d.size = e.size /\ d.hash = e.hash /\ d.name = e.name

\* File::operator== : the size is compared twice, the name not at all.
SameFile(d, e) == d.size = e.size /\ d.hash = e.hash

Matches(d) == fileMap[d.hash] # 0 /\ SameFile(files[fileMap[d.hash]].desc, d)

\* The index of the File that getFile returns.
FileOf(d) == IF Matches(d) THEN fileMap[d.hash] ELSE Len(files) + 1

AddPeer_SetOnly(a, d) ==
  /\ files' = IF Matches(d) THEN [files EXCEPT ![FileOf(d)].peers = @ \cup {a}]
                            ELSE Append(files, [desc |-> d, peers |-> {a}])
  /\ UNCHANGED fileMap

\* getFile(d)->addPeer(a): an unmatched description makes a new File, which
\* enters the set of files; the map keeps the File it had under that hash.
AddPeer(a, d) ==
  /\ files' = IF Matches(d) THEN [files EXCEPT ![FileOf(d)].peers = @ \cup {a}]
                            ELSE Append(files, [desc |-> d, peers |-> {a}])
  /\ fileMap' = [fileMap EXCEPT ![d.hash] = IF @ = 0 THEN FileOf(d) ELSE @]

----------------------------------------------------------------------------
(* Peers come and go.                                                      *)

Connect(a) ==
  /\ Idle /\ a \notin alive /\ born < MaxPeers
  /\ born' = born + 1
  /\ alive' = alive \cup {a}
  /\ UNCHANGED <<peer, files, fileMap, line, fault, lines, history>>

\* The Peer is deleted; no File forgets its address.
Delete(a) ==
  /\ alive' = alive \ {a}
  /\ peer' = [peer EXCEPT ![a] = NewPeer]
  /\ gone' = gone \cup told[a]
  /\ told' = [told EXCEPT ![a] = {}]
  /\ failed' = failed \ {a}

Disconnect(a) ==
  /\ Idle /\ a \in alive
  /\ Delete(a)
  /\ UNCHANGED <<files, fileMap, line, fault, lines, born, seeded, conflict>>

----------------------------------------------------------------------------
(* Peer::readHandler: a handler that throws costs an error, one that       *)
(* returns clears them, one error too many closes the connection.          *)

Throw(a) ==
  /\ line' = NoLine
  /\ IF peer[a].errors = MAX_SEQ_ERROR_COUNT
     THEN Delete(a)
     ELSE /\ peer' = [peer EXCEPT ![a].errors = @ + 1]
          /\ failed' = IF line.cmd = "announce" THEN failed \cup {a} ELSE failed
          /\ UNCHANGED <<alive, gone, told>>

Send(a) == /\ Idle /\ a \in alive /\ lines < MaxLines
           /\ lines' = lines + 1

\* An unknown keyword, an announce from a peer already announced, and any
\* other command from a peer that is not.
Refused(a) ==
  /\ Send(a) /\ Throw(a)
  /\ UNCHANGED <<files, fileMap, fault, born, seeded, conflict>>

Begin(a, cmd) ==
  /\ Send(a)
  /\ peer[a].announced = (cmd = "update")
  /\ line' = [NoLine EXCEPT !.cmd = cmd, !.by = a]
  /\ UNCHANGED <<alive, peer, files, fileMap, fault, born, history>>

----------------------------------------------------------------------------
(* handleAnnounce reads three keywords with their arguments, handleUpdate  *)
(* two. A line that ends early leaves the last keyword and argument where  *)
(* they were, and they are used once more: a line may repeat them too.     *)

Words(cmd) == IF cmd = "announce" THEN {"listen", "seed", "leech"} ELSE {"seed", "leech"}

InLine == fault = <<>> /\ line.cmd # "" /\ line.todo = <<>>
Wants(w) == InLine /\ line.k < Cardinality(Words(line.cmd)) /\ w \in Words(line.cmd)
Did(w) == [line EXCEPT !.k = @ + 1, !.got = @ \cup {w}]

Listen ==
  /\ Wants("listen")
  /\ line' = Did("listen")
  /\ peer' = [peer EXCEPT ![line.by].port = 1]
  /\ UNCHANGED <<alive, files, fileMap, fault, lines, born, history>>

\* parseAnnounceSeed: the words are counted before the first entry is used.
Seed(l) ==
  /\ Wants("seed") /\ line.cmd = "announce" /\ l # Ragged
  /\ line' = [Did("seed") EXCEPT !.todo = l]
  /\ UNCHANGED <<alive, peer, files, fileMap, fault, lines, born, history>>

OtherSize(d) ==
  \E i \in 1..Len(files) : files[i].desc.hash = d.hash /\ files[i].desc.size # d.size

\* One entry. The exception of a bad number is caught inside the loop.
SeedEntry ==
  /\ fault = <<>> /\ line.todo # <<>>
  /\ line' = [line EXCEPT !.todo = Tail(@)]
  /\ LET d == Head(line.todo) IN
       IF d = BadNumber
       THEN UNCHANGED <<files, fileMap, told, seeded, conflict>>
       ELSE /\ AddPeer(line.by, d)
            /\ told' = [told EXCEPT ![line.by] = @ \cup {d.hash}]
            /\ seeded' = seeded \cup {d.hash}
            /\ conflict' = conflict \cup {k \in Key : k = d.hash /\ OtherSize(d)}
  /\ UNCHANGED <<alive, peer, fault, lines, born, gone, failed>>

\* parseAnnounceLeech, which update calls for its seed list as well: the
\* peer enters the file of every hash the tracker knows.
Leech(w, ks) ==
  /\ Wants(w) /\ w # "listen" /\ (w = "seed" => line.cmd = "update")
  /\ line' = Did(w)
  /\ LET known == {k \in ks : fileMap[k] # 0} IN
       /\ files' = [i \in 1..Len(files) |->
                      IF \E k \in known : fileMap[k] = i
                      THEN [files[i] EXCEPT !.peers = @ \cup {line.by}] ELSE files[i]]
       /\ told' = [told EXCEPT ![line.by] = @ \cup known]
  /\ UNCHANGED <<alive, peer, fileMap, fault, lines, born, seeded, gone, failed, conflict>>

Complete_AnyWords == line.k = Cardinality(Words(line.cmd))

Complete == line.k = Cardinality(Words(line.cmd)) /\ line.got = Words(line.cmd)

\* The handler returns: _announced is set, the errors are cleared.
Accept ==
  /\ InLine /\ Complete
  /\ peer' = [peer EXCEPT ![line.by].announced = TRUE, ![line.by].errors = 0]
  /\ line' = NoLine
  /\ UNCHANGED <<alive, files, fileMap, fault, lines, born, history>>

\* It throws: an unexpected keyword, a port that is none, a ragged seed list,
\* or a keyword twice. What the line did so far stays done.
Abort ==
  /\ InLine /\ ~Complete
  /\ Throw(line.by)
  /\ UNCHANGED <<files, fileMap, fault, lines, born, seeded, conflict>>

----------------------------------------------------------------------------
(* handleGetfile and handleLook only answer.                               *)

\* peerListString follows every pointer of the file but the asker's own.
Listed(a, k) == files[fileMap[k]].peers \ {a}

Outcome(a, k) ==
  IF fileMap[k] = 0 THEN <<"null file", k>>
  ELSE IF Listed(a, k) \subseteq alive THEN <<>> ELSE <<"freed peer", k>>

Getfile(a, k) ==
  /\ Send(a) /\ peer[a].announced
  /\ fault' = Outcome(a, k)
  /\ peer' = [peer EXCEPT ![a].errors = 0]
  /\ UNCHANGED <<alive, files, fileMap, line, born, history>>

Look(a) ==
  /\ Send(a) /\ peer[a].announced
  /\ peer' = [peer EXCEPT ![a].errors = 0]
  /\ UNCHANGED <<alive, files, fileMap, line, fault, born, history>>

FilesNext ==
  \/ \E a \in Addr : Connect(a) \/ Disconnect(a) \/ Refused(a) \/ Look(a)
  \/ \E a \in Addr, cmd \in {"announce", "update"} : Begin(a, cmd)
  \/ \E a \in Addr, k \in Key : Getfile(a, k)
  \/ Listen \/ SeedEntry \/ Accept \/ Abort
  \/ \E l \in SeedList : Seed(l)
  \/ \E w \in {"seed", "leech"}, ks \in SUBSET Key : Leech(w, ks)

FilesSpec == FilesInit /\ [][FilesNext]_filesVars

----------------------------------------------------------------------------

Copies(k) == {i \in 1..Len(files) : files[i].desc.hash = k}

\* A peer that told of a file in a seed list, or in a list of known hashes, is
\* in a File of that hash, whatever name others gave the file and however its
\* announce ended; getfile finds the File that came first, and there is no
\* other one unless the hash has been seeded with two sizes.
FoundByHash ==
  \A a \in alive : \A k \in told[a] :
    /\ fileMap[k] \in Copies(k) /\ \A i \in Copies(k) : fileMap[k] <= i
    /\ \E i \in Copies(k) : a \in files[i].peers
    /\ k \notin conflict => Copies(k) = {fileMap[k]}

\* A getfile never answers with port 0 of a live peer, except for one whose
\* announce failed after its seed or leech list had been read, and except
\* where the address of a deleted Peer now holds a new one.
ListedHasPort ==
  Idle => \A i \in 1..Len(files) : \A a \in files[i].peers \cap alive :
            \/ peer[a].port # 0
            \/ a \in failed
            \/ files[i].desc.hash \in gone

\* A getfile is answered, unless no seed list ever named the key or a peer
\* registered for it has gone.
FaultHasCause ==
  fault # <<>> =>
    LET k == fault[2] IN
      IF fault[1] = "null file" THEN k \notin seeded ELSE k \in gone
============================================================================
