--------------------------- MODULE CppFilesProofs ---------------------------
(***************************************************************************)
(* Theorems about CppFiles for every set of addresses, hashes and files:   *)
(* types, and the three safety invariants.                                 *)
(***************************************************************************)
EXTENDS CppFiles, FiniteSetTheorems, SequenceTheorems, TLAPS

PeerRecord ==
    [port : 0..1, announced : BOOLEAN, errors : 0..MAX_SEQ_ERROR_COUNT]
FileRecord == [desc : Desc, peers : SUBSET Addr]
LineRecord ==
    [cmd : {"", "announce", "update"}, by : Addr \cup {NoPeer}, k : 0..3,
     got : SUBSET {"listen", "seed", "leech"},
     todo : Seq(Desc \cup {BadNumber})]

(* Whose line is read, and what a getfile may have run into.               *)
LineOK ==
    /\ line \in LineRecord
    /\ line.cmd # "" => line.by \in alive
    /\ line.cmd = "" => line.todo = <<>>
FaultOK == fault \in {<<>>} \cup ({"null file", "freed peer"} \X Key)

(* The ranges of FilesTypeOK and of the history.                           *)
Ranges ==
    /\ alive \in SUBSET Addr
    /\ peer \in [Addr -> PeerRecord]
    /\ files \in Seq(FileRecord)
    /\ fileMap \in [Key -> Nat] /\ \A k \in Key : fileMap[k] <= Len(files)
    /\ LineOK /\ FaultOK
    /\ told \in [Addr -> SUBSET Key]
    /\ seeded \in SUBSET Key /\ gone \in SUBSET Key /\ failed \in SUBSET Addr
    /\ conflict \in SUBSET Key

(* The map holds the first file of every hash that has been seeded, which  *)
(* is the only one unless the sizes differ.                                *)
MapInv ==
    /\ \A k \in Key : fileMap[k] # 0 => files[fileMap[k]].desc.hash = k
    /\ \A i \in 1..Len(files) : fileMap[files[i].desc.hash] # 0
    /\ \A i \in 1..Len(files) :
          /\ files[i].desc.hash \in conflict \/ i = fileMap[files[i].desc.hash]
          /\ fileMap[files[i].desc.hash] <= i
    /\ \A k \in seeded : fileMap[k] # 0

InFile(a, k) ==
    \E i \in 1..Len(files) : files[i].desc.hash = k /\ a \in files[i].peers

(* Who told of a hash is in a file of it; who is in a file has told of its *)
(* hash or had done so when it was deleted.                                *)
PeersInv ==
    /\ \A a \in Addr : \A k \in told[a] :
          fileMap[k] # 0 /\ InFile(a, k)
    /\ \A i \in 1..Len(files) : \A a \in files[i].peers :
          \/ files[i].desc.hash \in gone
          \/ a \in alive /\ files[i].desc.hash \in told[a]

(* A Peer that told of a hash has a port, unless its announce has failed   *)
(* or is still being read.                                                 *)
PortInv ==
    /\ \A a \in Addr : peer[a].announced => peer[a].port = 1
    /\ \A a \in Addr : told[a] # {} =>
          \/ peer[a].port = 1 \/ a \in failed
          \/ line.cmd = "announce" /\ line.by = a
    /\ line.cmd = "update" => peer[line.by].announced
    /\ line.cmd = "announce" /\ "listen" \in line.got => peer[line.by].port = 1

FilesInv == Ranges /\ MapInv /\ PeersInv /\ PortInv
-----------------------------------------------------------------------------
(* An announce has three keywords, an update two.                          *)
LEMMA WordCount ==
    ASSUME NEW cmd
    PROVE  Cardinality(Words(cmd)) = IF cmd = "announce" THEN 3 ELSE 2
<1>1. IsFiniteSet({"leech"}) /\ Cardinality({"leech"}) = 1
  BY FS_Singleton
<1>2. IsFiniteSet({"leech"} \cup {"seed"}) /\ Cardinality({"leech"} \cup {"seed"}) = 2
  BY <1>1, FS_AddElement
<1>3. Cardinality(({"leech"} \cup {"seed"}) \cup {"listen"}) = 3
  BY <1>2, FS_AddElement
<1>4. /\ {"leech"} \cup {"seed"} = {"seed", "leech"}
      /\ ({"leech"} \cup {"seed"}) \cup {"listen"} = {"listen", "seed", "leech"}
  OBVIOUS
<1> QED
  BY <1>2, <1>3, <1>4 DEF Words

LEMMA CountRange ==
    ASSUME NEW cmd
    PROVE  Cardinality(Words(cmd)) \in 0..3
<1>1. CASE cmd = "announce"
  BY <1>1, WordCount
<1>2. CASE cmd # "announce"
  BY <1>2, WordCount
<1> QED
  BY <1>1, <1>2

LEMMA OneMore ==
    ASSUME NEW m \in Nat, NEW e \in 0..m, e # m
    PROVE  e + 1 \in 0..m
  OBVIOUS

(* The files by index.                                                     *)
LEMMA FileTypes ==
    ASSUME Ranges
    PROVE  /\ files \in Seq(FileRecord) /\ Len(files) \in Nat
           /\ fileMap \in [Key -> Nat] /\ \A k \in Key : fileMap[k] <= Len(files)
           /\ \A i \in 1..Len(files) :
                 /\ files[i] \in FileRecord /\ files[i].desc \in Desc
                 /\ files[i].desc.hash \in Key /\ files[i].peers \subseteq Addr
<1>1. files \in Seq(FileRecord) /\ Len(files) \in Nat
  BY DEF Ranges
<1>2. \A i \in 1..Len(files) : files[i] \in FileRecord
  BY <1>1, ElementOfSeq
<1>3. \A f \in FileRecord :
         f.desc \in Desc /\ f.desc.hash \in Key /\ f.peers \subseteq Addr
  BY DescAssumption DEF FileRecord
<1> QED
  BY <1>1, <1>2, <1>3 DEF Ranges

(* What a new Peer and an empty line are.                                  *)
LEMMA NewRecords ==
    /\ NewPeer \in PeerRecord /\ ~NewPeer.announced
    /\ NoLine \in LineRecord /\ NoLine.cmd = "" /\ NoLine.todo = <<>>
<1>1. NewPeer \in PeerRecord
  BY BoundAssumption DEF NewPeer, PeerRecord
<1>2. ~NewPeer.announced
  BY DEF NewPeer
<1>3. <<>> \in Seq(Desc \cup {BadNumber})
  OBVIOUS
<1>4. NoLine \in LineRecord
  BY <1>3 DEF NoLine, LineRecord
<1>5. NoLine.cmd = "" /\ NoLine.todo = <<>>
  BY DEF NoLine
<1> QED
  BY <1>1, <1>2, <1>4, <1>5

(* Who is in a file stays there while the files are left alone.            *)
LEMMA SameFiles ==
    ASSUME UNCHANGED files
    PROVE  \A b, k : InFile(b, k)' <=> InFile(b, k)
  BY DEF InFile

(* The tracker before the first connection.                                *)
LEMMA FilesStart == FilesInit => FilesInv
<1> SUFFICES ASSUME FilesInit PROVE FilesInv
  OBVIOUS
<1>1. Ranges
  <2>1. files \in Seq(FileRecord) /\ Len(files) = 0
    BY EmptySeq DEF FilesInit
  <2>2. fileMap \in [Key -> Nat] /\ \A k \in Key : fileMap[k] <= Len(files)
    BY <2>1 DEF FilesInit
  <2>3. /\ alive \in SUBSET Addr /\ peer \in [Addr -> PeerRecord]
        /\ told \in [Addr -> SUBSET Key]
        /\ seeded \in SUBSET Key /\ gone \in SUBSET Key
        /\ failed \in SUBSET Addr /\ conflict \in SUBSET Key
    BY NewRecords DEF FilesInit
  <2>4. /\ line \in LineRecord /\ line.cmd = "" /\ line.todo = <<>>
        /\ fault = <<>>
    BY NewRecords DEF FilesInit
  <2>5. LineOK /\ FaultOK
    BY <2>4 DEF LineOK, FaultOK
  <2> QED
    BY <2>1, <2>2, <2>3, <2>5 DEF Ranges
<1>2. \A a \in Addr : ~peer[a].announced /\ told[a] = {}
  BY NewRecords DEF FilesInit
<1>3. MapInv /\ PeersInv
  BY <1>2 DEF FilesInit, MapInv, PeersInv
<1>4. PortInv
  BY <1>2, NewRecords DEF FilesInit, PortInv
<1> QED
  BY <1>1, <1>3, <1>4 DEF FilesInv
-----------------------------------------------------------------------------
(* A Peer is deleted at the end of its line or between two lines: what it  *)
(* told of goes to gone.                                                   *)
LEMMA DeleteStep ==
    ASSUME FilesInv, NEW a \in Addr, Delete(a), line'.cmd = "", line' \in LineRecord,
           line'.todo = <<>>, line.cmd # "" => line.by = a,
           UNCHANGED <<files, fileMap, fault, seeded, conflict>>
    PROVE  FilesInv'
<1>1. /\ alive' = alive \ {a} /\ peer' = [peer EXCEPT ![a] = NewPeer]
      /\ gone' = gone \cup told[a] /\ told' = [told EXCEPT ![a] = {}]
      /\ failed' = failed \ {a}
  BY DEF Delete
<1>2. NewPeer \in PeerRecord /\ ~NewPeer.announced
  BY NewRecords
<1>3. Ranges'
  <2>1. LineOK' /\ FaultOK'
    BY DEF FilesInv, Ranges, LineOK, FaultOK
  <2> QED
    BY <1>1, <1>2, <2>1 DEF FilesInv, Ranges
<1>4. MapInv'
  BY DEF FilesInv, MapInv
<1>5. /\ told' \in [Addr -> SUBSET Key] /\ told'[a] = {}
      /\ \A b \in Addr \ {a} : told'[b] = told[b] /\ peer'[b] = peer[b]
      /\ peer'[a] = NewPeer
  BY <1>1 DEF FilesInv, Ranges
<1>6. PeersInv'
  <2>1. \A b \in Addr : \A k \in told'[b] : fileMap[k] # 0 /\ InFile(b, k)
    BY <1>5 DEF FilesInv, PeersInv
  <2>3. \A b \in Addr : \A k \in told'[b] : InFile(b, k)'
    BY <2>1, SameFiles
  <2>2. ASSUME NEW i \in 1..Len(files), NEW b \in files[i].peers
        PROVE  \/ files[i].desc.hash \in gone'
               \/ b \in alive' /\ files[i].desc.hash \in told'[b]
    <3>1. \/ files[i].desc.hash \in gone
          \/ b \in alive /\ files[i].desc.hash \in told[b]
      BY DEF FilesInv, PeersInv
    <3>2. b \in alive => b \in Addr
      BY DEF FilesInv, Ranges
    <3> QED
      BY <1>1, <1>5, <3>1, <3>2
  <2> QED
    BY <2>1, <2>2, <2>3 DEF PeersInv
<1>7. PortInv'
  <2>1. /\ \A b \in Addr \ {a} : b \in failed => b \in failed'
        /\ ~peer'[a].announced /\ told'[a] = {}
        /\ \A b \in Addr \ {a} : told'[b] = told[b] /\ peer'[b] = peer[b]
    BY <1>1, <1>2, <1>5
  <2>2. line'.cmd = "" /\ (line.cmd # "" => line.by = a)
    OBVIOUS
  <2>3. PortInv
    BY DEF FilesInv
  <2>4. \A b \in Addr : peer'[b].announced => peer'[b].port = 1
    <3> TAKE b \in Addr
    <3>1. CASE b = a
      BY <2>1, <3>1
    <3>2. CASE b # a
      <4>1. peer'[b] = peer[b]
        BY <2>1, <3>2
      <4>2. peer[b].announced => peer[b].port = 1
        BY <2>3 DEF PortInv
      <4> QED
        BY <4>1, <4>2
    <3> QED
      BY <3>1, <3>2
  <2>5. \A b \in Addr : told'[b] # {} => peer'[b].port = 1 \/ b \in failed'
    <3> TAKE b \in Addr
    <3>1. CASE b = a
      BY <2>1, <3>1
    <3>2. CASE b # a
      <4>1. told[b] # {} => peer[b].port = 1 \/ b \in failed
        BY <2>2, <2>3, <3>2 DEF PortInv
      <4> QED
        BY <2>1, <3>2, <4>1
    <3> QED
      BY <3>1, <3>2
  <2> QED
    BY <2>2, <2>4, <2>5 DEF PortInv
<1> QED
  BY <1>3, <1>4, <1>6, <1>7 DEF FilesInv

(* A handler throws: the Peer loses its connection or counts an error.     *)
LEMMA ThrowStep ==
    ASSUME FilesInv, NEW a \in Addr, Throw(a), line.cmd # "" => line.by = a,
           UNCHANGED <<files, fileMap, fault, seeded, conflict>>
    PROVE  FilesInv'
<1>1. line' = NoLine /\ NoLine \in LineRecord /\ NoLine.cmd = "" /\ NoLine.todo = <<>>
  BY NewRecords DEF Throw
<1>2. CASE peer[a].errors = MAX_SEQ_ERROR_COUNT
  BY <1>1, <1>2, DeleteStep DEF Throw
<1>3. CASE peer[a].errors # MAX_SEQ_ERROR_COUNT
  <2>1. /\ peer' = [peer EXCEPT ![a].errors = @ + 1]
        /\ failed' = (IF line.cmd = "announce" THEN failed \cup {a} ELSE failed)
        /\ UNCHANGED <<alive, gone, told>>
    BY <1>3 DEF Throw
  <2>2. /\ peer[a] \in PeerRecord
        /\ peer[a].errors + 1 \in 0..MAX_SEQ_ERROR_COUNT
    <3>1. peer[a] \in PeerRecord
      BY DEF FilesInv, Ranges
    <3>2. peer[a].errors \in 0..MAX_SEQ_ERROR_COUNT /\ MAX_SEQ_ERROR_COUNT \in Nat
      BY <3>1, BoundAssumption DEF PeerRecord
    <3>3. peer[a].errors + 1 \in 0..MAX_SEQ_ERROR_COUNT
      BY <1>3, <3>2, OneMore
    <3> QED
      BY <3>1, <3>3
  <2>3. peer' \in [Addr -> PeerRecord]
    BY <2>1, <2>2 DEF FilesInv, Ranges, PeerRecord
  <2>4. \A b \in Addr : /\ peer'[b].port = peer[b].port
                        /\ peer'[b].announced = peer[b].announced
    BY <2>1 DEF FilesInv, Ranges, PeerRecord
  <2>8. LineOK' /\ FaultOK'
    BY <1>1 DEF FilesInv, Ranges, LineOK, FaultOK
  <2>5. Ranges'
    BY <2>1, <2>3, <2>8 DEF FilesInv, Ranges
  <2>6. MapInv' /\ PeersInv'
    BY <2>1, SameFiles DEF FilesInv, MapInv, PeersInv
  <2>7. PortInv'
    BY <1>1, <2>1, <2>4 DEF FilesInv, PortInv
  <2> QED
    BY <2>5, <2>6, <2>7 DEF FilesInv
<1> QED
  BY <1>2, <1>3

(* Steps that touch a Peer's record and the line only.                     *)
LEMMA PeerOnlyStep ==
    ASSUME FilesInv, UNCHANGED <<files, fileMap, told, seeded, gone, failed, conflict>>,
           alive \subseteq alive', alive' \subseteq Addr,
           peer' \in [Addr -> PeerRecord], line' \in LineRecord,
           line'.cmd # "" => line'.by \in alive',
           line'.cmd = "" => line'.todo = <<>>,
           FaultOK', PortInv'
    PROVE  FilesInv'
<1>1. Ranges'
  <2>1. LineOK'
    BY DEF LineOK
  <2> QED
    BY <2>1 DEF FilesInv, Ranges
<1>2. MapInv' /\ PeersInv'
  BY SameFiles DEF FilesInv, MapInv, PeersInv
<1> QED
  BY <1>1, <1>2 DEF FilesInv
-----------------------------------------------------------------------------
(* A seed entry: its file is found or made, and the peer enters it.        *)
LEMMA SeedEntryStep ==
    ASSUME FilesInv, SeedEntry
    PROVE  FilesInv'
<1>0. /\ line.todo # <<>> /\ line.todo \in Seq(Desc \cup {BadNumber})
      /\ line' = [line EXCEPT !.todo = Tail(@)]
  BY DEF SeedEntry, FilesInv, Ranges, LineOK, LineRecord
<1>1. /\ line.cmd # "" /\ line.by \in Addr /\ line.by \in alive
      /\ UNCHANGED <<alive, peer, fault, gone, failed>>
  BY <1>0 DEF SeedEntry, FilesInv, Ranges, LineOK, LineRecord
<1>2. /\ line' \in LineRecord /\ line'.cmd = line.cmd /\ line'.by = line.by
      /\ line'.got = line.got
      /\ Head(line.todo) \in Desc \cup {BadNumber}
  <2>1. /\ Tail(line.todo) \in Seq(Desc \cup {BadNumber})
        /\ Head(line.todo) \in Desc \cup {BadNumber}
    BY <1>0, HeadTailProperties
  <2> QED
    BY <1>0, <2>1 DEF FilesInv, Ranges, LineOK, LineRecord
<1>5. LineOK' /\ FaultOK'
  BY <1>1, <1>2 DEF FilesInv, Ranges, LineOK, FaultOK
<1> DEFINE d == Head(line.todo)
           a == line.by
<1>3. CASE d = BadNumber
  <2>1. UNCHANGED <<files, fileMap, told, seeded, conflict>>
    BY <1>3 DEF SeedEntry
  <2>2. PortInv'
    BY <1>1, <1>2, <2>1 DEF FilesInv, PortInv
  <2> QED
    <3>1. line'.cmd # "" /\ line'.by \in alive' /\ alive' \subseteq Addr
      BY <1>1, <1>2 DEF FilesInv, Ranges
    <3>2. peer' \in [Addr -> PeerRecord]
      BY <1>1 DEF FilesInv, Ranges
    <3> QED
      BY <1>1, <1>2, <1>5, <2>1, <2>2, <3>1, <3>2, PeerOnlyStep
<1>4. CASE d # BadNumber
  <2>1. /\ d \in Desc /\ d.hash \in Key
        /\ AddPeer(a, d)
        /\ told' = [told EXCEPT ![a] = @ \cup {d.hash}]
        /\ seeded' = seeded \cup {d.hash}
        /\ conflict' = conflict \cup {k \in Key : k = d.hash /\ OtherSize(d)}
    BY <1>2, <1>4, DescAssumption DEF SeedEntry
  <2> HIDE DEF d
  <2>2. /\ files \in Seq(FileRecord) /\ Len(files) \in Nat
        /\ fileMap \in [Key -> Nat] /\ \A k \in Key : fileMap[k] <= Len(files)
        /\ \A i \in 1..Len(files) :
              /\ files[i] \in FileRecord /\ files[i].desc.hash \in Key
              /\ files[i].peers \subseteq Addr
    BY FileTypes DEF FilesInv
  <2>3. told' \in [Addr -> SUBSET Key] /\ told'[a] = told[a] \cup {d.hash}
        /\ \A b \in Addr : told[b] \subseteq told'[b] /\ (b # a => told'[b] = told[b])
    BY <1>1, <2>1 DEF FilesInv, Ranges
  <2>4. PortInv'
    <3>1. \A b \in Addr \ {a} : told'[b] = told[b]
      BY <2>3
    <3>2. \/ line.cmd = "announce"
          \/ line.cmd = "update" /\ peer[a].port = 1
      BY <1>1 DEF FilesInv, Ranges, LineOK, LineRecord, PortInv
    <3> QED
      BY <1>1, <1>2, <3>1, <3>2 DEF FilesInv, PortInv
  <2>5. CASE Matches(d)
    <3> DEFINE n == fileMap[d.hash]
    <3>1. n \in 1..Len(files) /\ files[n].desc.hash = d.hash
      BY <2>1, <2>2, <2>5 DEF Matches, FilesInv, MapInv
    <3>2. /\ files' = [files EXCEPT ![n].peers = @ \cup {a}]
          /\ fileMap' = fileMap
      BY <2>1, <2>2, <2>5, <3>1 DEF AddPeer, FileOf
    <3>0. [files[n] EXCEPT !.peers = @ \cup {a}] \in FileRecord
      BY <1>1, <2>2, <3>1 DEF FileRecord
    <3>3. /\ files' \in Seq(FileRecord) /\ Len(files') = Len(files)
          /\ \A i \in 1..Len(files) : files'[i].desc = files[i].desc
          /\ \A i \in 1..Len(files) :
                files'[i].peers = IF i = n THEN files[i].peers \cup {a}
                                  ELSE files[i].peers
      <4> DEFINE g == [files[n] EXCEPT !.peers = @ \cup {a}]
      <4>1. files' = [files EXCEPT ![n] = g]
        BY <3>2
      <4>2. g.desc = files[n].desc /\ g.peers = files[n].peers \cup {a}
        BY <2>2, <3>1 DEF FileRecord
      <4> HIDE DEF g, n
      <4>3. /\ [files EXCEPT ![n] = g] \in Seq(FileRecord)
            /\ Len([files EXCEPT ![n] = g]) = Len(files)
            /\ \A i \in 1..Len(files) :
                  [files EXCEPT ![n] = g][i] = IF i = n THEN g ELSE files[i]
        BY <2>2, <3>0, <3>1, ExceptSeq DEF g
      <4>4. \A i \in 1..Len(files) : files'[i] = IF i = n THEN g ELSE files[i]
        BY <4>1, <4>3
      <4>5. files' \in Seq(FileRecord) /\ Len(files') = Len(files)
        BY <4>1, <4>3
      <4> QED
        BY <4>2, <4>4, <4>5
    <3>4. Ranges'
      <4>1. fileMap' \in [Key -> Nat] /\ \A k \in Key : fileMap'[k] <= Len(files')
        BY <2>2, <3>2, <3>3
      <4>2. seeded' \in SUBSET Key /\ conflict' \in SUBSET Key
        BY <2>1 DEF FilesInv, Ranges
      <4> QED
        BY <1>1, <1>5, <2>3, <3>3, <4>1, <4>2 DEF FilesInv, Ranges
    <3>5. MapInv'
      <4>1. /\ conflict \subseteq conflict' /\ seeded' = seeded \cup {d.hash}
            /\ fileMap[d.hash] # 0
        BY <2>1, <2>2, <3>1
      <4>2. \A k \in Key : fileMap[k] # 0 => fileMap[k] \in 1..Len(files)
        BY <2>2
      <4> HIDE DEF n
      <4>3. \A k \in Key : fileMap'[k] # 0 => files'[fileMap'[k]].desc.hash = k
        BY <3>2, <3>3, <4>2 DEF FilesInv, MapInv
      <4>4. \A i \in 1..Len(files') :
               /\ fileMap'[files'[i].desc.hash] # 0
               /\ \/ files'[i].desc.hash \in conflict'
                  \/ i = fileMap'[files'[i].desc.hash]
               /\ fileMap'[files'[i].desc.hash] <= i
        BY <3>2, <3>3, <4>1 DEF FilesInv, MapInv
      <4>5. \A k \in seeded' : fileMap'[k] # 0
        BY <3>2, <4>1 DEF FilesInv, MapInv
      <4> QED
        BY <4>3, <4>4, <4>5 DEF MapInv
    <3>6. PeersInv'
      <4>1. ASSUME NEW b \in Addr, NEW k \in told'[b]
            PROVE  fileMap'[k] # 0 /\ InFile(b, k)'
        <5>1. CASE k \in told[b]
          <6>1. fileMap[k] # 0 /\ k \in Key /\ InFile(b, k)
            BY <5>1 DEF FilesInv, PeersInv, Ranges
          <6>2. fileMap[k] \in 1..Len(files)
            BY <2>2, <6>1
          <6> QED
            BY <2>1, <3>2, <3>3, <6>1, <6>2 DEF InFile
        <5>2. CASE k \notin told[b]
          <6>1. b = a /\ k = d.hash
            BY <2>3, <5>2
          <6> QED
            BY <3>1, <3>2, <3>3, <6>1 DEF InFile
        <5> QED
          BY <5>1, <5>2
      <4>2. ASSUME NEW i \in 1..Len(files), NEW b \in files'[i].peers
            PROVE  \/ files'[i].desc.hash \in gone'
                   \/ b \in alive' /\ files'[i].desc.hash \in told'[b]
        <5>1. CASE b \in files[i].peers
          <6>1. \/ files[i].desc.hash \in gone
                \/ b \in alive /\ files[i].desc.hash \in told[b]
            BY <5>1 DEF FilesInv, PeersInv
          <6>2. b \in alive => b \in Addr
            BY DEF FilesInv, Ranges
          <6> QED
            BY <1>1, <2>3, <3>3, <6>1, <6>2
        <5>2. CASE b \notin files[i].peers
          <6>1. i = n /\ b = a
            BY <3>3, <5>2
          <6> QED
            BY <1>1, <2>3, <3>1, <3>3, <6>1
        <5> QED
          BY <5>1, <5>2
      <4> QED
        BY <3>3, <4>1, <4>2 DEF PeersInv
    <3> QED
      BY <2>4, <3>4, <3>5, <3>6 DEF FilesInv
  <2>6. CASE ~Matches(d)
    <3> DEFINE n == Len(files) + 1
    <3>1. /\ files' = Append(files, [desc |-> d, peers |-> {a}])
          /\ fileMap' = [fileMap EXCEPT ![d.hash] = IF @ = 0 THEN n ELSE @]
      BY <2>1, <2>6 DEF AddPeer, FileOf
    <3>2. [desc |-> d, peers |-> {a}] \in FileRecord
      BY <1>1, <2>1 DEF FileRecord
    <3>3. /\ files' \in Seq(FileRecord) /\ Len(files') = n
          /\ \A i \in 1..Len(files) : files'[i] = files[i]
          /\ files'[n] = [desc |-> d, peers |-> {a}]
          /\ \A i \in 1..n : i \in 1..Len(files) \/ i = n
      BY <2>2, <3>1, <3>2
    <3>4. /\ fileMap' \in [Key -> Nat]
          /\ \A k \in Key : fileMap'[k] =
                IF k = d.hash /\ fileMap[k] = 0 THEN n ELSE fileMap[k]
      BY <2>1, <2>2, <3>1
    <3>5. fileMap[d.hash] # 0 => d.hash \in conflict'
      <4>1. SUFFICES ASSUME fileMap[d.hash] # 0 PROVE OtherSize(d)
        BY <2>1
      <4>2. fileMap[d.hash] \in 1..Len(files) /\ files[fileMap[d.hash]].desc.hash = d.hash
        BY <2>1, <2>2, <4>1 DEF FilesInv, MapInv
      <4> QED
        BY <2>6, <4>2 DEF Matches, SameFile, OtherSize
    <3>6. Ranges'
      <4>1. fileMap' \in [Key -> Nat] /\ \A k \in Key : fileMap'[k] <= Len(files')
        BY <2>2, <3>3, <3>4
      <4>2. seeded' \in SUBSET Key /\ conflict' \in SUBSET Key
        BY <2>1 DEF FilesInv, Ranges
      <4> QED
        BY <1>1, <1>5, <2>3, <3>3, <4>1, <4>2 DEF FilesInv, Ranges
    <3>7. MapInv'
      <4>1. \A k \in Key : fileMap'[k] # 0 => files'[fileMap'[k]].desc.hash = k
        BY <2>1, <2>2, <3>3, <3>4 DEF FilesInv, MapInv
      <4>2. ASSUME NEW i \in 1..n
            PROVE  /\ fileMap'[files'[i].desc.hash] # 0
                   /\ \/ files'[i].desc.hash \in conflict'
                      \/ i = fileMap'[files'[i].desc.hash]
                   /\ fileMap'[files'[i].desc.hash] <= i
        <5>1. CASE i = n
          BY <2>1, <2>2, <3>3, <3>4, <3>5, <5>1
        <5>2. CASE i \in 1..Len(files)
          BY <2>1, <2>2, <3>3, <3>4, <3>5, <5>2 DEF FilesInv, MapInv
        <5> QED
          BY <3>3, <5>1, <5>2
      <4>3. ASSUME NEW k \in seeded' PROVE fileMap'[k] # 0
        <5>1. k \in Key /\ (k = d.hash \/ fileMap[k] # 0)
          BY <2>1 DEF FilesInv, MapInv, Ranges
        <5>2. Len(files) + 1 # 0
          BY <2>2
        <5> QED
          BY <3>4, <5>1, <5>2
      <4> QED
        BY <3>3, <4>1, <4>2, <4>3 DEF MapInv
    <3>8. PeersInv'
      <4>1. ASSUME NEW b \in Addr, NEW k \in told'[b]
            PROVE  fileMap'[k] # 0 /\ InFile(b, k)'
        <5>1. CASE k \in told[b]
          <6>1. fileMap[k] # 0 /\ k \in Key /\ InFile(b, k)
            BY <5>1 DEF FilesInv, PeersInv, Ranges
          <6>2. fileMap[k] \in 1..Len(files)
            BY <2>2, <6>1
          <6> QED
            BY <2>1, <3>3, <3>4, <6>1, <6>2 DEF InFile
        <5>2. CASE k \notin told[b]
          <6>1. b = a /\ k = d.hash
            BY <2>3, <5>2
          <6>2. n \in 1..Len(files') /\ n # 0
            BY <2>2, <3>3
          <6>3. files'[n].desc.hash = k /\ b \in files'[n].peers
            BY <3>3, <6>1
          <6>4. fileMap'[k] # 0
            BY <2>1, <2>2, <3>4, <6>1, <6>2
          <6> HIDE DEF n
          <6> QED
            BY <2>2, <3>3, <6>2, <6>3, <6>4 DEF InFile
        <5> QED
          BY <5>1, <5>2
      <4>2. ASSUME NEW i \in 1..n, NEW b \in files'[i].peers
            PROVE  \/ files'[i].desc.hash \in gone'
                   \/ b \in alive' /\ files'[i].desc.hash \in told'[b]
        <5>1. CASE i \in 1..Len(files)
          <6>1. \/ files[i].desc.hash \in gone
                \/ b \in alive /\ files[i].desc.hash \in told[b]
            BY <3>3, <5>1 DEF FilesInv, PeersInv
          <6>2. b \in alive => b \in Addr
            BY DEF FilesInv, Ranges
          <6> QED
            BY <1>1, <2>3, <3>3, <5>1, <6>1, <6>2
        <5>2. CASE i = n
          <6>1. files'[i].desc.hash = d.hash /\ b = a
            BY <3>3, <5>2
          <6> QED
            BY <1>1, <2>3, <6>1
        <5> QED
          BY <3>3, <5>1, <5>2
      <4> QED
        BY <3>3, <4>1, <4>2 DEF PeersInv
    <3> QED
      BY <2>4, <3>6, <3>7, <3>8 DEF FilesInv
  <2> QED
    BY <2>5, <2>6
<1> QED
  BY <1>3, <1>4

LEMMA KeywordCount ==
    ASSUME NEW n \in 0..3, NEW c \in 0..3, n < c
    PROVE  n + 1 \in 0..3
  OBVIOUS

(* The line after one more keyword.                                        *)
LEMMA DidLine ==
    ASSUME FilesInv, line.cmd # "", line.k < Cardinality(Words(line.cmd)),
           NEW w \in {"listen", "seed", "leech"}
    PROVE  /\ line \in LineRecord /\ line.cmd \in {"announce", "update"}
           /\ line.by \in Addr /\ line.by \in alive
           /\ Did(w) \in LineRecord /\ Did(w).cmd = line.cmd
           /\ Did(w).by = line.by /\ Did(w).got = line.got \cup {w}
           /\ \A l \in Seq(Desc \cup {BadNumber}) :
                 LET r == [Did(w) EXCEPT !.todo = l] IN
                   /\ r \in LineRecord /\ r.cmd = line.cmd
                   /\ r.by = line.by /\ r.got = line.got \cup {w}
<1>1. line \in LineRecord /\ line.by \in alive /\ alive \subseteq Addr
  BY DEF FilesInv, Ranges, LineOK
<1>2. line.k \in 0..3 /\ line.cmd \in {"announce", "update"}
  BY <1>1 DEF LineRecord
<1>3. Cardinality(Words(line.cmd)) \in 0..3
  BY CountRange
<1>4. line.k + 1 \in 0..3
  BY <1>2, <1>3, KeywordCount
<1> QED
  BY <1>1, <1>2, <1>4 DEF Did, LineRecord

(* A list of hashes: the peer enters the file of every known one.          *)
LEMMA LeechStep ==
    ASSUME FilesInv, NEW w \in {"seed", "leech"}, NEW ks \in SUBSET Key,
           Leech(w, ks)
    PROVE  FilesInv'
<1> DEFINE known == {k \in ks : fileMap[k] # 0}
           a == line.by
<1>1. line' = Did(w) /\ line.cmd # "" /\ line.k < Cardinality(Words(line.cmd))
  BY DEF Leech, Wants, InLine
<1>2. /\ a \in Addr /\ a \in alive /\ line \in LineRecord
      /\ line.cmd \in {"announce", "update"}
  BY <1>1 DEF FilesInv, Ranges, LineOK, LineRecord
<1>3. /\ line' \in LineRecord /\ line'.cmd = line.cmd /\ line'.by = a
      /\ w # "listen" /\ ("listen" \in line'.got => "listen" \in line.got)
  BY <1>1, DidLine
<1>4. /\ files' = [i \in 1..Len(files) |->
                     IF \E k \in known : fileMap[k] = i
                     THEN [files[i] EXCEPT !.peers = @ \cup {a}] ELSE files[i]]
      /\ told' = [told EXCEPT ![a] = @ \cup known]
      /\ UNCHANGED <<alive, peer, fileMap, fault, seeded, gone, failed, conflict>>
  BY DEF Leech
<1>5. LineOK' /\ FaultOK'
  BY <1>1, <1>2, <1>3, <1>4 DEF FilesInv, Ranges, LineOK, FaultOK
<1>6. /\ Len(files) \in Nat
      /\ fileMap \in [Key -> Nat] /\ \A k \in Key : fileMap[k] <= Len(files)
      /\ \A i \in 1..Len(files) :
            /\ files[i] \in FileRecord /\ files[i].desc.hash \in Key
            /\ files[i].peers \subseteq Addr
  BY FileTypes DEF FilesInv
<1>7. \A i \in 1..Len(files) :
         [files[i] EXCEPT !.peers = @ \cup {a}] \in FileRecord
  BY <1>2, <1>6 DEF FileRecord
<1>8. /\ files' \in Seq(FileRecord) /\ Len(files') = Len(files)
      /\ \A i \in 1..Len(files) :
            /\ files'[i].desc = files[i].desc
            /\ files'[i].peers = IF \E k \in known : fileMap[k] = i
                                 THEN files[i].peers \cup {a} ELSE files[i].peers
  <2>1. files' \in [1..Len(files) -> FileRecord]
    BY <1>4, <1>6, <1>7
  <2>2. files' \in Seq(FileRecord) /\ Len(files') = Len(files)
    BY <1>6, <2>1
  <2>3. ASSUME NEW i \in 1..Len(files)
        PROVE  /\ files'[i].desc = files[i].desc
               /\ files'[i].peers = IF \E k \in known : fileMap[k] = i
                                    THEN files[i].peers \cup {a} ELSE files[i].peers
    <3>1. files'[i] = IF \E k \in known : fileMap[k] = i
                      THEN [files[i] EXCEPT !.peers = @ \cup {a}] ELSE files[i]
      BY <1>4
    <3>2. /\ [files[i] EXCEPT !.peers = @ \cup {a}].desc = files[i].desc
          /\ [files[i] EXCEPT !.peers = @ \cup {a}].peers = files[i].peers \cup {a}
      BY <1>6 DEF FileRecord
    <3> QED
      BY <3>1, <3>2
  <2> QED
    BY <2>2, <2>3
<1>9. /\ told' \in [Addr -> SUBSET Key] /\ told'[a] = told[a] \cup known
      /\ \A b \in Addr : told[b] \subseteq told'[b] /\ (b # a => told'[b] = told[b])
  BY <1>2, <1>4 DEF FilesInv, Ranges
<1>10. Ranges'
  BY <1>4, <1>5, <1>6, <1>8, <1>9 DEF FilesInv, Ranges
<1>11. MapInv'
  BY <1>4, <1>6, <1>8 DEF FilesInv, MapInv
<1>12. PeersInv'
  <2>1. ASSUME NEW b \in Addr, NEW k \in told'[b]
        PROVE  fileMap[k] # 0 /\ InFile(b, k)'
    <3>1. CASE k \in told[b]
      <4>1. fileMap[k] # 0 /\ k \in Key /\ InFile(b, k)
        BY <3>1 DEF FilesInv, PeersInv, Ranges
      <4>2. fileMap[k] \in 1..Len(files)
        BY <1>6, <4>1
      <4> QED
        BY <1>8, <4>1, <4>2 DEF InFile
    <3>2. CASE k \notin told[b]
      <4>1. b = a /\ k \in known /\ k \in Key /\ fileMap[k] # 0
        BY <1>9, <3>2
      <4>2. fileMap[k] \in 1..Len(files)
        BY <1>6, <4>1
      <4>3. files'[fileMap[k]].peers = files[fileMap[k]].peers \cup {a}
        BY <1>8, <4>1, <4>2
      <4>4. files'[fileMap[k]].desc.hash = k
        BY <1>8, <4>1, <4>2 DEF FilesInv, MapInv
      <4> QED
        BY <1>8, <4>1, <4>2, <4>3, <4>4 DEF InFile
    <3> QED
      BY <3>1, <3>2
  <2>2. ASSUME NEW i \in 1..Len(files), NEW b \in files'[i].peers
        PROVE  \/ files[i].desc.hash \in gone
               \/ b \in alive /\ files[i].desc.hash \in told'[b]
    <3>1. CASE b \in files[i].peers
      <4>1. \/ files[i].desc.hash \in gone
            \/ b \in alive /\ files[i].desc.hash \in told[b]
        BY <3>1 DEF FilesInv, PeersInv
      <4>2. b \in Addr
        BY <1>6, <3>1
      <4> QED
        BY <1>9, <4>1, <4>2
    <3>2. CASE b \notin files[i].peers
      <4>1. b = a /\ \E k \in known : fileMap[k] = i
        <5>1. files'[i].peers = IF \E k \in known : fileMap[k] = i
                                THEN files[i].peers \cup {a} ELSE files[i].peers
          BY <1>8
        <5> HIDE DEF known, a
        <5> QED
          BY <3>2, <5>1
      <4>2. PICK k \in known : fileMap[k] = i
        BY <4>1
      <4>3. files[i].desc.hash = k
        BY <4>2 DEF FilesInv, MapInv
      <4> QED
        BY <1>2, <1>9, <4>1, <4>2, <4>3
    <3> QED
      BY <3>1, <3>2
  <2>3. \A i \in 1..Len(files) : files'[i].desc = files[i].desc
    BY <1>8
  <2>4. UNCHANGED <<alive, fileMap, gone, conflict>> /\ Len(files') = Len(files)
    BY <1>4, <1>8
  <2> QED
    BY <2>1, <2>2, <2>3, <2>4 DEF PeersInv
<1>13. PortInv'
  <2>1. /\ line.cmd = "update" => peer[a].announced /\ peer[a].port = 1
        /\ line.cmd = "announce" \/ line.cmd = "update"
    BY <1>2 DEF FilesInv, PortInv
  <2>2. \A b \in Addr \ {a} : told'[b] = told[b]
    BY <1>9
  <2> QED
    BY <1>3, <1>4, <2>1, <2>2 DEF FilesInv, PortInv
<1> QED
  BY <1>10, <1>11, <1>12, <1>13 DEF FilesInv

(* The keyword of the port, and the head of a seed list.                   *)
LEMMA KeywordStep ==
    ASSUME FilesInv, Listen \/ \E l \in SeedList : Seed(l)
    PROVE  FilesInv'
<1> DEFINE a == line.by
<1>1. /\ line.cmd # "" /\ line.k < Cardinality(Words(line.cmd))
      /\ UNCHANGED <<alive, files, fileMap, fault, told, seeded, gone, failed, conflict>>
  BY DEF Listen, Seed, Wants, InLine, history
<1>2. /\ a \in Addr /\ a \in alive /\ line \in LineRecord /\ alive \subseteq Addr
      /\ line.cmd \in {"announce", "update"}
  BY <1>1 DEF FilesInv, Ranges, LineOK, LineRecord
<1>3. peer \in [Addr -> PeerRecord] /\ FaultOK'
  BY <1>1 DEF FilesInv, Ranges, FaultOK
<1>4. CASE Listen
  <2>1. line' = Did("listen") /\ peer' = [peer EXCEPT ![a].port = 1]
    BY <1>4 DEF Listen
  <2>2. line' \in LineRecord /\ line'.cmd = line.cmd /\ line'.by = a
    BY <1>1, <2>1, DidLine
  <2>3. /\ peer' \in [Addr -> PeerRecord] /\ peer'[a].port = 1
        /\ \A b \in Addr : /\ peer'[b].announced = peer[b].announced
                           /\ b # a => peer'[b] = peer[b]
    BY <1>2, <1>3, <2>1 DEF PeerRecord
  <2>4. PortInv'
    BY <1>1, <1>2, <2>2, <2>3 DEF FilesInv, PortInv
  <2> QED
    BY <1>1, <1>2, <1>3, <2>2, <2>3, <2>4, PeerOnlyStep
<1>5. CASE \E l \in SeedList : Seed(l)
  <2>1. PICK l \in SeedList : Seed(l)
    BY <1>5
  <2>2. /\ line' = [Did("seed") EXCEPT !.todo = l] /\ peer' = peer
        /\ l # Ragged
    BY <2>1 DEF Seed
  <2>3. PICK n \in 0..MaxSeed : l \in [1..n -> Desc \cup {BadNumber}]
    <3>1. l \in UNION {[1..n -> Desc \cup {BadNumber}] : n \in 0..MaxSeed}
      <4> DEFINE U == UNION {[1..n -> Desc \cup {BadNumber}] : n \in 0..MaxSeed}
      <4>1. SeedList = U \cup {Ragged}
        BY DEF SeedList
      <4> HIDE DEF U
      <4>2. l \in U
        BY <2>2, <4>1
      <4> QED
        BY <4>2 DEF U
    <3> QED
      BY <3>1
  <2>4. l \in Seq(Desc \cup {BadNumber})
    BY <2>3, BoundAssumption
  <2>5. /\ line' \in LineRecord /\ line'.cmd = line.cmd /\ line'.by = a
        /\ line'.got = line.got \cup {"seed"}
    BY <1>1, <2>2, <2>4, DidLine
  <2>6. PortInv'
    BY <1>1, <1>2, <2>2, <2>5 DEF FilesInv, PortInv
  <2>7. /\ line'.cmd # "" /\ line'.by \in alive' /\ alive' \subseteq Addr
        /\ peer' \in [Addr -> PeerRecord] /\ alive \subseteq alive'
    <3>1. alive' = alive /\ peer' = peer
      BY <1>1, <2>2
    <3>2. line'.cmd # "" /\ line'.by = a
      BY <1>2, <2>5
    <3> QED
      BY <1>2, <1>3, <3>1, <3>2
  <2> QED
    BY <1>1, <1>3, <2>5, <2>6, <2>7, PeerOnlyStep
<1> QED
  BY <1>4, <1>5

(* The rest of the line: it begins, and it is accepted.                    *)
LEMMA BeginStep ==
    ASSUME FilesInv, NEW a \in Addr, NEW cmd \in {"announce", "update"},
           Begin(a, cmd)
    PROVE  FilesInv'
<1>1. /\ a \in alive /\ line.cmd = "" /\ peer[a].announced = (cmd = "update")
      /\ line' = [NoLine EXCEPT !.cmd = cmd, !.by = a]
      /\ UNCHANGED <<alive, peer, files, fileMap, fault, told, seeded, gone,
                     failed, conflict>>
  BY DEF Begin, Send, Idle, history
<1>2. /\ line' \in LineRecord /\ line'.cmd = cmd /\ line'.by = a
      /\ line'.got = {}
  <2>1. /\ NoLine \in LineRecord /\ cmd \in {"", "announce", "update"}
        /\ a \in Addr \cup {NoPeer}
    BY NewRecords
  <2>2. NoLine.got = {}
    BY DEF NoLine
  <2> QED
    BY <1>1, <2>1, <2>2 DEF LineRecord
<1>3. cmd = "update" => peer[a].announced
  BY <1>1
<1>4. PortInv'
  BY <1>1, <1>2, <1>3 DEF FilesInv, PortInv
<1>5. alive \subseteq Addr /\ peer \in [Addr -> PeerRecord] /\ FaultOK'
  BY <1>1 DEF FilesInv, Ranges, FaultOK
<1>6. /\ line'.cmd # "" /\ line'.by \in alive' /\ alive' \subseteq Addr
      /\ peer' \in [Addr -> PeerRecord] /\ alive \subseteq alive'
      /\ UNCHANGED <<files, fileMap, told, seeded, gone, failed, conflict>>
  <2>1. /\ alive' = alive /\ peer' = peer /\ a \in alive
        /\ UNCHANGED <<files, fileMap, told, seeded, gone, failed, conflict>>
    BY <1>1
  <2>2. line'.cmd # "" /\ line'.by = a
    BY <1>2
  <2> QED
    BY <1>5, <2>1, <2>2
<1> QED
  BY <1>2, <1>4, <1>5, <1>6, PeerOnlyStep

(* A handler that returns clears the errors.                               *)
LEMMA ClearErrors ==
    ASSUME NEW p \in PeerRecord
    PROVE  /\ [p EXCEPT !.errors = 0] \in PeerRecord
           /\ [p EXCEPT !.errors = 0].port = p.port
           /\ [p EXCEPT !.errors = 0].announced = p.announced
           /\ [p EXCEPT !.announced = TRUE, !.errors = 0] \in PeerRecord
           /\ [p EXCEPT !.announced = TRUE, !.errors = 0].port = p.port
<1>1. 0 \in 0..MAX_SEQ_ERROR_COUNT
  BY BoundAssumption
<1> QED
  BY <1>1 DEF PeerRecord

LEMMA AcceptStep ==
    ASSUME FilesInv, Accept
    PROVE  FilesInv'
<1> DEFINE a == line.by
<1>1. /\ line.cmd # "" /\ line.got = Words(line.cmd)
      /\ peer' = [peer EXCEPT ![a].announced = TRUE, ![a].errors = 0]
      /\ line' = NoLine
      /\ UNCHANGED <<alive, files, fileMap, fault, told, seeded, gone, failed, conflict>>
  BY DEF Accept, InLine, Complete, history
<1>2. /\ a \in Addr /\ line.cmd \in {"announce", "update"}
      /\ alive \subseteq Addr /\ peer \in [Addr -> PeerRecord] /\ FaultOK'
  BY <1>1 DEF FilesInv, Ranges, LineOK, LineRecord, FaultOK
<1>3. peer[a].port = 1
  <2>1. line.cmd = "announce" => "listen" \in line.got
    BY <1>1 DEF Words
  <2> QED
    BY <1>2, <2>1 DEF FilesInv, PortInv
<1>4. /\ peer' \in [Addr -> PeerRecord]
      /\ \A b \in Addr : /\ peer'[b].port = peer[b].port
                         /\ b # a => peer'[b] = peer[b]
  <2> DEFINE p == [peer[a] EXCEPT !.announced = TRUE, !.errors = 0]
  <2>1. peer' = [peer EXCEPT ![a] = p]
    BY <1>1
  <2>2. p \in PeerRecord /\ p.port = peer[a].port
    BY <1>2, ClearErrors
  <2> HIDE DEF p, a
  <2> QED
    BY <1>2, <2>1, <2>2
<1>5. PortInv'
  <2>1. \A b \in Addr : peer'[b].announced => peer'[b].port = 1
    BY <1>2, <1>3, <1>4 DEF FilesInv, PortInv
  <2>2. \A b \in Addr : told'[b] # {} => peer'[b].port = 1 \/ b \in failed'
    BY <1>1, <1>2, <1>3, <1>4 DEF FilesInv, PortInv
  <2> QED
    BY <1>1, <2>1, <2>2, NewRecords DEF PortInv
<1> QED
  BY <1>1, <1>2, <1>4, <1>5, NewRecords, PeerOnlyStep

(* A new connection, and the requests that only answer.                    *)
LEMMA AnswerStep ==
    ASSUME FilesInv, NEW a \in Addr,
           \/ Connect(a) \/ Look(a) \/ \E k \in Key : Getfile(a, k)
    PROVE  FilesInv'
<1>1. /\ line.cmd = "" /\ line' = line /\ line \in LineRecord /\ line.todo = <<>>
      /\ UNCHANGED <<files, fileMap, told, seeded, gone, failed, conflict>>
      /\ alive \subseteq alive' /\ alive' \subseteq Addr
      /\ peer \in [Addr -> PeerRecord]
      /\ peer' = peer \/ peer' = [peer EXCEPT ![a].errors = 0]
  BY DEF Connect, Look, Getfile, Send, Idle, history, FilesInv, Ranges, LineOK
<1>2. FaultOK'
  <2>1. CASE Connect(a) \/ Look(a)
    BY <2>1 DEF Connect, Look, FilesInv, Ranges, FaultOK
  <2>2. CASE \E k \in Key : Getfile(a, k)
    <3>1. PICK k \in Key : fault' = Outcome(a, k)
      BY <2>2 DEF Getfile
    <3>2. <<"null file", k>> \in {"null file", "freed peer"} \X Key
      OBVIOUS
    <3>3. <<"freed peer", k>> \in {"null file", "freed peer"} \X Key
      OBVIOUS
    <3>4. fault' \in {<<>>, <<"null file", k>>, <<"freed peer", k>>}
      BY <3>1 DEF Outcome
    <3> QED
      BY <3>2, <3>3, <3>4 DEF FaultOK
  <2> QED
    BY <2>1, <2>2
<1>3. /\ peer' \in [Addr -> PeerRecord]
      /\ \A b \in Addr : /\ peer'[b].port = peer[b].port
                         /\ peer'[b].announced = peer[b].announced
  <2>1. CASE peer' = peer
    BY <1>1, <2>1
  <2>2. CASE peer' = [peer EXCEPT ![a].errors = 0]
    <3> DEFINE p == [peer[a] EXCEPT !.errors = 0]
    <3>1. peer' = [peer EXCEPT ![a] = p]
      BY <2>2
    <3>2. /\ p \in PeerRecord /\ p.port = peer[a].port
          /\ p.announced = peer[a].announced
      BY <1>1, ClearErrors
    <3> HIDE DEF p
    <3> QED
      BY <1>1, <3>1, <3>2
  <2> QED
    BY <1>1, <2>1, <2>2
<1>4. PortInv'
  BY <1>1, <1>3 DEF FilesInv, PortInv
<1> QED
  BY <1>1, <1>2, <1>3, <1>4, PeerOnlyStep
-----------------------------------------------------------------------------
(* Every step keeps the invariant.                                         *)
LEMMA FilesStep ==
    ASSUME FilesInv, FilesNext
    PROVE  FilesInv'
<1>1. CASE \E a \in Addr : Connect(a) \/ Look(a) \/ \E k \in Key : Getfile(a, k)
  BY <1>1, AnswerStep
<1>2. CASE \E a \in Addr : Disconnect(a)
  <2>1. PICK a \in Addr : Disconnect(a)
    BY <1>2
  <2>2. line' = line /\ line.cmd = "" /\ line \in LineRecord /\ line.todo = <<>>
    BY <2>1 DEF Disconnect, Idle, FilesInv, Ranges, LineOK
  <2> QED
    BY <2>1, <2>2, DeleteStep DEF Disconnect
<1>3. CASE \E a \in Addr : Refused(a)
  BY <1>3, ThrowStep DEF Refused, Send, Idle
<1>4. CASE \E a \in Addr, cmd \in {"announce", "update"} : Begin(a, cmd)
  BY <1>4, BeginStep
<1>5. CASE Abort
  <2>1. line.cmd # "" /\ line.by \in Addr
    BY <1>5 DEF Abort, InLine, FilesInv, Ranges, LineOK
  <2> QED
    BY <1>5, <2>1, ThrowStep DEF Abort
<1>6. CASE \E w \in {"seed", "leech"}, ks \in SUBSET Key : Leech(w, ks)
  BY <1>6, LeechStep
<1> QED
  BY <1>1, <1>2, <1>3, <1>4, <1>5, <1>6, SeedEntryStep, KeywordStep, AcceptStep
  DEF FilesNext

(* What holds of the files and peers whatever lines are read.              *)
LEMMA FilesInvariant == FilesSpec => []FilesInv
<1>1. FilesInv /\ UNCHANGED filesVars => FilesInv'
  BY SameFiles DEF FilesInv, Ranges, LineOK, FaultOK, MapInv, PeersInv,
                   PortInv, filesVars
<1> QED
  BY <1>1, FilesStart, FilesStep, PTL DEF FilesSpec

(* Every variable keeps its range.                                         *)
THEOREM FilesTypes == FilesSpec => []FilesTypeOK
<1>1. FilesInv => FilesTypeOK
  <2> SUFFICES ASSUME FilesInv PROVE FilesTypeOK
    OBVIOUS
  <2>1. /\ alive \subseteq Addr /\ DOMAIN peer = Addr
        /\ \A a \in Addr : peer[a] \in PeerRecord
    BY DEF FilesInv, Ranges
  <2>2. \A r \in PeerRecord : /\ r.port \in 0..1 /\ r.announced \in BOOLEAN
                             /\ r.errors \in 0..MAX_SEQ_ERROR_COUNT
    BY DEF PeerRecord
  <2>3. /\ \A i \in 1..Len(files) :
              files[i].desc \in Desc /\ files[i].peers \subseteq Addr
        /\ fileMap \in [Key -> 0..Len(files)]
    BY FileTypes DEF FilesInv
  <2>4. /\ line.cmd \in {"", "announce", "update"}
        /\ line.by \in Addr \cup {NoPeer} /\ line.k \in 0..3
    BY DEF FilesInv, Ranges, LineOK, LineRecord
  <2>5. fault \in {<<>>} \cup ({"null file", "freed peer"} \X Key)
    BY DEF FilesInv, Ranges, FaultOK
  <2> QED
    BY <2>1, <2>2, <2>3, <2>4, <2>5 DEF FilesTypeOK
<1> QED
  BY <1>1, FilesInvariant, PTL

(* A live Peer is in a file of every hash it told of; getfile finds the    *)
(* first of them, which is the only one unless two sizes have been told.   *)
THEOREM FoundByHashHolds == FilesSpec => []FoundByHash
<1>1. FilesInv => FoundByHash
  <2> SUFFICES ASSUME FilesInv, NEW a \in alive, NEW k \in told[a]
               PROVE  /\ fileMap[k] \in Copies(k)
                      /\ \A i \in Copies(k) : fileMap[k] <= i
                      /\ \E i \in Copies(k) : a \in files[i].peers
                      /\ k \notin conflict => Copies(k) = {fileMap[k]}
    BY DEF FoundByHash
  <2>1. a \in Addr
    BY DEF FilesInv, Ranges
  <2>2. k \in Key
    BY <2>1 DEF FilesInv, Ranges
  <2>3. fileMap[k] # 0 /\ InFile(a, k)
    BY <2>1 DEF FilesInv, PeersInv
  <2>4. fileMap[k] \in Copies(k)
    BY <2>2, <2>3, FileTypes DEF FilesInv, MapInv, Copies
  <2>5. \A i \in Copies(k) : fileMap[k] <= i /\ (k \in conflict \/ i = fileMap[k])
    BY DEF FilesInv, MapInv, Copies
  <2>6. \E i \in Copies(k) : a \in files[i].peers
    BY <2>3 DEF InFile, Copies
  <2> QED
    BY <2>4, <2>5, <2>6
<1> QED
  BY <1>1, FilesInvariant, PTL

(* A peer that getfile can list has told its port, unless its announce     *)
(* failed or the hash has lost a Peer.                                     *)
THEOREM ListedHasPortHolds == FilesSpec => []ListedHasPort
<1>1. FilesInv => ListedHasPort
  <2> SUFFICES ASSUME FilesInv, Idle, NEW i \in 1..Len(files),
                      NEW a \in files[i].peers \cap alive
               PROVE  \/ peer[a].port # 0 \/ a \in failed
                      \/ files[i].desc.hash \in gone
    BY DEF ListedHasPort
  <2>1. a \in Addr
    BY DEF FilesInv, Ranges
  <2>2. files[i].desc.hash \in gone \/ told[a] # {}
    BY DEF FilesInv, PeersInv
  <2>3. line.cmd # "announce"
    BY DEF Idle
  <2>4. told[a] # {} => peer[a].port = 1 \/ a \in failed
    BY <2>1, <2>3 DEF FilesInv, PortInv
  <2> QED
    BY <2>2, <2>4
<1> QED
  BY <1>1, FilesInvariant, PTL

(* A getfile that fails asked for a hash nobody seeded, or for one that a  *)
(* deleted Peer is registered for.                                         *)
THEOREM FaultHasCauseHolds == FilesSpec => []FaultHasCause
<1>1. FilesInit => FaultHasCause
  BY DEF FilesInit, FaultHasCause
<1>2. FilesInv /\ FaultHasCause /\ [FilesNext]_filesVars => FaultHasCause'
  <2> SUFFICES ASSUME FilesInv, FaultHasCause, [FilesNext]_filesVars, fault' # <<>>
               PROVE  FaultHasCause'
    BY DEF FaultHasCause
  <2>1. CASE UNCHANGED filesVars
    BY <2>1 DEF filesVars, FaultHasCause
  <2>2. CASE FilesNext
    <3>1. fault = <<>>
      BY <2>2 DEF FilesNext, Connect, Disconnect, Refused, Look, Begin, Getfile,
         Send, Idle, Listen, Wants, InLine, SeedEntry, Accept, Abort, Seed, Leech
    <3>2. PICK a \in Addr, k \in Key : Getfile(a, k)
      BY <2>2, <3>1 DEF FilesNext, Connect, Disconnect, Refused, Look, Begin,
         Listen, SeedEntry, Accept, Abort, Seed, Leech
    <3>3. fault' = Outcome(a, k) /\ UNCHANGED <<seeded, gone>>
      BY <3>2 DEF Getfile, history
    <3>4. CASE fileMap[k] = 0
      <4>1. k \notin seeded
        BY <3>4 DEF FilesInv, MapInv
      <4>2. fault'[1] = "null file" /\ fault'[2] = k
        BY <3>3, <3>4 DEF Outcome
      <4> QED
        BY <3>3, <4>1, <4>2 DEF FaultHasCause
    <3>5. CASE fileMap[k] # 0
      <4>1. ~(Listed(a, k) \subseteq alive) /\ fault' = <<"freed peer", k>>
        BY <3>3, <3>5 DEF Outcome
      <4>2. fileMap[k] \in 1..Len(files) /\ files[fileMap[k]].desc.hash = k
        BY <3>5, FileTypes DEF FilesInv, MapInv
      <4>3. k \in gone
        BY <4>1, <4>2 DEF Listed, FilesInv, PeersInv
      <4>4. fault'[1] = "freed peer" /\ fault'[2] = k
        BY <4>1
      <4> QED
        BY <3>3, <4>3, <4>4 DEF FaultHasCause
    <3> QED
      BY <3>4, <3>5
  <2> QED
    BY <2>1, <2>2
<1> QED
  BY <1>1, <1>2, FilesInvariant, PTL DEF FilesSpec
=============================================================================
