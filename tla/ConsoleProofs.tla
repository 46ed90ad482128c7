---------------------------- MODULE ConsoleProofs ----------------------------
(***************************************************************************)
(* Theorems about Console for every set of clients, names and files: which *)
(* freed clients the prompt can meet, and what a name finds.               *)
(***************************************************************************)
EXTENDS Console, SequenceTheorems, FiniteSetTheorems, TLAPS

Registering == {"name", "make", "add", "join"}

HandlersOK ==
    /\ clients \subseteq Client /\ heap \in [Client -> {"none", "live", "freed"}]
    /\ files_seed \in [Client -> SUBSET File]
    /\ pc \in [Client -> {"none", "idle", "delete", "gone"} \cup Registering]
    /\ file \in [Client -> File \cup {0}] /\ list \in [Client -> File \cup {0}]
FilesOK ==
    /\ file_by_hash \subseteq File /\ file_by_name \in [Name -> SUBSET File]
    /\ lists \in [File -> Seq(File)] /\ peers \in [File -> SUBSET Client]
    /\ nameOf \in [File -> Name \cup {NoName}]
HistoryOK == forgot \in [File -> SUBSET Client] /\ raced \subseteq Name
PromptRecord ==
    [pc : {"read", "lock", "in", "unlock", "print", "exited"},
     op : {"", "clients", "hash", "name", "key", "list", "peers"},
     rest : Seq({"hash", "clients"}), name : Name \cup {NoName},
     snap : SUBSET Client, l : File \cup {0}, j : Nat, n : Nat,
     f : File \cup {0}]

(* Only a client that has left the table and its files is freed.           *)
HeapInv ==
    /\ \A c \in clients : heap[c] = "live" /\ pc[c] \notin {"none", "delete", "gone"}
    /\ \A c \in Client : heap[c] = "freed" => pc[c] = "gone"
    /\ \A c \in Client : pc[c] \in {"none", "gone"} \cup Registering =>
          files_seed[c] = {}

(* A file remembers a client that lists it, or that has replaced its lists. *)
JoinInv ==
    \A f \in File : \A c \in peers[f] : f \in files_seed[c] \/ c \in forgot[f]

(* A file that is in the registry is in a list of its name, or a handler   *)
(* is about to put it there; a name has one list unless two handlers made  *)
(* one at the same time.                                                   *)
Arriving(f) == \E c \in Client : pc[c] \in {"name", "make", "add"} /\ file[c] = f
NameInv ==
    /\ \E n \in 0..MaxFile : file_by_hash = 1..n
    /\ \A f \in file_by_hash : nameOf[f] \in Name
    /\ \A c \in Client : pc[c] \in Registering => file[c] \in file_by_hash
    /\ \A c \in Client :
          pc[c] = "add" => list[c] \in file_by_name[nameOf[file[c]]]
    /\ \A n \in Name \ raced : \A l, m \in file_by_name[n] : l = m
    /\ \A f \in file_by_hash :
          Arriving(f) \/ \E l \in file_by_name[nameOf[f]] : Holds(l, f)

(* Where the prompt is in the list it found, and which file it has taken   *)
(* from it: the list may only have grown since its size was read.          *)
Position(p) ==
    /\ p \in PromptRecord
    /\ p.pc \in {"lock", "in", "unlock"} => p.op # ""
    /\ p.op = "name" => p.name \in Name /\ p.n = 0
    /\ p.n # 0 => p.l \in File /\ p.n <= Len(lists[p.l])
    /\ p.op = "list" => p.j >= 1 /\ p.j <= p.n
    /\ p.op = "list" /\ p.pc = "unlock" => p.f \in File
    /\ p.op = "peers" => p.f \in File

ConsoleInv ==
    /\ HandlersOK /\ FilesOK /\ HistoryOK
    /\ HeapInv /\ JoinInv /\ NameInv
    /\ Position(pr) /\ leaked \subseteq held
    /\ FreedHasCause
-----------------------------------------------------------------------------
(* The steps of a handler, by what they change.                            *)
Life(c) ==
    \/ ClientCreate(c) \/ DeleteClient(c) \/ ClientFree(c)
    \/ \E f \in File : RemoveFromFile(c, f)
Registers(c) ==
    \/ \E n \in Name : AnnounceNew(c, n)
    \/ \E f \in File : AnnounceKnown(c, f) \/ NameFound(c, f)
    \/ NameNotFound(c) \/ MakeList(c) \/ ListAdd(c) \/ Join(c)

(* The prompt waiting for a command.                                       *)
LEMMA PositionStart == Position(AtPrompt)
<1> DEFINE p == AtPrompt
<1>1. /\ p.pc = "read" /\ p.op = "" /\ p.n = 0
  BY DEF AtPrompt
<1>2. p \in PromptRecord
  <2>1. <<>> \in Seq({"hash", "clients"})
    OBVIOUS
  <2> QED
    BY <2>1 DEF AtPrompt, PromptRecord
<1> HIDE DEF p
<1>3. Position(p)
  BY <1>1, <1>2 DEF Position
<1> QED
  BY <1>3 DEF p

LEMMA ConsoleStarts == Init => ConsoleInv
<1> SUFFICES ASSUME Init PROVE ConsoleInv
  OBVIOUS
<1>1. HandlersOK
  BY DEF Init, HandlersOK
<1>2. FilesOK
  <2>1. lists \in [File -> Seq(File)]
    <3>1. <<>> \in Seq(File)
      OBVIOUS
    <3> QED
      BY <3>1 DEF Init
  <2>2. /\ file_by_hash \subseteq File /\ file_by_name \in [Name -> SUBSET File]
        /\ peers \in [File -> SUBSET Client]
        /\ nameOf \in [File -> Name \cup {NoName}]
    BY DEF Init
  <2> QED
    BY <2>1, <2>2 DEF FilesOK
<1>3. HistoryOK
  BY DEF Init, HistoryOK
<1>4. pr = AtPrompt /\ held = {} /\ leaked = {}
  BY DEF Init
<1>5. Position(pr) /\ leaked \subseteq held
  BY <1>4, PositionStart
<1>6. HeapInv /\ JoinInv
  BY DEF Init, HeapInv, JoinInv, Registering
<1>7. NameInv
  <2>1. file_by_hash = {} /\ \A n \in Name : file_by_name[n] = {}
    BY DEF Init
  <2>2. \E n \in 0..MaxFile : file_by_hash = 1..n
    <3>1. 0 \in 0..MaxFile /\ 1..0 = {}
      BY ConsoleAssumption
    <3> QED
      BY <2>1, <3>1
  <2>3. \A c \in Client : pc[c] = "none"
    BY DEF Init
  <2>4. \A c \in Client : pc[c] # "add" /\ pc[c] \notin Registering
    BY <2>3 DEF Registering
  <2>5. \A n \in Name \ raced : \A l, m \in file_by_name[n] : l = m
    BY <2>1
  <2> QED
    BY <2>1, <2>2, <2>4, <2>5 DEF NameInv
<1>8. FreedHasCause
  BY DEF Init, FreedHasCause
<1> QED
  BY <1>1, <1>2, <1>3, <1>5, <1>6, <1>7, <1>8 DEF ConsoleInv
-----------------------------------------------------------------------------
(* The life of a client leaves the registry alone but for the clients of a *)
(* file.                                                                   *)
LEMMA LifeKeeps ==
    ASSUME ConsoleInv, NEW c \in Client, Life(c)
    PROVE  /\ (HandlersOK /\ FilesOK /\ HistoryOK)'
           /\ (HeapInv /\ JoinInv /\ NameInv)'
<1> USE DEF ConsoleInv
<1>1. /\ UNCHANGED <<file_by_hash, file_by_name, lists, nameOf, file, list>>
      /\ UNCHANGED <<forgot, raced>>
  BY DEF Life, ClientCreate, DeleteClient, ClientFree, RemoveFromFile, fileVars,
         thrVars
<1>2. /\ HandlersOK'
      /\ peers' \in [File -> SUBSET Client]
      /\ \A d \in Client \ {c} :
            pc'[d] = pc[d] /\ heap'[d] = heap[d] /\ files_seed'[d] = files_seed[d]
      /\ pc[c] \notin Registering /\ pc'[c] \notin Registering
  <2>1. CASE ClientCreate(c)
    BY <1>1, <2>1 DEF ClientCreate, client_create, At, Goto, HandlersOK, FilesOK,
                      fileVars, Registering
  <2>2. CASE DeleteClient(c)
    BY <1>1, <2>2 DEF DeleteClient, At, Goto, HandlersOK, FilesOK, fileVars,
                      Registering
  <2>3. CASE ClientFree(c)
    BY <1>1, <2>3 DEF ClientFree, At, Goto, HandlersOK, FilesOK, fileVars,
                      Registering
  <2>4. CASE \E f \in File : RemoveFromFile(c, f)
    BY <1>1, <2>4 DEF RemoveFromFile, At, HandlersOK, FilesOK, thrVars,
                      Registering
  <2> QED
    BY <2>1, <2>2, <2>3, <2>4 DEF Life
<1>3. FilesOK' /\ HistoryOK'
  BY <1>1, <1>2 DEF FilesOK, HistoryOK
<1>4. HeapInv'
  <2>1. CASE ClientCreate(c)
    BY <1>2, <2>1
       DEF ClientCreate, client_create, At, Goto, HeapInv, HandlersOK, Registering
  <2>2. CASE DeleteClient(c)
    BY <1>2, <2>2 DEF DeleteClient, At, Goto, HeapInv, HandlersOK, Registering
  <2>3. CASE ClientFree(c)
    BY <1>2, <2>3 DEF ClientFree, At, Goto, HeapInv, HandlersOK, Registering
  <2>4. CASE \E f \in File : RemoveFromFile(c, f)
    BY <1>2, <2>4 DEF RemoveFromFile, At, HeapInv, HandlersOK, thrVars, Registering
  <2> QED
    BY <2>1, <2>2, <2>3, <2>4 DEF Life
<1>5. JoinInv'
  <2>1. CASE ClientCreate(c)
    <3>1. files_seed' = files_seed /\ peers' = peers
      BY <2>1 DEF ClientCreate, client_create, At, HeapInv, HandlersOK, fileVars
    <3> QED
      BY <1>1, <3>1 DEF JoinInv
  <2>2. CASE DeleteClient(c) \/ ClientFree(c)
    BY <1>1, <2>2 DEF DeleteClient, ClientFree, JoinInv, fileVars
  <2>3. CASE \E f \in File : RemoveFromFile(c, f)
    BY <1>1, <2>3 DEF RemoveFromFile, JoinInv, HandlersOK, FilesOK
  <2> QED
    BY <2>1, <2>2, <2>3 DEF Life
<1>6. NameInv'
  <2>1. \A d \in Client :
           /\ pc'[d] \in Registering <=> pc[d] \in Registering
           /\ pc[d] \in Registering => pc'[d] = pc[d]
    BY <1>2
  <2>2. \A f \in File : Arriving(f) => Arriving(f)'
    BY <1>1, <2>1 DEF Arriving, Registering
  <2> QED
    BY <1>1, <2>1, <2>2 DEF NameInv, FilesOK, Holds, Registering
<1> QED
  BY <1>2, <1>3, <1>4, <1>5, <1>6
-----------------------------------------------------------------------------
(* A list contains what was added to it.                                   *)
LEMMA Prepended ==
    ASSUME NEW s \in Seq(File), NEW f \in File
    PROVE  LET t == <<f>> \o s
           IN  /\ t \in Seq(File) /\ Len(t) = Len(s) + 1
               /\ \E i \in 1..Len(t) : t[i] = f
               /\ \A g : (\E i \in 1..Len(s) : s[i] = g) =>
                            \E i \in 1..Len(t) : t[i] = g
<1> DEFINE t == <<f>> \o s
<1>1. Len(s) \in Nat /\ Len(t) = Len(s) + 1 /\ t \in Seq(File)
  OBVIOUS
<1>2. t[1] = f /\ 1 \in 1..Len(t)
  BY <1>1
<1>3. \A i \in 1..Len(s) : i + 1 \in 1..Len(t) /\ t[i + 1] = s[i]
  BY <1>1
<1> HIDE DEF t
<1>4. \A g : (\E i \in 1..Len(s) : s[i] = g) => \E i \in 1..Len(t) : t[i] = g
  BY <1>3
<1> QED
  BY <1>1, <1>2, <1>4 DEF t

(* Registering a file: the types and the lists of the client.              *)
LEMMA RegistersTypes ==
    ASSUME ConsoleInv, NEW c \in Client, Registers(c)
    PROVE  /\ (HandlersOK /\ FilesOK /\ HistoryOK)'
           /\ (HeapInv /\ JoinInv)'
<1> USE DEF ConsoleInv
<1>1. CASE \E n \in Name : AnnounceNew(c, n)
  <2>1. PICK n \in Name : AnnounceNew(c, n)
    BY <1>1
  <2> DEFINE f == Cardinality(file_by_hash) + 1
  <2>2. /\ pc[c] = "idle" /\ pc' = [pc EXCEPT ![c] = "name"]
        /\ files_seed' = [files_seed EXCEPT ![c] = {}]
        /\ forgot' = [g \in File |->
                        IF c \in peers[g] THEN forgot[g] \cup {c} ELSE forgot[g]]
        /\ UNCHANGED <<clients, heap, file_by_name, lists, peers, list, raced>>
    BY <2>1 DEF AnnounceNew, At, Goto, Replace
  <2>3. /\ f <= MaxFile /\ file_by_hash' = file_by_hash \cup {f}
        /\ nameOf' = [nameOf EXCEPT ![f] = n]
        /\ file' = [file EXCEPT ![c] = f]
    BY <2>1 DEF AnnounceNew
  <2>4. IsFiniteSet(file_by_hash)
    <3>1. IsFiniteSet(File)
      BY FS_Interval, ConsoleAssumption DEF File
    <3> QED
      BY <3>1, FS_Subset DEF FilesOK
  <2>5. f \in File
    <3>1. Cardinality(file_by_hash) \in Nat
      BY <2>4, FS_CardinalityType
    <3> QED
      BY <2>3, <3>1, ConsoleAssumption DEF File
  <2> HIDE DEF f
  <2>6. HandlersOK'
    BY <2>2, <2>3, <2>5 DEF HandlersOK, Registering
  <2>7. FilesOK' /\ HistoryOK'
    BY <2>2, <2>3, <2>5 DEF FilesOK, HistoryOK
  <2>8. HeapInv'
    BY <2>2 DEF HeapInv, HandlersOK, Registering
  <2>9. JoinInv'
    BY <2>2 DEF JoinInv, HandlersOK, HistoryOK, FilesOK
  <2> QED
    BY <2>6, <2>7, <2>8, <2>9
<1>2. CASE \E f \in File : AnnounceKnown(c, f)
  <2>1. PICK f \in File : AnnounceKnown(c, f)
    BY <1>2
  <2>2. /\ pc[c] = "idle" /\ pc' = [pc EXCEPT ![c] = "join"]
        /\ files_seed' = [files_seed EXCEPT ![c] = {}]
        /\ forgot' = [g \in File |->
                        IF c \in peers[g] THEN forgot[g] \cup {c} ELSE forgot[g]]
        /\ file' = [file EXCEPT ![c] = f]
        /\ UNCHANGED <<clients, heap, list, raced>>
        /\ UNCHANGED <<file_by_hash, file_by_name, lists, peers, nameOf>>
    BY <2>1 DEF AnnounceKnown, At, Goto, Replace, fileVars
  <2>3. HandlersOK'
    BY <2>2 DEF HandlersOK, Registering
  <2>4. FilesOK' /\ HistoryOK'
    BY <2>2 DEF FilesOK, HistoryOK
  <2>5. HeapInv'
    BY <2>2 DEF HeapInv, HandlersOK, Registering
  <2>6. JoinInv'
    BY <2>2 DEF JoinInv, HandlersOK, HistoryOK, FilesOK
  <2> QED
    BY <2>3, <2>4, <2>5, <2>6
<1>3. CASE (\E f \in File : NameFound(c, f)) \/ NameNotFound(c) \/ MakeList(c)
  <2>1. /\ pc[c] \in {"name", "make"} /\ pc' \in {[pc EXCEPT ![c] = "add"],
                                                  [pc EXCEPT ![c] = "make"]}
        /\ UNCHANGED <<clients, heap, files_seed, peers, forgot>>
        /\ UNCHANGED <<file_by_hash, lists, nameOf, file>>
    BY <1>3 DEF NameFound, NameNotFound, MakeList, At, Goto, clientVars, fileVars
  <2>2. list' \in [Client -> File \cup {0}]
    <3>1. CASE \E f \in File : NameFound(c, f)
      BY <3>1 DEF NameFound, HandlersOK
    <3>2. CASE NameNotFound(c)
      BY <3>2 DEF NameNotFound, HandlersOK
    <3>3. CASE MakeList(c)
      BY <3>3 DEF MakeList, HandlersOK
    <3> QED
      BY <1>3, <3>1, <3>2, <3>3
  <2>3. file_by_name' \in [Name -> SUBSET File] /\ raced' \subseteq Name
    <3>1. CASE (\E f \in File : NameFound(c, f)) \/ NameNotFound(c)
      BY <3>1 DEF NameFound, NameNotFound, fileVars, FilesOK, HistoryOK
    <3>2. CASE MakeList(c)
      <4>1. file[c] \in File /\ nameOf[file[c]] \in Name
        BY <2>1 DEF NameInv, Registering, FilesOK
      <4> QED
        BY <3>2, <4>1 DEF MakeList, FilesOK, HistoryOK
    <3> QED
      BY <1>3, <3>1, <3>2
  <2>4. HandlersOK'
    BY <2>1, <2>2 DEF HandlersOK, Registering
  <2>5. FilesOK' /\ HistoryOK'
    BY <2>1, <2>3 DEF FilesOK, HistoryOK
  <2>6. HeapInv'
    BY <2>1 DEF HeapInv, HandlersOK, Registering
  <2>7. JoinInv'
    BY <2>1 DEF JoinInv
  <2> QED
    BY <2>4, <2>5, <2>6, <2>7
<1>4. CASE ListAdd(c)
  <2>1. /\ pc[c] = "add" /\ pc' = [pc EXCEPT ![c] = "join"]
        /\ lists' = [lists EXCEPT ![list[c]] = <<file[c]>> \o @]
        /\ list' = [list EXCEPT ![c] = 0]
        /\ UNCHANGED <<clients, heap, files_seed, peers, forgot, raced>>
        /\ UNCHANGED <<file_by_hash, file_by_name, nameOf, file>>
    BY <1>4 DEF ListAdd, At, Goto, clientVars
  <2>2. file[c] \in File
    BY <2>1 DEF NameInv, Registering, FilesOK
  <2>3. lists' \in [File -> Seq(File)]
    <3>1. \A l \in File : <<file[c]>> \o lists[l] \in Seq(File)
      BY <2>2 DEF FilesOK
    <3> QED
      BY <2>1, <3>1 DEF FilesOK
  <2>4. HandlersOK'
    BY <2>1 DEF HandlersOK, Registering
  <2>5. FilesOK' /\ HistoryOK'
    BY <2>1, <2>3 DEF FilesOK, HistoryOK
  <2>6. HeapInv'
    BY <2>1 DEF HeapInv, HandlersOK, Registering
  <2>7. JoinInv'
    BY <2>1 DEF JoinInv
  <2> QED
    BY <2>4, <2>5, <2>6, <2>7
<1>5. CASE Join(c)
  <2> DEFINE f == file[c]
  <2>1. /\ pc[c] = "join" /\ pc' = [pc EXCEPT ![c] = "idle"]
        /\ peers' = [peers EXCEPT ![f] = @ \cup {c}]
        /\ files_seed' = [files_seed EXCEPT ![c] = {f}]
        /\ forgot' \in {forgot, [forgot EXCEPT ![f] = @ \ {c}]}
        /\ file' = [file EXCEPT ![c] = 0]
        /\ UNCHANGED <<clients, heap, list, raced>>
        /\ UNCHANGED <<file_by_hash, file_by_name, lists, nameOf>>
    BY <1>5 DEF Join, At, Goto
  <2>2. f \in File
    BY <2>1 DEF NameInv, Registering, FilesOK
  <2> HIDE DEF f
  <2>3. HandlersOK'
    BY <2>1, <2>2 DEF HandlersOK, Registering
  <2>7. FilesOK'
    BY <2>1, <2>2 DEF FilesOK
  <2>8. forgot' \in [File -> SUBSET Client]
    BY <2>1, <2>2 DEF HistoryOK
  <2>4. FilesOK' /\ HistoryOK'
    BY <2>1, <2>7, <2>8 DEF HistoryOK
  <2>5. HeapInv'
    BY <2>1 DEF HeapInv, HandlersOK, Registering
  <2>6. JoinInv'
    <3> SUFFICES ASSUME NEW g \in File, NEW d \in peers'[g]
                 PROVE  g \in files_seed'[d] \/ d \in forgot'[g]
      BY DEF JoinInv
    <3>1. files_seed[c] = {}
      BY <2>1 DEF HeapInv, Registering
    <3>2. d \in Client
      BY <2>4 DEF FilesOK
    <3>3. CASE d = c /\ g = f
      BY <2>1, <3>3 DEF HandlersOK
    <3>4. CASE d # c
      BY <2>1, <2>2, <3>2, <3>4 DEF JoinInv, HandlersOK, FilesOK, HistoryOK
    <3>5. CASE d = c /\ g # f
      BY <2>1, <2>2, <3>1, <3>5 DEF JoinInv, HandlersOK, FilesOK, HistoryOK
    <3> QED
      BY <3>3, <3>4, <3>5
  <2> QED
    BY <2>3, <2>4, <2>5, <2>6
<1> QED
  BY <1>1, <1>2, <1>3, <1>4, <1>5 DEF Registers

(* Registering a file: the table of hashes, the lists of the names.        *)
LEMMA RegistersNames ==
    ASSUME ConsoleInv, NEW c \in Client, Registers(c)
    PROVE  NameInv'
<1> USE DEF ConsoleInv
<1>0. (HandlersOK /\ FilesOK /\ HistoryOK)'
  BY RegistersTypes
<1>1. CASE \E n \in Name : AnnounceNew(c, n)
  <2>1. PICK n \in Name : AnnounceNew(c, n)
    BY <1>1
  <2>0. PICK f : f = Cardinality(file_by_hash) + 1
    OBVIOUS
  <2>2. /\ pc[c] = "idle" /\ pc' = [pc EXCEPT ![c] = "name"]
        /\ UNCHANGED <<file_by_name, lists, list, raced>>
        /\ f <= MaxFile /\ file_by_hash' = file_by_hash \cup {f}
        /\ nameOf' = [nameOf EXCEPT ![f] = n]
        /\ file' = [file EXCEPT ![c] = f]
    BY <2>0, <2>1 DEF AnnounceNew, At, Goto
  <2>3. PICK k \in 0..MaxFile : file_by_hash = 1..k
    BY DEF NameInv
  <2>4. f = k + 1
    <3>1. k \in Nat
      BY ConsoleAssumption
    <3>2. Cardinality(1..k) = k
      BY <3>1, FS_Interval
    <3> QED
      BY <2>0, <2>3, <3>2
  <2>5. f \in File /\ f \notin file_by_hash /\ file_by_hash' = 1..f /\ f \in 0..MaxFile
    BY <2>2, <2>3, <2>4, ConsoleAssumption DEF File
  <2>6. \A d \in Client : /\ d # c => pc'[d] = pc[d] /\ file'[d] = file[d]
                          /\ d = c => pc'[d] = "name" /\ file'[d] = f
    BY <2>2 DEF HandlersOK
  <2>7. \A g \in file_by_hash : nameOf'[g] = nameOf[g]
    BY <2>2, <2>5 DEF FilesOK
  <2>8. nameOf'[f] = n
    BY <2>2, <2>5 DEF FilesOK
  <2>9. \A g \in File : Arriving(g) => Arriving(g)'
    BY <2>2, <2>6 DEF Arriving
  <2>10. Arriving(f)'
    BY <2>6 DEF Arriving
  <2>11. \A g \in file_by_hash' : nameOf'[g] \in Name
    BY <2>2, <2>7, <2>8 DEF NameInv
  <2>12. \A d \in Client : pc'[d] \in Registering => file'[d] \in file_by_hash'
    BY <2>2, <2>6 DEF NameInv
  <2>13. \A d \in Client :
           pc'[d] = "add" => list'[d] \in file_by_name'[nameOf'[file'[d]]]
    BY <2>2, <2>6, <2>7 DEF NameInv, Registering
  <2>14. \A g \in file_by_hash' :
           Arriving(g)' \/ \E l \in file_by_name'[nameOf'[g]] : Holds(l, g)'
    BY <2>2, <2>7, <2>9, <2>10 DEF NameInv, Holds, FilesOK
  <2> QED
    BY <2>2, <2>5, <2>11, <2>12, <2>13, <2>14 DEF NameInv, Registering
<1>2. CASE (\E f \in File : AnnounceKnown(c, f)) \/ Join(c)
  <2>1. /\ pc[c] \in {"idle", "join"}
        /\ pc' \in {[pc EXCEPT ![c] = "idle"], [pc EXCEPT ![c] = "join"]}
        /\ UNCHANGED <<file_by_hash, file_by_name, lists, nameOf, list, raced>>
    BY <1>2 DEF AnnounceKnown, Join, At, Goto, fileVars
  <2>2. \A d \in Client \ {c} : pc'[d] = pc[d] /\ file'[d] = file[d]
    BY <1>2, <2>1 DEF AnnounceKnown, Join, HandlersOK
  <2>3. pc'[c] \in Registering => file'[c] \in file_by_hash
    <3>1. CASE \E f \in File : AnnounceKnown(c, f)
      BY <3>1 DEF AnnounceKnown, HandlersOK
    <3>2. CASE Join(c)
      BY <3>2 DEF Join, Goto, HandlersOK, Registering
    <3> QED
      BY <1>2, <3>1, <3>2
  <2>4. pc'[c] \notin {"name", "make", "add"}
    BY <2>1 DEF HandlersOK
  <2>5. \A g \in File : Arriving(g) => Arriving(g)'
    BY <2>1, <2>2 DEF Arriving
  <2>6. \A d \in Client : pc'[d] \in Registering => file'[d] \in file_by_hash
    BY <2>2, <2>3 DEF NameInv
  <2>7. \A d \in Client :
           pc'[d] = "add" => list[d] \in file_by_name[nameOf[file'[d]]]
    BY <2>2, <2>4 DEF NameInv
  <2> QED
    BY <2>1, <2>5, <2>6, <2>7 DEF NameInv, FilesOK, Holds, Registering
<1>3. CASE (\E f \in File : NameFound(c, f)) \/ NameNotFound(c) \/ MakeList(c)
  <2>1. /\ pc[c] \in {"name", "make"} /\ pc' \in {[pc EXCEPT ![c] = "add"],
                                                  [pc EXCEPT ![c] = "make"]}
        /\ UNCHANGED <<file_by_hash, lists, nameOf, file>>
    BY <1>3 DEF NameFound, NameNotFound, MakeList, At, Goto, fileVars
  <2>2. \A g \in File : Arriving(g) => Arriving(g)'
    BY <2>1 DEF Arriving, HandlersOK
  <2>3. \A d \in Client : pc'[d] \in Registering <=> pc[d] \in Registering
    BY <2>1 DEF HandlersOK, Registering
  <2>4. /\ \A n \in Name : file_by_name[n] \subseteq file_by_name'[n]
        /\ \A d \in Client : d # c => list'[d] = list[d] /\ pc'[d] = pc[d]
        /\ pc'[c] = "add" => list'[c] \in file_by_name'[nameOf[file[c]]]
        /\ \A n \in Name \ raced' : \A l, m \in file_by_name'[n] : l = m
    <3>1. CASE (\E f \in File : NameFound(c, f)) \/ NameNotFound(c)
      BY <3>1 DEF NameFound, NameNotFound, At, Goto, fileVars, HandlersOK, NameInv
    <3>2. CASE MakeList(c)
      <4> DEFINE n == nameOf[file[c]]
      <4>1. n \in Name /\ file[c] \in File
        BY <2>1 DEF NameInv, Registering, FilesOK
      <4>2. /\ raced' = IF file_by_name[n] = {} THEN raced ELSE raced \cup {n}
            /\ file_by_name' = [file_by_name EXCEPT ![n] = @ \cup {file[c]}]
            /\ list' = [list EXCEPT ![c] = file[c]]
            /\ pc' = [pc EXCEPT ![c] = "add"]
        BY <3>2 DEF MakeList, Goto
      <4> HIDE DEF n
      <4>3. \A m \in Name : m # n => file_by_name'[m] = file_by_name[m]
        BY <4>2 DEF FilesOK
      <4>4. file_by_name'[n] = file_by_name[n] \cup {file[c]}
        BY <4>1, <4>2 DEF FilesOK
      <4>5. \A m \in Name \ raced' : \A k, l \in file_by_name'[m] : k = l
        <5> SUFFICES ASSUME NEW m \in Name \ raced',
                            NEW k \in file_by_name'[m], NEW l \in file_by_name'[m]
                     PROVE  k = l
          OBVIOUS
        <5>1. CASE m = n
          BY <4>2, <4>4, <5>1
        <5>2. CASE m # n
          BY <4>2, <4>3, <5>2 DEF NameInv
        <5> QED
          BY <5>1, <5>2
      <4>6. list'[c] \in file_by_name'[nameOf[file[c]]]
        BY <4>2, <4>4 DEF HandlersOK, n
      <4>7. \A d \in Client : d # c => list'[d] = list[d] /\ pc'[d] = pc[d]
        BY <4>2 DEF HandlersOK
      <4>8. \A m \in Name : file_by_name[m] \subseteq file_by_name'[m]
        BY <4>3, <4>4
      <4> QED
        BY <4>5, <4>6, <4>7, <4>8
    <3> QED
      BY <1>3, <3>1, <3>2
  <2>5. \A d \in Client : pc'[d] = "add" => list'[d] \in file_by_name'[nameOf[file[d]]]
    <3> SUFFICES ASSUME NEW d \in Client, d # c, pc'[d] = "add"
                 PROVE  list'[d] \in file_by_name'[nameOf[file[d]]]
      BY <2>4
    <3>1. list[d] \in file_by_name[nameOf[file[d]]] /\ nameOf[file[d]] \in Name
      BY <2>4 DEF NameInv, Registering
    <3> QED
      BY <2>4, <3>1
  <2>6. \A g \in file_by_hash :
           Arriving(g)' \/ \E l \in file_by_name'[nameOf[g]] : Holds(l, g)'
    <3> TAKE g \in file_by_hash
    <3>1. CASE Arriving(g)
      BY <2>2, <3>1 DEF FilesOK
    <3>2. CASE \E l \in file_by_name[nameOf[g]] : Holds(l, g)
      <4>1. PICK l \in file_by_name[nameOf[g]] : Holds(l, g)
        BY <3>2
      <4>2. l \in file_by_name'[nameOf[g]]
        BY <2>4 DEF NameInv
      <4>3. Holds(l, g)'
        BY <2>1, <4>1 DEF Holds
      <4> QED
        BY <4>2, <4>3
    <3> QED
      BY <3>1, <3>2 DEF NameInv
  <2>7. \A d \in Client : pc'[d] \in Registering => file[d] \in file_by_hash
    BY <2>3 DEF NameInv
  <2> QED
    BY <2>1, <2>4, <2>5, <2>6, <2>7 DEF NameInv, Registering
<1>4. CASE ListAdd(c)
  <2>0. PICK m, f : m = list[c] /\ f = file[c]
    OBVIOUS
  <2>1. /\ pc[c] = "add" /\ pc' = [pc EXCEPT ![c] = "join"]
        /\ lists' = [lists EXCEPT ![m] = <<f>> \o @]
        /\ list' = [list EXCEPT ![c] = 0]
        /\ UNCHANGED <<file_by_hash, file_by_name, nameOf, file, raced>>
    BY <1>4, <2>0 DEF ListAdd, At, Goto
  <2>2. f \in file_by_hash /\ f \in File
    BY <2>0, <2>1 DEF NameInv, Registering, FilesOK
  <2>3. m \in file_by_name[nameOf[f]] /\ m \in File
    BY <2>0, <2>1, <2>2 DEF NameInv, FilesOK
  <2>4. \A l \in File : lists'[l] = IF l = m THEN <<f>> \o lists[l] ELSE lists[l]
    BY <2>1 DEF FilesOK
  <2>5. \A l \in File, g \in File : Holds(l, g) => Holds(l, g)'
    <3> SUFFICES ASSUME NEW l \in File, NEW g \in File, Holds(l, g)
                 PROVE  Holds(l, g)'
      OBVIOUS
    <3>1. lists[l] \in Seq(File)
      BY DEF FilesOK
    <3>2. CASE l = m
      <4>1. lists'[l] = <<f>> \o lists[l]
        BY <2>4, <3>2
      <4>2. \A h : (\E i \in 1..Len(lists[l]) : lists[l][i] = h) =>
               \E i \in 1..Len(<<f>> \o lists[l]) : (<<f>> \o lists[l])[i] = h
        BY <2>2, <3>1, Prepended
      <4>3. \E i \in 1..Len(lists[l]) : lists[l][i] = g
        BY DEF Holds
      <4>4. \E i \in 1..Len(lists'[l]) : lists'[l][i] = g
        BY <4>1, <4>2, <4>3
      <4> QED
        BY <4>4 DEF Holds
    <3>3. CASE l # m
      BY <2>4, <3>3 DEF Holds
    <3> QED
      BY <3>2, <3>3
  <2>6. Holds(m, f)'
    <3>1. lists[m] \in Seq(File)
      BY <2>3 DEF FilesOK
    <3> QED
      <4>1. lists'[m] = <<f>> \o lists[m]
        BY <2>3, <2>4
      <4>2. \E i \in 1..Len(<<f>> \o lists[m]) : (<<f>> \o lists[m])[i] = f
        BY <2>2, <3>1, Prepended
      <4>3. \E i \in 1..Len(lists'[m]) : lists'[m][i] = f
        BY <4>1, <4>2
      <4> QED
        BY <4>3 DEF Holds
  <2>7. \A d \in Client : /\ d # c => pc'[d] = pc[d] /\ list'[d] = list[d]
                          /\ d = c => pc'[d] = "join"
    BY <2>1 DEF HandlersOK
  <2>8. \A g \in file_by_hash : g # f /\ Arriving(g) => Arriving(g)'
    BY <2>0, <2>1, <2>7 DEF Arriving
  <2>9. \A d \in Client : pc'[d] \in Registering => pc[d] \in Registering
    BY <2>1, <2>7 DEF Registering
  <2>10. \A g \in file_by_hash :
           Arriving(g)' \/ \E l \in file_by_name[nameOf[g]] : Holds(l, g)'
    <3> TAKE g \in file_by_hash
    <3>1. CASE g = f
      BY <2>3, <2>6, <3>1
    <3>2. CASE g # f
      <4>1. g \in File /\ nameOf[g] \in Name /\ file_by_name[nameOf[g]] \subseteq File
        BY DEF FilesOK, NameInv
      <4> QED
        BY <2>5, <2>8, <3>2, <4>1 DEF NameInv
    <3> QED
      BY <3>1, <3>2
  <2>11. \A d \in Client : pc'[d] = "add" => list'[d] \in file_by_name[nameOf[file[d]]]
    BY <2>7 DEF NameInv
  <2>12. \A d \in Client : pc'[d] \in Registering => file[d] \in file_by_hash
    BY <2>9 DEF NameInv
  <2> QED
    BY <2>1, <2>10, <2>11, <2>12 DEF NameInv, Registering
<1> QED
  BY <1>1, <1>2, <1>3, <1>4 DEF Registers
-----------------------------------------------------------------------------
(* The steps of the prompt change nothing of the tables.                   *)
PromptRead ==
    ReadClients \/ ReadFiles \/ ReadName \/ ReadKey \/ ReadList \/ ReadPeers
PromptStep ==
    \/ Quit \/ CtrlC \/ PromptLock \/ NoPeers \/ PromptUnlock \/ PrintClient
    \/ PromptRead
    \/ \E ops \in Listing : Eval(ops, NoName)
    \/ \E n \in Name : Eval(prompt_command_peers, n)

LEMMA TablesKept ==
    ASSUME ConsoleInv, PromptAlone
    PROVE  /\ (HandlersOK /\ FilesOK /\ HistoryOK)'
           /\ (HeapInv /\ JoinInv /\ NameInv)'
<1>1. /\ UNCHANGED <<clients, heap, files_seed, pc, file, list, forgot, raced>>
      /\ UNCHANGED <<file_by_hash, file_by_name, lists, peers, nameOf>>
  BY DEF PromptAlone, clientVars, fileVars, thrVars
<1>2. (HandlersOK /\ FilesOK /\ HistoryOK)'
  BY <1>1 DEF ConsoleInv, HandlersOK, FilesOK, HistoryOK
<1>3. HeapInv' /\ JoinInv'
  BY <1>1 DEF ConsoleInv, HeapInv, JoinInv
<1>4. NameInv'
  BY <1>1 DEF ConsoleInv, NameInv, Arriving, Holds
<1> QED
  BY <1>2, <1>3, <1>4

(* The next call of the command.                                           *)
LEMMA DonePosition ==
    ASSUME NEW p, p.rest \in Seq({"hash", "clients"})
    PROVE  Position(Done(p)) /\ Done(p).op # "name"
<1>1. CASE p.rest = <<>>
  <2>1. Done(p) = AtPrompt /\ AtPrompt.op = ""
    BY <1>1 DEF Done, AtPrompt
  <2> QED
    BY <2>1, PositionStart
<1>2. CASE p.rest # <<>>
  <2> DEFINE q == Done(p)
  <2>1. Head(p.rest) \in {"hash", "clients"} /\ Tail(p.rest) \in Seq({"hash", "clients"})
    BY <1>2
  <2>2. q = [AtPrompt EXCEPT !.pc = "lock", !.op = Head(p.rest),
                             !.rest = Tail(p.rest)]
    BY <1>2 DEF Done
  <2>3. q \in PromptRecord
    BY <2>1, <2>2, PositionStart DEF Position, PromptRecord
  <2>4. q.op = Head(p.rest)
    BY <2>2 DEF AtPrompt
  <2>5. q.n = 0
    BY <2>2 DEF AtPrompt
  <2> HIDE DEF q
  <2>6. q.op \in {"hash", "clients"}
    BY <2>1, <2>4
  <2>7. Position(q) /\ q.op # "name"
    BY <2>3, <2>5, <2>6 DEF Position
  <2> QED
    BY <2>7 DEF q
<1> QED
  BY <1>1, <1>2

(* The next file of a list.                                                *)
LEMMA NextPosition ==
    ASSUME NEW p \in PromptRecord, p.j \in Nat, p.n \in Nat,
           p.n # 0 => p.l \in File /\ p.n <= Len(lists[p.l])
    PROVE  Position(NextFile(p))
<1>1. CASE p.j >= p.n
  <2>1. p.rest \in Seq({"hash", "clients"})
    BY DEF PromptRecord
  <2>2. NextFile(p) = Done(p)
    BY <1>1 DEF NextFile
  <2> QED
    BY <2>1, <2>2, DonePosition
<1>2. CASE ~(p.j >= p.n)
  <2> DEFINE q == [p EXCEPT !.j = @ + 1, !.op = "list", !.pc = "lock"]
  <2>1. NextFile(p) = q
    BY <1>2 DEF NextFile
  <2>2. q \in PromptRecord
    <3>1. p.j + 1 \in Nat
      OBVIOUS
    <3> QED
      BY <3>1 DEF PromptRecord
  <2>3. q.op = "list" /\ q.pc = "lock"
    BY DEF PromptRecord
  <2>4. q.j = p.j + 1 /\ q.n = p.n
    BY DEF PromptRecord
  <2>5. q.l = p.l
    BY DEF PromptRecord
  <2> HIDE DEF q
  <2>6. q.j >= 1 /\ q.j <= q.n
    BY <1>2, <2>4
  <2>7. q.n # 0 => q.l \in File /\ q.n <= Len(lists[q.l])
    BY <2>4, <2>5
  <2>8. Position(q)
    BY <2>2, <2>3, <2>6, <2>7 DEF Position
  <2> QED
    BY <2>1, <2>8
<1> QED
  BY <1>1, <1>2

(* A command's first call.                                                 *)
LEMMA EvalPosition ==
    ASSUME ConsoleInv,
           \/ \E ops \in Listing : Eval(ops, NoName)
           \/ \E n \in Name : Eval(prompt_command_peers, n)
    PROVE  Position(pr')
<1>1. pr \in PromptRecord
  BY DEF ConsoleInv, Position
<1>2. CASE \E ops \in Listing : Eval(ops, NoName)
  <2>1. PICK ops \in Listing : Eval(ops, NoName)
    BY <1>2
  <2>2. ops \in Seq({"hash", "clients"})
    <3>1. /\ <<"hash">> \in Seq({"hash", "clients"})
          /\ <<"clients">> \in Seq({"hash", "clients"})
      OBVIOUS
    <3>2. <<"hash">> \o <<"clients">> \in Seq({"hash", "clients"})
      BY <3>1, ConcatProperties
    <3>3. ops \in {<<"clients">>, <<"hash">>, <<"hash">> \o <<"clients">>}
      BY ConsoleAssumption
         DEF Listings, prompt_command_client, prompt_command_file, prompt_command_ls
    <3> QED
      BY <3>1, <3>2, <3>3
  <2> DEFINE p == [pr EXCEPT !.rest = ops]
             q == Done(p)
  <2>3. p.rest = ops
    BY <1>1 DEF PromptRecord
  <2> HIDE DEF p
  <2>4. Position(q) /\ q.op # "name"
    BY <2>2, <2>3, DonePosition
  <2>5. pr' = [q EXCEPT !.name = NoName]
    BY <2>1 DEF Eval, p
  <2> HIDE DEF q
  <2>6. /\ pr' \in PromptRecord /\ pr'.op = q.op /\ pr'.pc = q.pc
        /\ pr'.l = q.l /\ pr'.f = q.f
    BY <2>4, <2>5 DEF Position, PromptRecord
  <2>7. pr'.j = q.j /\ pr'.n = q.n
    BY <2>4, <2>5 DEF Position, PromptRecord
  <2> QED
    BY <2>4, <2>6, <2>7 DEF Position
<1>3. CASE \E n \in Name : Eval(prompt_command_peers, n)
  <2>1. PICK n \in Name : Eval(prompt_command_peers, n)
    BY <1>3
  <2> DEFINE p == [pr EXCEPT !.rest = <<"name">>]
             q == Done(p)
  <2>2. p.rest = <<"name">>
    BY <1>1 DEF PromptRecord
  <2>3. Head(<<"name">>) = "name" /\ Tail(<<"name">>) = <<>> /\ <<"name">> # <<>>
    OBVIOUS
  <2> HIDE DEF p
  <2>4. q = [AtPrompt EXCEPT !.pc = "lock", !.op = "name", !.rest = <<>>]
    BY <2>2, <2>3 DEF Done
  <2>5. pr' = [q EXCEPT !.name = n]
    BY <2>1 DEF Eval, p, prompt_command_peers
  <2>6. AtPrompt \in PromptRecord /\ AtPrompt.n = 0
    BY PositionStart DEF Position, AtPrompt
  <2>7. <<>> \in Seq({"hash", "clients"})
    OBVIOUS
  <2>8. q \in PromptRecord
    BY <2>4, <2>6, <2>7 DEF PromptRecord
  <2>9. q.op = "name" /\ q.pc = "lock"
    BY <2>4, <2>6 DEF PromptRecord
  <2>10. q.n = 0
    BY <2>4, <2>6 DEF PromptRecord
  <2> HIDE DEF q
  <2>11. /\ pr' \in PromptRecord /\ pr'.op = "name" /\ pr'.pc = "lock"
         /\ pr'.name = n
    BY <2>5, <2>8, <2>9 DEF PromptRecord
  <2>12. pr'.n = 0
    BY <2>5, <2>8, <2>10 DEF PromptRecord
  <2> QED
    BY <2>11, <2>12 DEF Position
<1> QED
  BY <1>2, <1>3

(* What a call reads.                                                      *)
LEMMA ReadPosition ==
    ASSUME ConsoleInv, PromptRead
    PROVE  Position(pr') /\ (pr.op = "peers" => pr'.f = pr.f)
<1>1. pr \in PromptRecord /\ pr.pc = "in" /\ Position(pr)
  BY DEF ConsoleInv, Position, PromptRead, ReadClients, ReadFiles, ReadName,
         ReadKey, ReadList, ReadPeers, Read, Prompting
<1>2. CASE ReadClients
  <2>1. pr' = [pr EXCEPT !.snap = clients, !.pc = "unlock"] /\ pr.op = "clients"
    BY <1>2 DEF ReadClients, Read
  <2>2. clients \subseteq Client
    BY DEF ConsoleInv, HandlersOK
  <2>3. pr' \in PromptRecord /\ pr'.op = "clients" /\ pr'.l = pr.l
    BY <1>1, <2>1, <2>2 DEF PromptRecord
  <2>4. pr'.n = pr.n
    BY <1>1, <2>1 DEF PromptRecord
  <2> QED
    BY <1>1, <2>1, <2>3, <2>4 DEF Position
<1>3. CASE ReadFiles \/ ReadPeers
  <2>1. pr' = [pr EXCEPT !.pc = "unlock"] /\ pr.op \in {"hash", "peers"}
    BY <1>3 DEF ReadFiles, ReadPeers, Read
  <2>2. pr' \in PromptRecord /\ pr'.op = pr.op /\ pr'.l = pr.l /\ pr'.f = pr.f
    BY <1>1, <2>1 DEF PromptRecord
  <2>3. pr'.n = pr.n
    BY <1>1, <2>1 DEF PromptRecord
  <2> QED
    BY <1>1, <2>1, <2>2, <2>3 DEF Position
<1>4. CASE ReadName
  <2>1. pr.op = "name" /\ pr.name \in Name /\ pr.n = 0
    BY <1>1, <1>4 DEF ReadName, Position
  <2>2. file_by_name[pr.name] \subseteq File
    BY <2>1 DEF ConsoleInv, FilesOK
  <2>3. PICK l \in File \cup {0} : pr' = [pr EXCEPT !.l = l, !.pc = "unlock"]
    <3>1. CASE \E l \in file_by_name[pr.name] : Read([pr EXCEPT !.l = l])
      BY <2>2, <3>1 DEF Read
    <3>2. CASE Read(pr)
      <4>1. pr' = [pr EXCEPT !.pc = "unlock"]
        BY <3>2 DEF Read
      <4>2. pr.l \in File \cup {0}
        BY <1>1 DEF PromptRecord
      <4>3. [pr EXCEPT !.pc = "unlock"] = [pr EXCEPT !.l = pr.l, !.pc = "unlock"]
        BY <1>1 DEF PromptRecord
      <4> QED
        BY <4>1, <4>2, <4>3
    <3> QED
      BY <1>4, <3>1, <3>2 DEF ReadName
  <2>4. pr' \in PromptRecord /\ pr'.op = "name" /\ pr'.name = pr.name
    BY <1>1, <2>1, <2>3 DEF PromptRecord
  <2>5. pr'.n = 0
    BY <1>1, <2>1, <2>3 DEF PromptRecord
  <2> QED
    BY <2>1, <2>4, <2>5 DEF Position
<1>5. CASE ReadKey
  <2>1. PICK f \in File \cup {0} : pr' = [pr EXCEPT !.f = f, !.pc = "unlock"]
    BY <1>5 DEF ReadKey, Read, ConsoleInv, FilesOK
  <2>2. pr.op = "key"
    BY <1>5 DEF ReadKey
  <2>3. pr' \in PromptRecord /\ pr'.op = "key" /\ pr'.l = pr.l
    BY <1>1, <2>1, <2>2 DEF PromptRecord
  <2>4. pr'.n = pr.n
    BY <1>1, <2>1 DEF PromptRecord
  <2> QED
    BY <1>1, <2>2, <2>3, <2>4 DEF Position
<1>6. CASE ReadList
  <2>1. pr' = [pr EXCEPT !.f = lists[pr.l][pr.j], !.pc = "unlock"] /\ pr.op = "list"
    BY <1>6 DEF ReadList, Read
  <2>2. pr.j \in Nat /\ pr.n \in Nat /\ pr.j >= 1 /\ pr.j <= pr.n
    BY <1>1, <2>1 DEF Position, PromptRecord
  <2>3. pr.l \in File /\ pr.n <= Len(lists[pr.l])
    <3>1. pr.n # 0
      BY <2>2
    <3> QED
      BY <1>1, <3>1 DEF Position
  <2>4. lists[pr.l] \in Seq(File)
    BY <2>3 DEF ConsoleInv, FilesOK
  <2>5. pr.j \in 1..Len(lists[pr.l])
    BY <2>2, <2>3, <2>4
  <2>6. lists[pr.l][pr.j] \in File
    BY <2>4, <2>5
  <2>7. pr' \in PromptRecord /\ pr'.op = "list" /\ pr'.l = pr.l /\ pr'.f \in File
    BY <1>1, <2>1, <2>6 DEF PromptRecord
  <2>8. pr'.n = pr.n /\ pr'.j = pr.j
    BY <1>1, <2>1 DEF PromptRecord
  <2> QED
    BY <1>1, <2>1, <2>7, <2>8 DEF Position
<1> QED
  BY <1>2, <1>3, <1>4, <1>5, <1>6
     DEF PromptRead, ReadClients, ReadFiles, ReadName, ReadKey, ReadList

(* Where the end of a call leads.                                          *)
LEMMA UnlockPosition ==
    ASSUME ConsoleInv, PromptUnlock
    PROVE  Position(pr')
<1>1. pr \in PromptRecord /\ pr.pc = "unlock" /\ Position(pr) /\ pr' = AfterCall
  BY DEF ConsoleInv, Position, PromptUnlock, Prompting
<1>2. pr.rest \in Seq({"hash", "clients"})
  BY <1>1 DEF PromptRecord
<1>3. pr.j \in Nat /\ pr.n \in Nat
  BY <1>1 DEF PromptRecord
<1>4. pr.n # 0 => pr.l \in File /\ pr.n <= Len(lists[pr.l])
  BY <1>1 DEF Position
<1>5. ASSUME NEW o \in {"peers", "key"}, pr' = [pr EXCEPT !.op = o, !.pc = "lock"],
             o = "peers" => pr.f \in File
      PROVE  Position(pr')
  <2>1. /\ pr' \in PromptRecord /\ pr'.op = o /\ pr'.l = pr.l /\ pr'.f = pr.f
    BY <1>1, <1>5 DEF PromptRecord
  <2>2. pr'.n = pr.n
    BY <1>1, <1>5 DEF PromptRecord
  <2> QED
    BY <1>4, <1>5, <2>1, <2>2 DEF Position
<1>6. CASE pr.op = "clients"
  <2>1. pr' = [pr EXCEPT !.pc = "print"]
    BY <1>1, <1>6 DEF AfterCall
  <2>2. pr' \in PromptRecord /\ pr'.op = "clients" /\ pr'.l = pr.l
    BY <1>1, <1>6, <2>1 DEF PromptRecord
  <2>3. pr'.n = pr.n
    BY <1>1, <2>1 DEF PromptRecord
  <2> QED
    BY <1>4, <2>2, <2>3 DEF Position
<1>7. CASE pr.op = "hash"
  <2>1. pr' = Done(pr)
    BY <1>1, <1>7 DEF AfterCall
  <2> QED
    BY <1>2, <2>1, DonePosition
<1>8. CASE pr.op = "name"
  <2>1. CASE pr.l = 0
    <3>1. pr' = [pr EXCEPT !.op = "key", !.pc = "lock"]
      BY <1>1, <1>8, <2>1 DEF AfterCall
    <3> QED
      BY <1>5, <3>1
  <2>2. CASE pr.l # 0
    <3>1. pr.l \in File
      BY <1>1, <2>2 DEF PromptRecord
    <3>2. Len(lists[pr.l]) \in Nat
      BY <3>1 DEF ConsoleInv, FilesOK
    <3>3. PICK n \in Nat : n = Len(lists[pr.l])
      BY <3>2
    <3> DEFINE p == [pr EXCEPT !.n = n]
    <3>4. pr' = NextFile(p)
      BY <1>1, <1>8, <2>2, <3>3 DEF AfterCall
    <3>5. p \in PromptRecord /\ p.l = pr.l
      BY <1>1 DEF PromptRecord
    <3>6. p.j = pr.j /\ p.n = n
      BY <1>1 DEF PromptRecord
    <3> HIDE DEF p
    <3>7. p.j \in Nat /\ p.n \in Nat /\ p.l \in File /\ p.n <= Len(lists[p.l])
      BY <1>3, <3>1, <3>3, <3>5, <3>6
    <3> QED
      BY <3>4, <3>5, <3>7, NextPosition
  <2> QED
    BY <2>1, <2>2
<1>9. CASE pr.op = "list"
  <2>1. pr' = [pr EXCEPT !.op = "peers", !.pc = "lock"]
    BY <1>1, <1>9 DEF AfterCall
  <2>2. pr.f \in File
    BY <1>1, <1>9 DEF Position
  <2> QED
    BY <1>5, <2>1, <2>2
<1>10. CASE pr.op = "key"
  <2>1. CASE pr.f = 0
    <3>1. pr' = Done(pr)
      BY <1>1, <1>10, <2>1 DEF AfterCall
    <3> QED
      BY <1>2, <3>1, DonePosition
  <2>2. CASE pr.f # 0
    <3>1. pr' = [pr EXCEPT !.op = "peers", !.pc = "lock"]
      BY <1>1, <1>10, <2>2 DEF AfterCall
    <3>2. pr.f \in File
      BY <1>1, <2>2 DEF PromptRecord
    <3> QED
      BY <1>5, <3>1, <3>2
  <2> QED
    BY <2>1, <2>2
<1>11. CASE pr.op = "peers"
  <2>1. pr' = NextFile(pr)
    BY <1>1, <1>11 DEF AfterCall
  <2> QED
    BY <1>1, <1>3, <1>4, <2>1, NextPosition
<1>12. pr.op \in {"clients", "hash", "name", "key", "list", "peers"}
  BY <1>1 DEF Position, PromptRecord
<1> QED
  BY <1>6, <1>7, <1>8, <1>9, <1>10, <1>11, <1>12

(* The other steps of the prompt.                                          *)
LEMMA OtherPosition ==
    ASSUME ConsoleInv, Quit \/ CtrlC \/ PromptLock \/ NoPeers \/ PrintClient
    PROVE  Position(pr')
<1>1. pr \in PromptRecord /\ Position(pr)
  BY DEF ConsoleInv, Position
<1>2. pr.n # 0 => pr.l \in File /\ pr.n <= Len(lists[pr.l])
  BY <1>1 DEF Position
<1>3. CASE CtrlC
  BY <1>3, PositionStart DEF CtrlC
<1>4. CASE Quit
  <2>1. pr' = [pr EXCEPT !.pc = "exited"] /\ pr.pc = "read"
    BY <1>4 DEF Quit, Prompting
  <2>2. pr' \in PromptRecord /\ pr'.pc = "exited" /\ pr'.op = pr.op
        /\ pr'.name = pr.name /\ pr'.l = pr.l /\ pr'.f = pr.f
    BY <1>1, <2>1 DEF PromptRecord
  <2>3. pr'.n = pr.n /\ pr'.j = pr.j
    BY <1>1, <2>1 DEF PromptRecord
  <2> QED
    BY <1>1, <2>2, <2>3 DEF Position
<1>5. CASE PromptLock
  <2>1. pr' = [pr EXCEPT !.pc = "in"] /\ pr.pc = "lock"
    BY <1>5 DEF PromptLock, Prompting
  <2>2. pr' \in PromptRecord /\ pr'.pc = "in" /\ pr'.op = pr.op
        /\ pr'.name = pr.name /\ pr'.l = pr.l /\ pr'.f = pr.f
    BY <1>1, <2>1 DEF PromptRecord
  <2>3. pr'.n = pr.n /\ pr'.j = pr.j
    BY <1>1, <2>1 DEF PromptRecord
  <2> QED
    BY <1>1, <2>1, <2>2, <2>3 DEF Position
<1>6. CASE NoPeers
  <2>1. pr' = NextFile(pr)
    BY <1>6 DEF NoPeers
  <2>2. pr.j \in Nat /\ pr.n \in Nat
    BY <1>1 DEF PromptRecord
  <2> QED
    BY <1>1, <1>2, <2>1, <2>2, NextPosition
<1>7. CASE PrintClient
  <2>1. CASE pr.snap = {}
    <3>1. pr' = Done(pr)
      BY <1>7, <2>1 DEF PrintClient
    <3>2. pr.rest \in Seq({"hash", "clients"})
      BY <1>1 DEF PromptRecord
    <3> QED
      BY <3>1, <3>2, DonePosition
  <2>2. CASE pr.snap # {}
    <3>1. PICK c : pr' = [pr EXCEPT !.snap = @ \ {c}]
      BY <1>7, <2>2 DEF PrintClient
    <3>2. pr.snap \ {c} \subseteq Client /\ pr.pc = "print"
      BY <1>1, <1>7 DEF PromptRecord, PrintClient, Prompting
    <3>3. pr' \in PromptRecord /\ pr'.pc = pr.pc /\ pr'.op = pr.op
          /\ pr'.name = pr.name /\ pr'.l = pr.l /\ pr'.f = pr.f
      BY <1>1, <3>1, <3>2 DEF PromptRecord
    <3>4. pr'.n = pr.n /\ pr'.j = pr.j
      BY <1>1, <3>1 DEF PromptRecord
    <3> QED
      BY <1>1, <3>3, <3>4 DEF Position
  <2> QED
    BY <2>1, <2>2
<1> QED
  BY <1>3, <1>4, <1>5, <1>6, <1>7

(* The prompt waiting where it was while a list grows under it.            *)
LEMMA PositionGrows ==
    ASSUME ConsoleInv, pr' = pr,
           \A l \in File : Len(lists'[l]) \in Nat /\ Len(lists[l]) <= Len(lists'[l])
    PROVE  Position(pr)'
<1>1. Position(pr)
  BY DEF ConsoleInv
<1>2. pr.n # 0 => pr.l \in File /\ pr.n <= Len(lists'[pr.l])
  <2> SUFFICES ASSUME pr.n # 0 PROVE pr.l \in File /\ pr.n <= Len(lists'[pr.l])
    OBVIOUS
  <2>1. pr.l \in File /\ pr.n <= Len(lists[pr.l]) /\ pr.n \in Nat
    BY <1>1 DEF Position, PromptRecord
  <2>2. Len(lists[pr.l]) \in Nat
    BY <2>1 DEF ConsoleInv, FilesOK
  <2> QED
    BY <2>1, <2>2
<1>3. /\ pr \in PromptRecord
      /\ pr.pc \in {"lock", "in", "unlock"} => pr.op # ""
      /\ pr.op = "name" => pr.name \in Name /\ pr.n = 0
      /\ pr.op = "list" => pr.j >= 1 /\ pr.j <= pr.n
      /\ pr.op = "list" /\ pr.pc = "unlock" => pr.f \in File
      /\ pr.op = "peers" => pr.f \in File
  BY <1>1 DEF Position
<1> QED
  BY <1>2, <1>3 DEF Position

(* A handler's step.                                                       *)
LEMMA HandlerKeeps ==
    ASSUME ConsoleInv, NEW c \in Client, Handler(c) \/ Request(c)
    PROVE  ConsoleInv'
<1>1. Life(c) \/ Registers(c)
  BY DEF Handler, Request, Life, Registers
<1>2. (HandlersOK /\ FilesOK /\ HistoryOK)' /\ (HeapInv /\ JoinInv /\ NameInv)'
  BY <1>1, LifeKeeps, RegistersTypes, RegistersNames
<1>3. /\ pr' = pr /\ held' = held /\ leaked' = leaked
      /\ fault' = fault /\ victim' = victim /\ fault = ""
  BY <1>1 DEF Life, Registers, ClientCreate, DeleteClient, ClientFree,
         RemoveFromFile, AnnounceNew, AnnounceKnown, NameFound, NameNotFound,
         MakeList, ListAdd, Join, promptVars, At, Running
<1>4. \A l \in File : Len(lists'[l]) \in Nat /\ Len(lists[l]) <= Len(lists'[l])
  <2> TAKE l \in File
  <2>1. lists[l] \in Seq(File) /\ lists'[l] \in Seq(File)
    BY <1>2 DEF ConsoleInv, FilesOK
  <2>2. lists'[l] = lists[l] \/ ListAdd(c)
    BY <1>1 DEF Life, Registers, ClientCreate, DeleteClient, ClientFree,
           RemoveFromFile, AnnounceNew, AnnounceKnown, NameFound, NameNotFound,
           MakeList, Join, fileVars
  <2>3. CASE ListAdd(c)
    <3>1. pc[c] = "add" /\ lists' = [lists EXCEPT ![list[c]] = <<file[c]>> \o @]
      BY <2>3 DEF ListAdd, At
    <3>2. file[c] \in File
      BY <3>1 DEF ConsoleInv, NameInv, FilesOK, Registering
    <3>3. PICK f \in File : f = file[c]
      BY <3>2
    <3>4. lists'[l] = lists[l] \/ lists'[l] = <<f>> \o lists[l]
      BY <3>1, <3>3 DEF ConsoleInv, FilesOK
    <3>5. Len(<<f>> \o lists[l]) = Len(lists[l]) + 1
      BY <2>1, Prepended
    <3>6. Len(lists[l]) \in Nat
      BY <2>1
    <3> QED
      BY <3>4, <3>5, <3>6
  <2> QED
    BY <2>1, <2>2, <2>3
<1>5. Position(pr)'
  BY <1>3, <1>4, PositionGrows
<1>6. (leaked \subseteq held)'
  BY <1>3 DEF ConsoleInv
<1>7. FreedHasCause'
  BY <1>3 DEF FreedHasCause
<1> QED
  BY <1>2, <1>5, <1>6, <1>7 DEF ConsoleInv

(* A freed client the prompt meets has left the table, or the file knows   *)
(* it only from lists the client has replaced.                             *)
LEMMA FreedMet ==
    ASSUME ConsoleInv, PromptStep, UNCHANGED <<clients, forgot>>
    PROVE  FreedHasCause'
<1>1. fault = ""
  BY DEF PromptStep, PromptRead, Quit, CtrlC, PromptLock, NoPeers, PromptUnlock,
         PrintClient, ReadClients, ReadFiles, ReadName, ReadKey, ReadList,
         ReadPeers, Read, Eval, Prompting, Running
<1>2. CASE NoFault
  BY <1>1, <1>2 DEF NoFault, FreedHasCause
<1>3. CASE \E c \in pr.snap : PrintClient /\ Follow("clients", c) /\ ~NoFault
  <2>1. PICK c \in pr.snap : PrintClient /\ Follow("clients", c) /\ ~NoFault
    BY <1>3
  <2>2. heap[c] = "freed" /\ fault' = "clients" /\ victim' = c
    BY <2>1 DEF Follow
  <2>3. c \notin clients
    BY <2>2 DEF ConsoleInv, HeapInv
  <2> QED
    BY <2>2, <2>3 DEF FreedHasCause
<1>4. CASE ReadPeers /\ ~NoFault
  <2>1. PICK c \in peers[pr.f] : heap[c] = "freed" /\ Follow("peers", c)
    BY <1>4 DEF ReadPeers
  <2>2. fault' = "peers" /\ victim' = c
    BY <2>1 DEF Follow
  <2>3. pr.op = "peers" /\ PromptRead
    BY <1>4 DEF ReadPeers, PromptRead
  <2>4. pr.f \in File /\ pr'.f = pr.f
    BY <2>3, ReadPosition DEF ConsoleInv, Position
  <2>5. c \in Client
    BY <2>1, <2>4 DEF ConsoleInv, FilesOK
  <2>6. pc[c] = "gone" /\ files_seed[c] = {}
    BY <2>1, <2>5 DEF ConsoleInv, HeapInv
  <2>7. c \in forgot[pr.f]
    BY <2>1, <2>4, <2>6 DEF ConsoleInv, JoinInv
  <2> QED
    BY <2>2, <2>4, <2>7 DEF FreedHasCause
<1>5. NoFault \/ ReadPeers \/ PrintClient
  BY DEF PromptStep, PromptRead, Quit, CtrlC, PromptLock, NoPeers, PromptUnlock,
         ReadClients, ReadFiles, ReadName, ReadKey, ReadList, Eval
<1>6. PrintClient => NoFault \/ \E c \in pr.snap : Follow("clients", c)
  BY DEF PrintClient
<1> QED
  BY <1>2, <1>3, <1>4, <1>5, <1>6

(* A step of the prompt.                                                   *)
LEMMA PromptKeeps ==
    ASSUME ConsoleInv, PromptStep
    PROVE  ConsoleInv'
<1>1. PromptAlone
  BY DEF PromptStep, PromptRead, Quit, CtrlC, PromptLock, NoPeers, PromptUnlock,
         PrintClient, ReadClients, ReadFiles, ReadName, ReadKey, ReadList,
         ReadPeers, Read, Eval
<1>2. (HandlersOK /\ FilesOK /\ HistoryOK)' /\ (HeapInv /\ JoinInv /\ NameInv)'
  BY <1>1, TablesKept
<1>3. UNCHANGED <<clients, forgot, lists>>
  BY <1>1 DEF PromptAlone, clientVars, fileVars
<1>4. FreedHasCause'
  BY <1>3, FreedMet
<1>5. Position(pr')
  BY EvalPosition, ReadPosition, UnlockPosition, OtherPosition DEF PromptStep
<1>6. Position(pr)'
  BY <1>3, <1>5 DEF Position
<1>7. leaked' \subseteq held'
  <2>1. leaked \subseteq held
    BY DEF ConsoleInv
  <2>2. CASE CtrlC
    BY <2>2 DEF CtrlC
  <2>3. CASE PromptLock
    BY <2>1, <2>3 DEF PromptLock
  <2>4. CASE PromptUnlock
    BY <2>1, <2>4 DEF PromptUnlock
  <2>5. CASE ~(CtrlC \/ PromptLock \/ PromptUnlock)
    <3>1. held' = held /\ leaked' = leaked
      BY <2>5 DEF PromptStep, PromptRead, Quit, NoPeers, PrintClient, ReadClients,
             ReadFiles, ReadName, ReadKey, ReadList, ReadPeers, Read, Eval
    <3> QED
      BY <2>1, <3>1
  <2> QED
    BY <2>2, <2>3, <2>4, <2>5
<1> QED
  BY <1>2, <1>4, <1>6, <1>7 DEF ConsoleInv

(* Every step.                                                             *)
LEMMA ConsoleKeeps == ConsoleInv /\ [Next]_vars => ConsoleInv'
<1> SUFFICES ASSUME ConsoleInv, [Next]_vars PROVE ConsoleInv'
  OBVIOUS
<1>1. CASE \E c \in Client : Handler(c) \/ Request(c)
  BY <1>1, HandlerKeeps
<1>2. CASE Command \/ Prompt
  <2>1. PromptStep
    BY <1>2 DEF Command, Prompt, PromptStep, PromptRead
  <2> QED
    BY <2>1, PromptKeeps
<1>3. CASE UNCHANGED vars
  <2>1. PromptAlone /\ UNCHANGED <<pr, held, leaked, fault, victim>>
    BY <1>3 DEF vars, PromptAlone, promptVars
  <2>2. (HandlersOK /\ FilesOK /\ HistoryOK)' /\ (HeapInv /\ JoinInv /\ NameInv)'
    BY <2>1, TablesKept
  <2>3. UNCHANGED <<clients, forgot, lists>>
    BY <2>1 DEF PromptAlone, clientVars, fileVars
  <2>4. Position(pr)' /\ (leaked \subseteq held)' /\ FreedHasCause'
    BY <2>1, <2>3 DEF ConsoleInv, Position, FreedHasCause
  <2> QED
    BY <2>2, <2>4 DEF ConsoleInv
<1> QED
  BY <1>1, <1>2, <1>3 DEF Next

LEMMA ConsoleSafe == Spec => []ConsoleInv
<1>1. Init => ConsoleInv
  BY ConsoleStarts
<1>2. ConsoleInv /\ [Next]_vars => ConsoleInv'
  BY ConsoleKeeps
<1> QED
  BY <1>1, <1>2, PTL DEF Spec
-----------------------------------------------------------------------------
(* The variables keep their ranges, and a lock a jump left behind stays    *)
(* locked.                                                                 *)
THEOREM ConsoleTypes == Spec => []TypeOK
<1>1. ConsoleInv => TypeOK
  BY DEF ConsoleInv, HandlersOK, FilesOK, TypeOK, Registering
<1> QED
  BY <1>1, ConsoleSafe, PTL

(* print_client_list meets a freed client only after the client has left   *)
(* the table it was copied from; file_print_peer_list only in a file that  *)
(* the client announced before it replaced its lists.                      *)
THEOREM FreedClientsHaveLeft == Spec => []FreedHasCause
<1>1. ConsoleInv => FreedHasCause
  BY DEF ConsoleInv
<1> QED
  BY <1>1, ConsoleSafe, PTL

(* file_get_by_name finds every file registered under a name, unless two   *)
(* handlers made a list for the name between the lookup and the insertion. *)
THEOREM NamesAreFound == Spec => []FoundByName
<1>1. ConsoleInv => FoundByName
  <2> SUFFICES ASSUME ConsoleInv, NEW f \in file_by_hash,
                      \A c \in Client :
                        pc[c] \in {"name", "make", "add"} => file[c] # f
               PROVE  /\ \E l \in file_by_name[nameOf[f]] : Holds(l, f)
                      /\ \/ nameOf[f] \in raced
                         \/ \A l \in file_by_name[nameOf[f]] : Holds(l, f)
    BY DEF FoundByName
  <2>1. \E l \in file_by_name[nameOf[f]] : Holds(l, f)
    BY DEF ConsoleInv, NameInv, Arriving
  <2>2. nameOf[f] \in Name
    BY DEF ConsoleInv, NameInv
  <2>3. nameOf[f] \notin raced =>
           \A l, m \in file_by_name[nameOf[f]] : l = m
    BY <2>2 DEF ConsoleInv, NameInv
  <2> QED
    BY <2>1, <2>3
<1> QED
  BY <1>1, ConsoleSafe, PTL
=============================================================================
