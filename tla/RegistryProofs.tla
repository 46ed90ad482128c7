---------------------------- MODULE RegistryProofs ---------------------------
(***************************************************************************)
(* The safety invariants of the registry, for every set of clients, hashes *)
(* and addresses, whoever shares an address, and every bound.              *)
(***************************************************************************)
EXTENDS Registry, TLAPS

(* What a handler has left to do is made of hashes while it parses and of  *)
(* files afterwards, and a client is freed by its own thread only.         *)
Phases ==
    \A c \in Client :
        /\ pc[c] \in {"seed", "create", "leech"} => todo[c] \subseteq Hash
        /\ pc[c] \in {"add", "free"} => todo[c] \subseteq File
        /\ pc[c] = "create" => cur[c] \in Hash
        /\ pc[c] # "idle" => heap[c] = "live"

(* A file is registered under its own hash, and only files that exist are  *)
(* registered or listed.                                                   *)
Registered ==
    /\ \A h \in Hash : \A f \in file_by_hash[h] : f <= nfile /\ fhash[f] = h
    /\ \A c \in Client : \A f \in Lists(c) :
          f <= nfile /\ fhash[f] \in Hash /\ f \in file_by_hash[fhash[f]]

(* An address is announced, and stands in a file's table, only for a       *)
(* client that may announce it.                                            *)
Addresses ==
    /\ \A c \in Client : listen_addr_key[c] \in AddrOf[c] \cup {NoAddr}
    /\ \A f \in File, a \in Addr :
          clients[f][a] # NoClient => a \in AddrOf[clients[f][a]]

RegistryInv == TypeOK /\ Phases /\ Registered /\ Addresses

(* A client that has added some of its files is led to from those, and a   *)
(* client on its way out leaves files of its lists only.                   *)
AddedIsFound ==
    \A c \in Client :
        /\ heap[c] = "live" /\ pc[c] \in {"idle", "add"}
        /\ listen_addr_key[c] # NoAddr
        => \A f \in Lists(c) : (pc[c] = "add" /\ f \in todo[c]) \/ LedTo(c, f)

LeavesItsOwn == \A c \in Client : pc[c] = "free" => todo[c] \subseteq Lists(c)

(* A client that has been taken off some of its files is off those.        *)
RemovedIsGone ==
    \A c \in Client :
        heap[c] = "freed" \/ pc[c] = "free"
        => \A f \in Lists(c) :
              \/ pc[c] = "free" /\ f \in todo[c]
              \/ listen_addr_key[c] = NoAddr
              \/ clients[f][listen_addr_key[c]] # c

Found == AddedIsFound /\ LeavesItsOwn /\ RemovedIsGone

(* As long as no two handlers have created a hash at once, it has one file *)
(* at most, and none while the only handler that creates it is at it.      *)
OneFile ==
    \A h \in Hash : h \notin raced =>
        /\ \A f, g \in file_by_hash[h] : f = g
        /\ \A c \in Client : cur[c] = h =>
              /\ file_by_hash[h] = {}
              /\ \A d \in Client : cur[d] = h => d = c
-----------------------------------------------------------------------------
(* The empty registry.                                                     *)
LEMMA RegistryStart == Init => RegistryInv /\ Found /\ OneFile
<1>1. Init => RegistryInv
  BY RegistryAssumption
  DEF Init, RegistryInv, TypeOK, Phases, Registered, Addresses, Lists, NoPeers,
      File
<1>2. Init => Found
  BY DEF Init, Found, AddedIsFound, LeavesItsOwn, RemovedIsGone, Lists
<1>3. Init => OneFile
  BY RegistryAssumption DEF Init, OneFile
<1> QED
  BY <1>1, <1>2, <1>3

(* The parts of the invariant that an action leaves alone.                 *)
LEMMA RegistryStutter ==
    ASSUME RegistryInv, UNCHANGED vars
    PROVE  RegistryInv'
  BY DEF RegistryInv, TypeOK, Phases, Registered, Addresses, Lists, vars,
         fileVars, clientVars, thrVars

(* A request is parsed: the old lists go, with or without a new address.   *)
LEMMA ParseTypes ==
    ASSUME RegistryInv, NEW c \in Client,
           NEW seeds \in SUBSET Hash, NEW leeches \in SUBSET Hash,
           Parse(c, seeds, leeches), UNCHANGED <<fileVars, heap, cur, raced, fault>>,
           \/ UNCHANGED listen_addr_key
           \/ \E addr \in AddrOf[c] : client_set_listening_port(c, addr)
    PROVE  RegistryInv'
<1>1. TypeOK'
  <2>1. listen_addr_key' \in [Client -> Addr \cup {NoAddr}]
    BY RegistryAssumption
    DEF RegistryInv, TypeOK, client_set_listening_port
  <2>2. /\ pc' = [pc EXCEPT ![c] = "seed"]
        /\ files_seed' = [files_seed EXCEPT ![c] = {}]
        /\ files_leech' = [files_leech EXCEPT ![c] = {}]
        /\ todo' = [todo EXCEPT ![c] = seeds]
        /\ leech_req' = [leech_req EXCEPT ![c] = leeches]
    BY DEF Parse, Goto
  <2>3. nreq' \in [Client -> 0..MaxReq]
    BY RegistryAssumption DEF RegistryInv, TypeOK, Parse
  <2> QED
    BY <2>1, <2>2, <2>3 DEF RegistryInv, TypeOK, fileVars
<1>2. Phases'
  BY DEF RegistryInv, TypeOK, Phases, Parse, At, Goto
<1>3. Registered'
  BY DEF RegistryInv, TypeOK, Registered, Lists, Parse, fileVars
<1>4. Addresses'
  BY DEF RegistryInv, TypeOK, Addresses, client_set_listening_port, fileVars
<1> QED
  BY <1>1, <1>2, <1>3, <1>4 DEF RegistryInv

(* Every step keeps the types, the phases, the registration and the        *)
(* addresses.                                                              *)
LEMMA RegistryStep ==
    ASSUME RegistryInv, NEW c \in Client, Step(c)
    PROVE  RegistryInv'
<1> USE DEF At, Goto
<1>1. CASE \E seeds, leeches \in SUBSET Hash :
              \/ \E addr \in AddrOf[c] : Announce(c, addr, seeds, leeches)
              \/ Update(c, seeds, leeches)
  BY <1>1, ParseTypes DEF Announce, Update
<1>2. CASE \E h \in Hash, f \in File : SeedFound(c, h, f)
  <2>1. PICK h \in Hash, f \in File : SeedFound(c, h, f)
    BY <1>2
  <2>2. TypeOK' /\ Phases' /\ Addresses'
    BY <2>1 DEF RegistryInv, TypeOK, Phases, Addresses, SeedFound, fileVars
  <2>3. Registered'
    BY <2>1 DEF RegistryInv, TypeOK, Registered, Lists, SeedFound, fileVars
  <2> QED
    BY <2>2, <2>3 DEF RegistryInv
<1>3. CASE \E h \in Hash : SeedNotFound(c, h)
  <2>1. PICK h \in Hash : SeedNotFound(c, h)
    BY <1>3
  <2>2. TypeOK' /\ Phases' /\ Addresses'
    BY <2>1 DEF RegistryInv, TypeOK, Phases, Addresses, SeedNotFound, fileVars,
                clientVars
  <2>3. Registered'
    BY <2>1 DEF RegistryInv, Registered, Lists, SeedNotFound, fileVars,
                clientVars
  <2> QED
    BY <2>2, <2>3 DEF RegistryInv
<1>4. CASE \E h \in Hash : Leech(c, h)
  <2>1. PICK h \in Hash : Leech(c, h)
    BY <1>4
  <2>2. TypeOK'
    <3>1. files_leech' \in [Client -> SUBSET File]
      BY <2>1 DEF RegistryInv, TypeOK, Leech
    <3> QED
      BY <2>1, <3>1 DEF RegistryInv, TypeOK, Leech, fileVars
  <2>4. Phases' /\ Addresses'
    BY <2>1 DEF RegistryInv, TypeOK, Phases, Addresses, Leech, fileVars
  <2>3. Registered'
    BY <2>1 DEF RegistryInv, TypeOK, Registered, Lists, Leech, fileVars
  <2> QED
    BY <2>2, <2>3, <2>4 DEF RegistryInv
<1>5. CASE FileNew(c)
  <2>1. /\ nfile + 1 \in File /\ nfile \in Nat /\ cur[c] \in Hash
        /\ fhash' = [fhash EXCEPT ![nfile + 1] = cur[c]] /\ nfile' = nfile + 1
        /\ file_by_hash' =
              [file_by_hash EXCEPT ![cur[c]] = @ \cup {nfile + 1}]
        /\ files_seed' = [files_seed EXCEPT ![c] = @ \cup {nfile + 1}]
        /\ files_leech' = files_leech
    BY <1>5, RegistryAssumption DEF RegistryInv, TypeOK, Phases, FileNew, File
  <2>2. TypeOK'
    BY <1>5, <2>1, RegistryAssumption DEF RegistryInv, TypeOK, FileNew, File
  <2>3. Phases' /\ Addresses'
    BY <1>5 DEF RegistryInv, TypeOK, Phases, Addresses, FileNew, clientVars
  <2>4. Registered'
    BY <2>1 DEF RegistryInv, TypeOK, Registered, Lists, File
  <2> QED
    BY <2>2, <2>3, <2>4 DEF RegistryInv
<1>6. CASE SeedDone(c) \/ LeechDone(c) \/ WriteOk(c) \/ FileAddUnannounced(c)
           \/ FreeBegin(c) \/ FreeEnd(c) \/ FileNewNoPieces(c)
           \/ \E f \in File : GetfileDangling(c, f)
  <2>1. TypeOK'
    <3>1. CASE SeedDone(c)
      <4>1. leech_req[c] \in SUBSET Hash /\ todo' = [todo EXCEPT ![c] = leech_req[c]]
        BY <3>1 DEF RegistryInv, TypeOK, SeedDone
      <4>2. todo' \in [Client -> SUBSET (Hash \cup File)]
        BY <4>1 DEF RegistryInv, TypeOK
      <4> QED
        BY <3>1, <4>2 DEF RegistryInv, TypeOK, SeedDone, fileVars, clientVars
    <3>4. CASE LeechDone(c) \/ FreeBegin(c)
      <4>1. /\ files_seed[c] \cup files_leech[c] \in SUBSET File
            /\ todo' = [todo EXCEPT ![c] = files_seed[c] \cup files_leech[c]]
        BY <3>4 DEF RegistryInv, TypeOK, LeechDone, FreeBegin
      <4>2. todo' \in [Client -> SUBSET (Hash \cup File)]
        BY <4>1 DEF RegistryInv, TypeOK
      <4>3. pc' \in [Client -> {"idle", "seed", "create", "leech", "add", "free"}]
        BY <3>4 DEF RegistryInv, TypeOK, LeechDone, FreeBegin
      <4> QED
        BY <3>4, <4>2, <4>3
        DEF RegistryInv, TypeOK, LeechDone, FreeBegin, fileVars, clientVars
    <3>2. CASE WriteOk(c) \/ FreeEnd(c)
      BY <3>2 DEF RegistryInv, TypeOK, WriteOk, FreeEnd, fileVars, clientVars
    <3>3. CASE \/ FileAddUnannounced(c) \/ FileNewNoPieces(c)
               \/ \E f \in File : GetfileDangling(c, f)
      BY <3>3 DEF RegistryInv, TypeOK, FileAddUnannounced, FileNewNoPieces,
                  GetfileDangling, fileVars, clientVars, thrVars
    <3> QED
      BY <1>6, <3>1, <3>2, <3>3, <3>4
  <2>2. Phases'
    BY <1>6 DEF RegistryInv, TypeOK, Phases, SeedDone, LeechDone, WriteOk,
                FileAddUnannounced, FileNewNoPieces, FreeBegin, FreeEnd,
                GetfileDangling, fileVars, clientVars, thrVars
  <2>3. Registered' /\ Addresses'
    BY <1>6 DEF RegistryInv, Registered, Addresses, Lists, SeedDone, LeechDone,
                WriteOk, FileAddUnannounced, FileNewNoPieces, FreeBegin,
                FreeEnd, GetfileDangling, fileVars, clientVars
  <2> QED
    BY <2>1, <2>2, <2>3 DEF RegistryInv
<1>7. CASE \E f \in File : FileAddClient(c, f) \/ FileRemoveClient(c, f)
  <2>1. PICK f \in File : FileAddClient(c, f) \/ FileRemoveClient(c, f)
    BY <1>7
  <2>2. TypeOK'
    <3> DEFINE cl == [File -> [Addr -> Client \cup {NoClient}]]
    <3>1. \A g \in File, a \in Addr \cup {NoAddr}, d \in Client \cup {NoClient} :
             clients \in cl => [clients EXCEPT ![g][a] = d] \in cl
      OBVIOUS
    <3>2. clients' \in [File -> [Addr -> Client \cup {NoClient}]]
      <4>1. clients \in cl
        BY DEF RegistryInv, TypeOK
      <4>2. CASE FileRemoveClient(c, f)
        BY <3>1, <4>1, <4>2 DEF FileRemoveClient
      <4>3. CASE FileAddClient(c, f)
        <5> DEFINE old == clients[f][listen_addr_key[c]]
                   new == IF old = NoClient THEN c ELSE old
        <5>1. listen_addr_key[c] \in Addr
          BY <4>3 DEF RegistryInv, TypeOK, FileAddClient
        <5>2. new \in Client \cup {NoClient}
          BY <4>1, <5>1
        <5>3. clients' = [clients EXCEPT ![f][listen_addr_key[c]] = new]
          BY <4>3 DEF FileAddClient
        <5> HIDE DEF new
        <5> QED
          BY <3>1, <4>1, <5>2, <5>3
      <4> QED
        BY <2>1, <4>2, <4>3
    <3>3. /\ todo' = [todo EXCEPT ![c] = @ \ {f}]
          /\ UNCHANGED <<file_by_hash, nfile, fhash, clientVars, pc, leech_req,
                         cur, raced, nreq, fault>>
      BY <2>1 DEF FileAddClient, FileRemoveClient
    <3> QED
      BY <3>2, <3>3 DEF RegistryInv, TypeOK, clientVars
  <2>3. Phases' /\ Registered'
    BY <2>1 DEF RegistryInv, TypeOK, Phases, Registered, Lists, FileAddClient,
                FileRemoveClient, clientVars
  <2>4. Addresses'
    BY <2>1, RegistryAssumption
    DEF RegistryInv, TypeOK, Addresses, FileAddClient, FileRemoveClient,
        clientVars
  <2> QED
    BY <2>2, <2>3, <2>4 DEF RegistryInv
<1> QED
  BY <1>1, <1>2, <1>3, <1>4, <1>5, <1>6, <1>7 DEF Step

(* What holds of the registry whatever the handlers do.                    *)
LEMMA RegistryInvariant == Spec => []RegistryInv
<1>1. RegistryInv /\ [Next]_vars => RegistryInv'
  BY RegistryStep, RegistryStutter DEF Next
<1> QED
  BY <1>1, RegistryStart, PTL DEF Spec

(* Every variable of the registry keeps its range.                         *)
THEOREM RegistryTypes == Spec => []TypeOK
<1>1. RegistryInv => TypeOK
  BY DEF RegistryInv
<1> QED
  BY <1>1, RegistryInvariant, PTL
-----------------------------------------------------------------------------
(* Who is led to, left and gone.  Parsing changes the lists and the address *)
(* of one client, which then is neither settled nor adding.                *)
LEMMA ParseFound ==
    ASSUME RegistryInv, Found, NEW c \in Client,
           NEW seeds, NEW leeches, Parse(c, seeds, leeches),
           UNCHANGED <<fileVars, heap>>,
           \/ UNCHANGED listen_addr_key
           \/ \E addr \in AddrOf[c] : client_set_listening_port(c, addr)
    PROVE  Found'
<1>1. /\ pc' = [pc EXCEPT ![c] = "seed"] /\ pc[c] = "idle" /\ heap[c] = "live"
      /\ files_seed' = [files_seed EXCEPT ![c] = {}]
      /\ files_leech' = [files_leech EXCEPT ![c] = {}]
      /\ heap' = heap /\ clients' = clients
      /\ \A d \in Client \ {c} : /\ todo'[d] = todo[d]
                                 /\ listen_addr_key'[d] = listen_addr_key[d]
  BY DEF RegistryInv, TypeOK, Parse, At, Goto, client_set_listening_port,
         fileVars
<1>2. /\ pc'[c] = "seed" /\ heap'[c] = "live"
      /\ \A d \in Client \ {c} : /\ pc'[d] = pc[d] /\ Lists(d)' = Lists(d)
                                 /\ heap'[d] = heap[d] /\ todo'[d] = todo[d]
                                 /\ listen_addr_key'[d] = listen_addr_key[d]
  BY <1>1 DEF RegistryInv, TypeOK, Lists
<1>3. AddedIsFound'
  <2> SUFFICES ASSUME NEW d \in Client, heap'[d] = "live",
                      pc'[d] \in {"idle", "add"},
                      listen_addr_key'[d] # NoAddr, NEW f \in Lists(d)'
               PROVE  (pc'[d] = "add" /\ f \in todo'[d]) \/ LedTo(d, f)'
    BY DEF AddedIsFound
  <2>1. d # c
    BY <1>2
  <2>2. (pc[d] = "add" /\ f \in todo[d]) \/ LedTo(d, f)
    BY <1>2, <2>1 DEF Found, AddedIsFound
  <2>3. LedTo(d, f) => LedTo(d, f)'
    BY <1>1, <1>2, <2>1 DEF LedTo, TakenOff
  <2> QED
    BY <1>2, <2>1, <2>2, <2>3
<1>4. LeavesItsOwn'
  BY <1>2 DEF Found, LeavesItsOwn
<1>5. RemovedIsGone'
  BY <1>1, <1>2 DEF Found, RemovedIsGone
<1> QED
  BY <1>3, <1>4, <1>5 DEF Found

(* Steps that leave the tables of clients alone, and the lists of every    *)
(* client that is settled, adding, being freed or freed.                   *)
LEMMA ListStepFound ==
    ASSUME RegistryInv, Found, NEW c \in Client,
           UNCHANGED <<clients, heap, listen_addr_key>>,
           heap[c] = "live", pc[c] # "free",
           \A d \in Client \ {c} : /\ pc'[d] = pc[d] /\ Lists(d)' = Lists(d)
                                   /\ todo'[d] = todo[d],
           \/ pc'[c] \notin {"idle", "add", "free"}
           \/ pc'[c] \in {"add", "free"} /\ todo'[c] = Lists(c)'
           \/ /\ pc[c] = "add" /\ todo[c] = {} /\ pc'[c] = "idle"
              /\ Lists(c)' = Lists(c)
    PROVE  Found'
<1>1. \A d \in Client, f \in File : LedTo(d, f) => LedTo(d, f)'
  BY DEF LedTo, TakenOff
<1>2. AddedIsFound'
  <2> SUFFICES ASSUME NEW d \in Client, heap'[d] = "live",
                      pc'[d] \in {"idle", "add"},
                      listen_addr_key'[d] # NoAddr, NEW f \in Lists(d)'
               PROVE  (pc'[d] = "add" /\ f \in todo'[d]) \/ LedTo(d, f)'
    BY DEF AddedIsFound
  <2>1. Lists(d) \subseteq File
    BY DEF RegistryInv, TypeOK, Lists
  <2>2. CASE d # c
    BY <1>1, <2>1, <2>2 DEF Found, AddedIsFound
  <2>3. CASE d = c
    BY <1>1, <2>1, <2>3 DEF Found, AddedIsFound
  <2> QED
    BY <2>2, <2>3
<1>3. LeavesItsOwn'
  BY DEF Found, LeavesItsOwn
<1>4. RemovedIsGone'
  BY DEF Found, RemovedIsGone
<1> QED
  BY <1>2, <1>3, <1>4 DEF Found

(* file_add_client of c fills the entry of c's address if it is empty:     *)
(* whoever it led to is led to still, those who share the address to c.    *)
LEMMA AddFound ==
    ASSUME RegistryInv, Found, NEW c \in Client,
           NEW f \in File, FileAddClient(c, f)
    PROVE  Found'
<1>1. /\ clients' = [clients EXCEPT ![f][listen_addr_key[c]] =
                       IF @ = NoClient THEN c ELSE @]
      /\ todo' = [todo EXCEPT ![c] = todo[c] \ {f}]
      /\ UNCHANGED <<heap, listen_addr_key, files_seed, files_leech, pc>>
      /\ pc[c] = "add" /\ f \in todo[c] /\ listen_addr_key[c] # NoAddr
  BY DEF FileAddClient, At, clientVars
<1>2. /\ clients \in [File -> [Addr -> Client \cup {NoClient}]]
      /\ todo \in [Client -> SUBSET (Hash \cup File)]
      /\ listen_addr_key[c] \in Addr \cap AddrOf[c] /\ heap[c] = "live"
      /\ \A d \in Client : Lists(d) \subseteq File
      /\ \A d \in Client : listen_addr_key[d] \in Addr \cup {NoAddr}
  BY <1>1 DEF RegistryInv, TypeOK, Phases, Addresses, Lists
<1>3. \A d \in Client : /\ Lists(d)' = Lists(d)
                        /\ d # c => todo'[d] = todo[d]
  BY <1>1, <1>2 DEF Lists
<1>4. \A g \in File, a \in Addr :
         clients'[g][a] =
            IF g = f /\ a = listen_addr_key[c] /\ clients[g][a] = NoClient
            THEN c ELSE clients[g][a]
  BY <1>1, <1>2
<1>5. ASSUME NEW d \in Client, NEW g \in File, listen_addr_key[d] # NoAddr
      PROVE  \A e \in Client : TakenOff(e, g, listen_addr_key[d])
                                  => TakenOff(e, g, listen_addr_key[d])'
  BY <1>1, <1>3 DEF TakenOff
<1>6. AddedIsFound'
  <2> SUFFICES ASSUME NEW d \in Client, heap[d] = "live",
                      pc[d] \in {"idle", "add"},
                      listen_addr_key[d] # NoAddr, NEW g \in Lists(d)
               PROVE  (pc[d] = "add" /\ g \in todo'[d]) \/ LedTo(d, g)'
    BY <1>1, <1>3 DEF AddedIsFound
  <2>1. g \in File /\ listen_addr_key[d] \in Addr
    BY <1>2
  <2>2. (pc[d] = "add" /\ g \in todo[d]) \/ LedTo(d, g)
    BY DEF Found, AddedIsFound
  <2>3. ASSUME LedTo(d, g) PROVE LedTo(d, g)'
    <3>1. CASE /\ g = f /\ listen_addr_key[d] = listen_addr_key[c]
               /\ clients[g][listen_addr_key[d]] = NoClient
      <4>1. clients'[g][listen_addr_key[d]] = c
        BY <1>4, <2>1, <3>1
      <4> QED
        BY <1>1, <1>2, <3>1, <4>1 DEF LedTo
    <3>2. CASE ~(/\ g = f /\ listen_addr_key[d] = listen_addr_key[c]
                 /\ clients[g][listen_addr_key[d]] = NoClient)
      <4>1. clients'[g][listen_addr_key[d]] = clients[g][listen_addr_key[d]]
        BY <1>4, <2>1, <3>2
      <4> QED
        BY <1>1, <1>5, <2>1, <2>3, <4>1 DEF LedTo
    <3> QED
      BY <3>1, <3>2
  <2>4. CASE pc[d] = "add" /\ g \in todo[d] /\ ~(d = c /\ g = f)
    BY <1>1, <1>2, <2>4
  <2>5. CASE d = c /\ g = f
    <3>1. CASE clients[f][listen_addr_key[c]] = NoClient
      BY <1>1, <1>2, <1>4, <2>5, <3>1 DEF LedTo
    <3>2. CASE clients[f][listen_addr_key[c]] # NoClient
      <4>1. /\ clients[f][listen_addr_key[c]] \in Client
            /\ listen_addr_key[c] \in AddrOf[clients[f][listen_addr_key[c]]]
        BY <1>2, <3>2 DEF RegistryInv, Addresses
      <4>2. clients'[f][listen_addr_key[c]] = clients[f][listen_addr_key[c]]
        BY <1>2, <1>4, <3>2
      <4> QED
        BY <1>1, <2>5, <4>1, <4>2 DEF LedTo
    <3> QED
      BY <3>1, <3>2
  <2> QED
    BY <2>2, <2>3, <2>4, <2>5
<1>7. LeavesItsOwn'
  BY <1>1, <1>3 DEF Found, LeavesItsOwn
<1>8. RemovedIsGone'
  <2> SUFFICES ASSUME NEW d \in Client, heap[d] = "freed" \/ pc[d] = "free",
                      NEW g \in Lists(d)
               PROVE  \/ pc[d] = "free" /\ g \in todo'[d]
                      \/ listen_addr_key[d] = NoAddr
                      \/ clients'[g][listen_addr_key[d]] # d
    BY <1>1, <1>3 DEF RemovedIsGone
  <2>1. d # c /\ todo'[d] = todo[d]
    BY <1>1, <1>2, <1>3
  <2>2. g \in File /\ listen_addr_key[d] \in Addr \cup {NoAddr}
    BY <1>2
  <2> QED
    BY <1>4, <2>1, <2>2 DEF Found, RemovedIsGone
<1> QED
  BY <1>6, <1>7, <1>8 DEF Found

(* file_remove_client of c empties the entry of c's address: those who     *)
(* share the address can tell that c took it along.                        *)
LEMMA RemoveFound ==
    ASSUME RegistryInv, Found, NEW c \in Client,
           NEW f \in File, FileRemoveClient(c, f)
    PROVE  Found'
<1>1. /\ clients' = [clients EXCEPT ![f][listen_addr_key[c]] = NoClient]
      /\ todo' = [todo EXCEPT ![c] = todo[c] \ {f}]
      /\ UNCHANGED <<heap, listen_addr_key, files_seed, files_leech, pc>>
      /\ pc[c] = "free" /\ f \in todo[c] /\ f \in Lists(c)
  BY DEF FileRemoveClient, At, clientVars, Found, LeavesItsOwn
<1>2. /\ clients \in [File -> [Addr -> Client \cup {NoClient}]]
      /\ todo \in [Client -> SUBSET (Hash \cup File)]
      /\ \A d \in Client : Lists(d) \subseteq File
      /\ \A d \in Client : listen_addr_key[d] \in Addr \cup {NoAddr}
  BY DEF RegistryInv, TypeOK, Lists
<1>3. \A d \in Client : /\ Lists(d)' = Lists(d)
                        /\ d # c => todo'[d] = todo[d]
  BY <1>1, <1>2 DEF Lists
<1>4. \A g \in File, a \in Addr :
         clients'[g][a] = IF g = f /\ a = listen_addr_key[c] THEN NoClient
                          ELSE clients[g][a]
  BY <1>1, <1>2
<1>5. ASSUME NEW d \in Client, NEW g \in File
      PROVE  \A e \in Client : TakenOff(e, g, listen_addr_key[d])
                                  => TakenOff(e, g, listen_addr_key[d])'
  BY <1>1, <1>2, <1>3 DEF TakenOff
<1>6. AddedIsFound'
  <2> SUFFICES ASSUME NEW d \in Client, heap[d] = "live",
                      pc[d] \in {"idle", "add"},
                      listen_addr_key[d] # NoAddr, NEW g \in Lists(d)
               PROVE  (pc[d] = "add" /\ g \in todo'[d]) \/ LedTo(d, g)'
    BY <1>1, <1>3 DEF AddedIsFound
  <2>1. g \in File /\ listen_addr_key[d] \in Addr /\ d # c
    BY <1>1, <1>2
  <2>2. (pc[d] = "add" /\ g \in todo'[d]) \/ LedTo(d, g)
    BY <1>3, <2>1 DEF Found, AddedIsFound
  <2>3. CASE g = f /\ listen_addr_key[d] = listen_addr_key[c]
    <3>1. clients'[g][listen_addr_key[d]] = NoClient
      BY <1>4, <2>1, <2>3
    <3>2. TakenOff(c, g, listen_addr_key[d])'
      BY <1>1, <1>2, <1>3, <2>3 DEF TakenOff
    <3>3. listen_addr_key[d] \in AddrOf[c]
      BY <2>1, <2>3, RegistryAssumption DEF RegistryInv, Addresses
    <3> QED
      BY <1>1, <2>1, <3>1, <3>2, <3>3 DEF LedTo
  <2>4. CASE ~(g = f /\ listen_addr_key[d] = listen_addr_key[c])
    <3>1. clients'[g][listen_addr_key[d]] = clients[g][listen_addr_key[d]]
      BY <1>4, <2>1, <2>4
    <3>2. LedTo(d, g) => LedTo(d, g)'
      BY <1>1, <1>5, <2>1, <3>1 DEF LedTo
    <3> QED
      BY <2>2, <3>2
  <2> QED
    BY <2>3, <2>4
<1>7. LeavesItsOwn'
  BY <1>1, <1>2, <1>3 DEF Found, LeavesItsOwn
<1>8. RemovedIsGone'
  <2> SUFFICES ASSUME NEW d \in Client, heap[d] = "freed" \/ pc[d] = "free",
                      NEW g \in Lists(d), listen_addr_key[d] # NoAddr
               PROVE  \/ pc[d] = "free" /\ g \in todo'[d]
                      \/ clients'[g][listen_addr_key[d]] # d
    BY <1>1, <1>3 DEF RemovedIsGone
  <2>1. g \in File /\ listen_addr_key[d] \in Addr /\ NoClient # d
    BY <1>2, RegistryAssumption
  <2>2. CASE d = c /\ g = f
    BY <1>4, <2>1, <2>2
  <2>3. CASE ~(d = c /\ g = f)
    <3>1. g \in todo[d] => g \in todo'[d]
      BY <1>1, <1>2, <1>3, <2>3
    <3> QED
      BY <1>4, <2>1, <3>1 DEF Found, RemovedIsGone
  <2> QED
    BY <2>2, <2>3
<1> QED
  BY <1>6, <1>7, <1>8 DEF Found

(* Every step keeps what has been added led to, and what has been removed  *)
(* gone.                                                                   *)
LEMMA FoundStep ==
    ASSUME RegistryInv, Found, NEW c \in Client, Step(c)
    PROVE  Found'
<1>1. CASE \E seeds, leeches \in SUBSET Hash :
              \/ \E addr \in AddrOf[c] : Announce(c, addr, seeds, leeches)
              \/ Update(c, seeds, leeches)
  BY <1>1, ParseFound DEF Announce, Update
<1>2. CASE \/ \E h \in Hash, f \in File : SeedFound(c, h, f)
           \/ \E h \in Hash : SeedNotFound(c, h) \/ Leech(c, h)
           \/ FileNew(c) \/ SeedDone(c)
  <2>1. /\ UNCHANGED <<clients, heap, listen_addr_key>>
        /\ pc'[c] \in {"seed", "create", "leech"} /\ heap[c] = "live"
        /\ pc[c] # "free"
        /\ \A d \in Client \ {c} :
              /\ pc'[d] = pc[d] /\ Lists(d)' = Lists(d)
              /\ todo'[d] = todo[d]
    BY <1>2 DEF RegistryInv, TypeOK, Phases, Lists, At, Goto, SeedFound,
                SeedNotFound, Leech, FileNew, SeedDone, fileVars, clientVars
  <2> QED
    BY <2>1, ListStepFound
<1>3. CASE LeechDone(c) \/ FreeBegin(c)
  <2>1. /\ UNCHANGED <<clients, heap, listen_addr_key>>
        /\ pc'[c] \in {"add", "free"} /\ heap[c] = "live" /\ pc[c] # "free"
        /\ todo'[c] = Lists(c)'
        /\ \A d \in Client \ {c} :
              /\ pc'[d] = pc[d] /\ Lists(d)' = Lists(d)
              /\ todo'[d] = todo[d]
    BY <1>3 DEF RegistryInv, TypeOK, Phases, Lists, At, Goto, LeechDone,
                FreeBegin, fileVars, clientVars
  <2> QED
    BY <2>1, ListStepFound
<1>4. CASE WriteOk(c)
  <2>1. /\ UNCHANGED <<clients, heap, listen_addr_key>>
        /\ pc[c] = "add" /\ todo[c] = {} /\ pc'[c] = "idle"
        /\ heap[c] = "live"
        /\ Lists(c)' = Lists(c)
        /\ \A d \in Client \ {c} :
              /\ pc'[d] = pc[d] /\ Lists(d)' = Lists(d)
              /\ todo'[d] = todo[d]
    BY <1>4 DEF RegistryInv, TypeOK, Phases, Lists, At, Goto, WriteOk,
                fileVars, clientVars
  <2> QED
    BY <2>1, ListStepFound
<1>5. CASE FreeEnd(c)
  <2>1. /\ UNCHANGED <<clients, listen_addr_key, files_seed, files_leech, todo>>
        /\ heap' = [heap EXCEPT ![c] = "freed"]
        /\ pc' = [pc EXCEPT ![c] = "idle"] /\ pc[c] = "free" /\ todo[c] = {}
        /\ heap \in [Client -> {"live", "freed"}] /\ DOMAIN pc = Client
    BY <1>5 DEF RegistryInv, TypeOK, At, Goto, FreeEnd, fileVars
  <2>2. \A d \in Client : Lists(d)' = Lists(d)
    BY <2>1 DEF Lists
  <2>3. \A d \in Client, f \in File : LedTo(d, f) => LedTo(d, f)'
    BY <2>1, <2>2 DEF LedTo, TakenOff
  <2>4. AddedIsFound'
    <3> SUFFICES ASSUME NEW d \in Client, heap'[d] = "live",
                        pc'[d] \in {"idle", "add"},
                        listen_addr_key'[d] # NoAddr, NEW f \in Lists(d)'
                 PROVE  (pc'[d] = "add" /\ f \in todo'[d]) \/ LedTo(d, f)'
      BY DEF AddedIsFound
    <3>1. d # c /\ f \in File
      BY <2>1, <2>2 DEF RegistryInv, TypeOK, Lists
    <3> QED
      BY <2>1, <2>2, <2>3, <3>1 DEF Found, AddedIsFound
  <2>5. LeavesItsOwn' /\ RemovedIsGone'
    BY <2>1, <2>2 DEF Found, LeavesItsOwn, RemovedIsGone
  <2> QED
    BY <2>4, <2>5 DEF Found
<1>6. CASE \E f \in File : FileAddClient(c, f)
  BY <1>6, AddFound
<1>7. CASE \E f \in File : FileRemoveClient(c, f)
  BY <1>7, RemoveFound
<1>8. CASE \/ FileAddUnannounced(c) \/ FileNewNoPieces(c)
           \/ \E f \in File : GetfileDangling(c, f)
  <2>1. UNCHANGED <<fileVars, clientVars, thrVars>>
    BY <1>8 DEF FileAddUnannounced, FileNewNoPieces, GetfileDangling
  <2> QED
    BY <2>1 DEF Found, AddedIsFound, LeavesItsOwn, RemovedIsGone, LedTo,
                TakenOff, Lists, fileVars, clientVars, thrVars
<1> QED
  BY <1>1, <1>2, <1>3, <1>4, <1>5, <1>6, <1>7, <1>8 DEF Step

(* What has been added is led to, and what has been removed is gone.       *)
LEMMA FoundInvariant == Spec => []RegistryInv /\ []Found
<1>1. Found /\ UNCHANGED vars => Found'
  BY DEF Found, AddedIsFound, LeavesItsOwn, RemovedIsGone, LedTo, TakenOff,
         Lists, vars, fileVars, clientVars, thrVars
<1>2. RegistryInv /\ Found /\ [Next]_vars => Found'
  BY <1>1, FoundStep DEF Next
<1> QED
  BY <1>2, RegistryStart, RegistryInvariant, PTL DEF Spec
-----------------------------------------------------------------------------
(* Only a second look-up before the registration makes a second file.      *)
LEMMA OneFileStep ==
    ASSUME RegistryInv, OneFile, NEW c \in Client, Step(c)
    PROVE  OneFile'
<1> USE DEF At, Goto
<1>1. CASE \E h \in Hash : SeedNotFound(c, h)
  <2>1. PICK h \in Hash : SeedNotFound(c, h)
    BY <1>1
  <2>2. /\ file_by_hash' = file_by_hash /\ file_by_hash[h] = {}
        /\ cur' = [cur EXCEPT ![c] = h] /\ DOMAIN cur = Client
        /\ raced \subseteq raced'
        /\ h \notin raced' => \A d \in Client : cur[d] # h
    BY <2>1 DEF SeedNotFound, fileVars, RegistryInv, TypeOK
  <2> QED
    BY <2>2 DEF OneFile
<1>2. CASE FileNew(c)
  <2>1. /\ file_by_hash' =
              [file_by_hash EXCEPT ![cur[c]] = @ \cup {nfile + 1}]
        /\ cur' = [cur EXCEPT ![c] = NoHash] /\ raced' = raced
        /\ cur[c] \in Hash /\ DOMAIN cur = Client /\ DOMAIN file_by_hash = Hash
    BY <1>2 DEF FileNew, RegistryInv, TypeOK, Phases
  <2> QED
    BY <2>1, RegistryAssumption DEF OneFile
<1>3. CASE UNCHANGED <<file_by_hash, cur, raced>>
  BY <1>3 DEF OneFile
<1>4. \/ \E h \in Hash : SeedNotFound(c, h)
      \/ FileNew(c)
      \/ UNCHANGED <<file_by_hash, cur, raced>>
  BY DEF Step, Announce, Update, Parse, SeedFound, Leech, FileNewNoPieces,
         SeedDone, LeechDone, FileAddClient, FileAddUnannounced, WriteOk,
         GetfileDangling, FileRemoveClient, FreeBegin, FreeEnd, fileVars,
         thrVars
<1> QED
  BY <1>1, <1>2, <1>3, <1>4

LEMMA OneFileInvariant == Spec => []OneFile
<1>1. RegistryInv /\ OneFile /\ [Next]_vars => OneFile'
  <2>1. OneFile /\ UNCHANGED vars => OneFile'
    BY DEF OneFile, vars, fileVars, thrVars
  <2> QED
    BY <2>1, OneFileStep DEF Next
<1> QED
  BY <1>1, RegistryStart, RegistryInvariant, PTL DEF Spec
-----------------------------------------------------------------------------
(* After "ok" every file a client lists is registered under its hash, and  *)
(* the client's address leads to it in the file's table, to another client *)
(* of that address, or to nobody because such a client has left, whatever  *)
(* the handlers of the others do at the same time.                         *)
THEOREM ListedIsFoundHolds == Spec => []ListedIsFound
<1>1. RegistryInv /\ Found => ListedIsFound
  BY DEF Found, AddedIsFound, ListedIsFound, Settled, RegistryInv, Registered
<1> QED
  BY <1>1, FoundInvariant, PTL

(* getfile can find a file whose answer names a settled client that seeds  *)
(* or leeches the hash under an address of its own, and finds no other     *)
(* unless two handlers have created the hash at once.                      *)
THEOREM GetfileCompleteHolds == Spec => []GetfileComplete
<1>1. RegistryInv /\ Found /\ OneFile => GetfileComplete
  <2> SUFFICES ASSUME RegistryInv, Found, OneFile,
                      NEW c \in Client, NEW h \in Hash,
                      Settled(c), OwnAddr(c), NEW g \in Lists(c), fhash[g] = h
               PROVE  /\ g \in file_by_hash[h]
                      /\ \A d \in Client \ {c} : c \in PeersOf(g, d)
                      /\ h \notin raced => file_by_hash[h] = {g}
    BY DEF GetfileComplete
  <2>1. g \in file_by_hash[h] /\ LedTo(c, g)
    BY DEF Found, AddedIsFound, Settled, RegistryInv, Registered
  <2>2. clients[g][listen_addr_key[c]] = c /\ listen_addr_key[c] \in Addr
    BY <2>1 DEF LedTo, OwnAddr, Settled, RegistryInv, TypeOK
  <2>3. \A d \in Client \ {c} : c \in PeersOf(g, d)
    BY <2>2, RegistryAssumption DEF PeersOf
  <2>4. h \notin raced => file_by_hash[h] = {g}
    BY <2>1 DEF OneFile
  <2> QED
    BY <2>1, <2>3, <2>4
<1> QED
  BY <1>1, FoundInvariant, OneFileInvariant, PTL

(* A table entry that outlives its client is a leftover of an earlier list *)
(* or of an earlier listening port.                                        *)
THEOREM DanglingIsLeftoverHolds == Spec => []DanglingIsLeftover
<1>1. RegistryInv /\ Found => DanglingIsLeftover
  <2> SUFFICES ASSUME RegistryInv, Found,
                      NEW c \in Client, NEW f \in File, NEW a \in Addr,
                      heap[c] = "freed", clients[f][a] = c, f \in Lists(c),
                      a = listen_addr_key[c]
               PROVE  FALSE
    BY DEF DanglingIsLeftover
  <2>1. pc[c] = "idle" /\ a # NoAddr
    BY RegistryAssumption DEF RegistryInv, Phases, TypeOK
  <2> QED
    BY <2>1 DEF Found, RemovedIsGone
<1> QED
  BY <1>1, FoundInvariant, PTL
=============================================================================
