------------------------------ MODULE Registry ------------------------------
(***************************************************************************)
(* What the request handlers of the C tracker do to the registry of files  *)
(* and peers: protocol.c (announce, update, getfile), file.c and the       *)
(* part of client.c that frees a client.                                   *)
(*                                                                         *)
(* Handlers of different clients run in parallel.  A call on a hash table  *)
(* takes the table's lock, so it is one step; nothing is held between two  *)
(* calls.  A client has one handler at a time and is freed with none       *)
(* (TrackerNet: OneReader, RefsCounted), so a client's state is also its   *)
(* handler's.                                                              *)
(*                                                                         *)
(* A struct file is an identity of its own: two may carry the same hash,   *)
(* and which of them a lookup finds depends on the order of the bucket,    *)
(* which uthash reverses when it expands the table.                        *)
(*                                                                         *)
(* A definition named Op_Something is a faulty variant of Op, no part of   *)
(* the specification.                                                      *)
(***************************************************************************)
EXTENDS Integers, FiniteSets

CONSTANTS Client,    \* the client objects, one per connection
          Hash,      \* file keys
          Addr,      \* "ip:port" strings, the keys of file->clients
          AddrOf,    \* the addresses a client can announce: its ip, any port
          NoAddr,    \* listen_addr_key == NULL
          NoClient, NoHash,
          MaxFile,   \* bound: file objects ever created
          MaxReq     \* bound: announce and update requests of one client

ASSUME RegistryAssumption ==
    /\ AddrOf \in [Client -> SUBSET Addr]
    /\ NoAddr \notin Addr /\ NoClient \notin Client /\ NoHash \notin Hash
    /\ MaxFile \in Nat /\ MaxReq \in Nat

VARIABLES
    file_by_hash,      \* the files registered under each hash
    nfile, fhash,      \* number of files; the hash of each
    clients,           \* clients[f][a]: the client of f->clients under key a
    heap,              \* "live" | "freed", for each client
    listen_addr_key, files_seed, files_leech,   \* fields of struct client
    pc,                \* what the client's thread is doing
    todo,              \* hashes (parsing) or files (adding, removing) to go
    leech_req,         \* hashes of the leech list, parsed after the seed list
    cur,               \* the hash file_get_or_create has not found
    raced,             \* history: hashes that two handlers created at once
    nreq, fault

clientVars == <<heap, listen_addr_key, files_seed, files_leech>>
fileVars == <<file_by_hash, nfile, fhash, clients>>
thrVars == <<pc, todo, leech_req, cur>>
vars == <<fileVars, clientVars, thrVars, raced, nreq, fault>>

File == 1..MaxFile
NoPeers == [a \in Addr |-> NoClient]

Init ==
    /\ file_by_hash = [h \in Hash |-> {}] /\ nfile = 0
    /\ fhash = [f \in File |-> NoHash] /\ clients = [f \in File |-> NoPeers]
    /\ heap = [c \in Client |-> "live"]
    /\ listen_addr_key = [c \in Client |-> NoAddr]
    /\ files_seed = [c \in Client |-> {}]
    /\ files_leech = [c \in Client |-> {}]
    /\ pc = [c \in Client |-> "idle"] /\ todo = [c \in Client |-> {}]
    /\ leech_req = [c \in Client |-> {}] /\ cur = [c \in Client |-> NoHash]
    /\ raced = {} /\ nreq = [c \in Client |-> 0] /\ fault = "none"

At(c, here) == fault = "none" /\ pc[c] = here
Goto(c, there) == pc' = [pc EXCEPT ![c] = there]
-----------------------------------------------------------------------------
(* A request that matches the regular expression.  A seed list whose word  *)
(* count is not a multiple of four is taken as the empty list.  The old    *)
(* lists are freed; nothing else of the earlier request is undone.         *)
Parse(c, seeds, leeches) ==
    /\ At(c, "idle") /\ heap[c] = "live" /\ nreq[c] < MaxReq
    /\ nreq' = [nreq EXCEPT ![c] = @ + 1]
    /\ files_seed' = [files_seed EXCEPT ![c] = {}]
    /\ files_leech' = [files_leech EXCEPT ![c] = {}]
    /\ todo' = [todo EXCEPT ![c] = seeds]
    /\ leech_req' = [leech_req EXCEPT ![c] = leeches]
    /\ Goto(c, "seed")

(* prot_announce: client_set_listening_port, then the lists.               *)
client_set_listening_port(c, addr) ==
    listen_addr_key' = [listen_addr_key EXCEPT ![c] = addr]
Announce(c, addr, seeds, leeches) ==
    /\ Parse(c, seeds, leeches)
    /\ client_set_listening_port(c, addr)
    /\ UNCHANGED <<fileVars, heap, cur, raced, fault>>

(* prot_update: accepted whether or not the client has announced itself.   *)
Update(c, seeds, leeches) ==
    /\ Parse(c, seeds, leeches)
    /\ UNCHANGED <<fileVars, heap, listen_addr_key, cur, raced, fault>>
-----------------------------------------------------------------------------
(* get_seed_file_list: file_get_or_create for every entry.                 *)
SeedFound(c, h, f) ==
    /\ At(c, "seed") /\ h \in todo[c] /\ f \in file_by_hash[h]
    /\ files_seed' = [files_seed EXCEPT ![c] = @ \cup {f}]
    /\ todo' = [todo EXCEPT ![c] = @ \ {h}]
    /\ UNCHANGED <<fileVars, heap, listen_addr_key, files_leech, pc, leech_req,
                   cur, raced, nreq, fault>>

SeedNotFound_Always(c, h) ==
    /\ At(c, "seed") /\ h \in todo[c]
    /\ cur' = [cur EXCEPT ![c] = h]
    /\ todo' = [todo EXCEPT ![c] = @ \ {h}]
    /\ Goto(c, "create")
    /\ raced' = IF \E d \in Client : cur[d] = h THEN raced \cup {h} ELSE raced
    /\ UNCHANGED <<fileVars, clientVars, leech_req, nreq, fault>>

(* Between this look-up and the registration another handler may find the  *)
(* hash absent too.                                                        *)
SeedNotFound(c, h) ==
    /\ At(c, "seed") /\ h \in todo[c] /\ file_by_hash[h] = {}
    /\ cur' = [cur EXCEPT ![c] = h]
    /\ todo' = [todo EXCEPT ![c] = @ \ {h}]
    /\ Goto(c, "create")
    /\ raced' = IF \E d \in Client : cur[d] = h THEN raced \cup {h} ELSE raced
    /\ UNCHANGED <<fileVars, clientVars, leech_req, nreq, fault>>

(* file_new and file_register: ht_add_entry does not look for the key.     *)
FileNew(c) ==
    /\ At(c, "create") /\ nfile < MaxFile
    /\ nfile' = nfile + 1
    /\ fhash' = [fhash EXCEPT ![nfile + 1] = cur[c]]
    /\ file_by_hash' = [file_by_hash EXCEPT ![cur[c]] = @ \cup {nfile + 1}]
    /\ files_seed' = [files_seed EXCEPT ![c] = @ \cup {nfile + 1}]
    /\ cur' = [cur EXCEPT ![c] = NoHash]
    /\ Goto(c, "seed")
    /\ UNCHANGED <<clients, heap, listen_addr_key, files_leech, todo,
                   leech_req, raced, nreq, fault>>

(* file_new divides the length by the announced piece size, which may be 0.*)
FileNewNoPieces(c) ==
    /\ At(c, "create")
    /\ fault' = "crash"
    /\ UNCHANGED <<fileVars, clientVars, thrVars, raced, nreq>>

SeedDone(c) ==
    /\ At(c, "seed") /\ todo[c] = {}
    /\ todo' = [todo EXCEPT ![c] = leech_req[c]]
    /\ leech_req' = [leech_req EXCEPT ![c] = {}]
    /\ Goto(c, "leech")
    /\ UNCHANGED <<fileVars, clientVars, cur, raced, nreq, fault>>

(* get_leech_file_list: an unknown key is skipped.                         *)
Leech(c, h) ==
    /\ At(c, "leech") /\ h \in todo[c]
    /\ \/ \E f \in file_by_hash[h] :
            files_leech' = [files_leech EXCEPT ![c] = @ \cup {f}]
       \/ file_by_hash[h] = {} /\ UNCHANGED files_leech
    /\ todo' = [todo EXCEPT ![c] = @ \ {h}]
    /\ UNCHANGED <<fileVars, heap, listen_addr_key, files_seed, pc, leech_req,
                   cur, raced, nreq, fault>>

LeechDone_SeedsOnly(c) ==
    /\ At(c, "leech") /\ todo[c] = {}
    /\ todo' = [todo EXCEPT ![c] = files_seed[c]]
    /\ Goto(c, "add")
    /\ UNCHANGED <<fileVars, clientVars, leech_req, cur, raced, nreq, fault>>

(* seed_leech_match_and_parse: then the files of both lists are visited.   *)
LeechDone(c) ==
    /\ At(c, "leech") /\ todo[c] = {}
    /\ todo' = [todo EXCEPT ![c] = files_seed[c] \cup files_leech[c]]
    /\ Goto(c, "add")
    /\ UNCHANGED <<fileVars, clientVars, leech_req, cur, raced, nreq, fault>>
-----------------------------------------------------------------------------
(* file_add_client: ht_add_unique_entry leaves an entry of that address.   *)
FileAddClient(c, f) ==
    /\ At(c, "add") /\ f \in todo[c] /\ listen_addr_key[c] # NoAddr
    /\ clients' = [clients EXCEPT ![f][listen_addr_key[c]] =
                     IF @ = NoClient THEN c ELSE @]
    /\ todo' = [todo EXCEPT ![c] = @ \ {f}]
    /\ UNCHANGED <<file_by_hash, nfile, fhash, clientVars, pc, leech_req, cur,
                   raced, nreq, fault>>

(* The key is NULL when an update precedes the announce.                   *)
FileAddUnannounced(c) ==
    /\ At(c, "add") /\ todo[c] # {} /\ listen_addr_key[c] = NoAddr
    /\ fault' = "crash"
    /\ UNCHANGED <<fileVars, clientVars, thrVars, raced, nreq>>

WriteOk(c) ==
    /\ At(c, "add") /\ todo[c] = {}
    /\ Goto(c, "idle")
    /\ UNCHANGED <<fileVars, clientVars, todo, leech_req, cur, raced, nreq,
                   fault>>
-----------------------------------------------------------------------------
(* prot_getfile: the clients of the file it finds, but for the asking one. *)
PeersOf(f, c) == {clients[f][a] : a \in Addr} \ {NoClient, c}

(* The answer dereferences every client; it changes nothing.  A client     *)
(* that was freed makes it undefined.                                      *)
GetfileDangling(c, f) ==
    /\ At(c, "idle") /\ heap[c] = "live" /\ f <= nfile
    /\ \E d \in PeersOf(f, c) : heap[d] = "freed"
    /\ fault' = "ub"
    /\ UNCHANGED <<fileVars, clientVars, thrVars, raced, nreq>>
-----------------------------------------------------------------------------
(* client_free: the client is taken off the files of its two lists (by     *)
(* address, whoever the entry belongs to), then its memory is released.    *)
FreeBegin_SeedsOnly(c) ==
    /\ At(c, "idle") /\ heap[c] = "live"
    /\ todo' = [todo EXCEPT ![c] = files_seed[c]]
    /\ Goto(c, "free")
    /\ UNCHANGED <<fileVars, clientVars, leech_req, cur, raced, nreq, fault>>

FreeBegin(c) ==
    /\ At(c, "idle") /\ heap[c] = "live"
    /\ todo' = [todo EXCEPT ![c] = files_seed[c] \cup files_leech[c]]
    /\ Goto(c, "free")
    /\ UNCHANGED <<fileVars, clientVars, leech_req, cur, raced, nreq, fault>>

FileRemoveClient(c, f) ==
    /\ At(c, "free") /\ f \in todo[c]
    /\ clients' = [clients EXCEPT ![f][listen_addr_key[c]] = NoClient]
    /\ todo' = [todo EXCEPT ![c] = @ \ {f}]
    /\ UNCHANGED <<file_by_hash, nfile, fhash, clientVars, pc, leech_req, cur,
                   raced, nreq, fault>>

FreeEnd(c) ==
    /\ At(c, "free") /\ todo[c] = {}
    /\ heap' = [heap EXCEPT ![c] = "freed"]
    /\ Goto(c, "idle")
    /\ UNCHANGED <<fileVars, listen_addr_key, files_seed, files_leech, todo,
                   leech_req, cur, raced, nreq, fault>>
-----------------------------------------------------------------------------
Step(c) ==
    \/ \E seeds, leeches \in SUBSET Hash :
        \/ \E addr \in AddrOf[c] : Announce(c, addr, seeds, leeches)
        \/ Update(c, seeds, leeches)
    \/ \E h \in Hash, f \in File : SeedFound(c, h, f)
    \/ \E h \in Hash : SeedNotFound(c, h) \/ Leech(c, h)
    \/ FileNew(c) \/ FileNewNoPieces(c) \/ SeedDone(c) \/ LeechDone(c)
    \/ \E f \in File : FileAddClient(c, f)
    \/ FileAddUnannounced(c) \/ WriteOk(c)
    \/ \E f \in File : GetfileDangling(c, f) \/ FileRemoveClient(c, f)
    \/ FreeBegin(c) \/ FreeEnd(c)

Next == \E c \in Client : Step(c)

Spec == Init /\ [][Next]_vars
-----------------------------------------------------------------------------
(* Type invariant: the range of every variable of the registry.            *)
TypeOK ==
    /\ file_by_hash \in [Hash -> SUBSET File] /\ nfile \in 0..MaxFile
    /\ fhash \in [File -> Hash \cup {NoHash}]
    /\ clients \in [File -> [Addr -> Client \cup {NoClient}]]
    /\ heap \in [Client -> {"live", "freed"}]
    /\ listen_addr_key \in [Client -> Addr \cup {NoAddr}]
    /\ files_seed \in [Client -> SUBSET File]
    /\ files_leech \in [Client -> SUBSET File]
    /\ pc \in [Client -> {"idle", "seed", "create", "leech", "add", "free"}]
    /\ todo \in [Client -> SUBSET (Hash \cup File)]
    /\ leech_req \in [Client -> SUBSET Hash]
    /\ cur \in [Client -> Hash \cup {NoHash}] /\ raced \in SUBSET Hash
    /\ nreq \in [Client -> 0..MaxReq] /\ fault \in {"none", "crash", "ub"}

Lists(c) == files_seed[c] \cup files_leech[c]
Settled(c) == pc[c] = "idle" /\ heap[c] = "live" /\ listen_addr_key[c] # NoAddr
OwnAddr(c) == \A d \in Client \ {c} : listen_addr_key[c] \notin AddrOf[d]

\* client_free of d has emptied the entry of address a in the table of f.
TakenOff(d, f, a) ==
    /\ heap[d] = "freed" \/ (pc[d] = "free" /\ f \notin todo[d])
    /\ f \in Lists(d) /\ listen_addr_key[d] = a

\* The client's address leads to the client in the table of f, or to another
\* client that shares the address, or to nobody since that client has left.
LedTo(c, f) ==
    LET a == listen_addr_key[c] IN
    \/ clients[f][a] = c
    \/ \E d \in Client \ {c} :
          /\ a \in AddrOf[d]
          /\ \/ clients[f][a] = d
             \/ clients[f][a] = NoClient /\ TakenOff(d, f, a)

(* After "ok" every file a client seeds or leeches is registered under its *)
(* hash, and the client's address leads to it in the file's table, what-   *)
(* ever the others have announced, updated or freed meanwhile.  Only a     *)
(* client that shares the address can stand there instead, or, on leaving, *)
(* have taken the entry along.                                             *)
ListedIsFound ==
    \A c \in Client : Settled(c) =>
        \A f \in Lists(c) : f \in file_by_hash[fhash[f]] /\ LedTo(c, f)

(* getfile answers with the clients of one file it finds under the hash:   *)
(* a settled seeder or leecher of the hash, with an address of its own, is *)
(* in some answer, and in every answer unless two handlers have created    *)
(* the file at the same time.                                              *)
GetfileComplete ==
    \A c \in Client, h \in Hash :
        /\ Settled(c) /\ OwnAddr(c) /\ \E g \in Lists(c) : fhash[g] = h
        => LET Answering == {f \in file_by_hash[h] :
                                \A d \in Client \ {c} : c \in PeersOf(f, d)}
           IN  /\ Answering # {}
               /\ h \notin raced => Answering = file_by_hash[h]

(* client_free takes a client off every file of its current lists under    *)
(* its current address: an entry that still points at a freed client is a  *)
(* leftover of an earlier list or an earlier listening port.               *)
DanglingIsLeftover ==
    \A c \in Client, f \in File, a \in Addr :
        heap[c] = "freed" /\ clients[f][a] = c
            => f \notin Lists(c) \/ a # listen_addr_key[c]
=============================================================================
