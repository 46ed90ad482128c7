----------------------------- MODULE TrackerNet -----------------------------
(***************************************************************************)
(* The C tracker's network thread (tracker/network.c), the detached thread *)
(* it starts for every readable client (handle_request, protocol.c) and    *)
(* the reference-counted client object they share (client.c).              *)
(*                                                                         *)
(* Grain.  A C statement that touches memory shared by two threads is a    *)
(* step.  "++ref_count" and "--ref_count" are a load and a store (the code *)
(* takes no lock and the build is -O0), and client_dec_ref reads the count *)
(* again to decide on the deletion.  fds[], clients[] and nfds belong to   *)
(* the network thread alone, so its passes over them are one step per slot.*)
(*                                                                         *)
(* Identities.  The tracker never closes a socket, so descriptors are      *)
(* never reused: sockets are numbered in the order of the connections, and *)
(* the client object created for socket s is called s as well              *)
(* (client->socket = s for ever).  0 stands for NULL and for fd == -1.     *)
(*                                                                         *)
(* A definition named Op_Something is a faulty variant of Op.  It is no    *)
(* part of the specification: it shows that a property can fail.           *)
(***************************************************************************)
EXTENDS Integers, FiniteSets

CONSTANTS Key,       \* remote "ip:port" addresses, keys of the client table
          NoKey,     \* the address of a socket that is not connected yet
          MaxSock,   \* bound: connections made over the whole run
          MaxSend,   \* bound: writes of all the peers over the whole run
          Thread,    \* the handler threads the process may have at one time
          InitBuf    \* fds_buffer_size at the start (1000 in the code)

ASSUME ConstAssumption ==
    /\ MaxSock \in Nat \ {0} /\ MaxSend \in Nat
    /\ InitBuf \in Nat \ {0}
    /\ NoKey \notin Key

VARIABLES
    \* the peers and the kernel
    key,            \* address of the peer of each socket
    link,           \* "none" | "up" | "fin" (peer closed) | "rst" (reset)
    inbuf,          \* unread bytes: "none" | "part" | "line" (end in \n or \0)
    nconn, nacc,    \* sockets connected; accepted (the backlog is FIFO)
    nsend,          \* writes so far
    \* client.c: the table and the objects
    client_table, heap, ref_count, can_rehear,
    \* network.c: the poll set
    nfds, fds, rlisten, fds_buffer_size,
    \* the network thread: position, slot index, client and register in use
    npc, ni, ncl, nreg,
    sig,            \* SIGUSR1 has hit the network thread inside poll
    \* the handler threads
    hpc, hcl, hreg,
    \* history: a reference taken for a thread that could not be created;
    \* two threads inside the reference counting of one client
    orphan, raced,
    fault           \* "none" | "crash" (NULL dereference, SIGPIPE) |
                    \* "ub" (use after free)

kernelVars == <<key, link, inbuf, nconn, nacc, nsend>>
clientVars == <<client_table, heap, ref_count, can_rehear>>
pollVars   == <<nfds, fds, rlisten, fds_buffer_size>>
netVars    == <<npc, ni, ncl, nreg, sig>>
thrVars    == <<hpc, hcl, hreg>>
vars == <<kernelVars, clientVars, pollVars, netVars, thrVars,
          orphan, raced, fault>>

Sock == 1..MaxSock
Sock0 == 0..MaxSock

(* struct pollfd and the matching entry of clients[]: armed is POLLIN in   *)
(* events (POLLRDHUP always is), rin and rhup are what poll reported.      *)
Slot == [cl : Sock0, armed : BOOLEAN, rin : BOOLEAN, rhup : BOOLEAN]
NoSlot == [cl |-> 0, armed |-> FALSE, rin |-> FALSE, rhup |-> FALSE]
NewSlot(c) == [cl |-> c, armed |-> TRUE, rin |-> FALSE, rhup |-> FALSE]

Used == 1..(nfds - 1)
Dead(s) == link[s] \in {"fin", "rst"}
-----------------------------------------------------------------------------
(* server_run up to its loop: the listener is slot 0, left implicit.       *)
Init ==
    /\ key = [s \in Sock |-> NoKey] /\ link = [s \in Sock |-> "none"]
    /\ inbuf = [s \in Sock |-> "none"]
    /\ nconn = 0 /\ nacc = 0 /\ nsend = 0
    /\ client_table = [k \in Key |-> 0] /\ heap = [s \in Sock |-> "none"]
    /\ ref_count = [s \in Sock |-> 0] /\ can_rehear = [s \in Sock |-> FALSE]
    /\ nfds = 1 /\ fds = [i \in Sock |-> NoSlot] /\ rlisten = FALSE
    /\ fds_buffer_size = InitBuf
    /\ npc = "loop" /\ ni = 0 /\ ncl = 0 /\ nreg = 0 /\ sig = FALSE
    /\ hpc = [t \in Thread |-> "idle"] /\ hcl = [t \in Thread |-> 0]
    /\ hreg = [t \in Thread |-> 0]
    /\ orphan = [s \in Sock |-> FALSE] /\ raced = [s \in Sock |-> FALSE]
    /\ fault = "none"
-----------------------------------------------------------------------------
(* The peers.  An address can be used again only when its earlier          *)
(* connections are gone from the kernel, that is reset: a connection the   *)
(* peer merely closed stays in CLOSE_WAIT because the tracker never closes.*)
Connect(k) ==
    /\ fault = "none" /\ nconn < MaxSock
    /\ \A s \in Sock : key[s] = k => link[s] = "rst"
    /\ nconn' = nconn + 1
    /\ key' = [key EXCEPT ![nconn + 1] = k]
    /\ link' = [link EXCEPT ![nconn + 1] = "up"]
    /\ UNCHANGED <<inbuf, nacc, nsend, clientVars, pollVars, netVars, thrVars,
                   orphan, raced, fault>>

Send(s, bytes) ==
    /\ fault = "none" /\ link[s] = "up" /\ nsend < MaxSend
    /\ nsend' = nsend + 1
    /\ inbuf' = [inbuf EXCEPT ![s] = bytes]
    /\ UNCHANGED <<key, link, nconn, nacc, clientVars, pollVars, netVars,
                   thrVars, orphan, raced, fault>>

Close(s, how) ==
    /\ fault = "none"
    /\ \/ link[s] = "up"
       \/ link[s] = "fin" /\ how = "rst"
    /\ link' = [link EXCEPT ![s] = how]
    /\ UNCHANGED <<key, inbuf, nconn, nacc, nsend, clientVars, pollVars,
                   netVars, thrVars, orphan, raced, fault>>
-----------------------------------------------------------------------------
NetAt(pc) == fault = "none" /\ npc = pc

(* poll(fds, nfds, -1).                                                    *)
ReadsIn(sl) == sl.armed /\ (inbuf[sl.cl] # "none" \/ Dead(sl.cl))

HungUp_IfArmed(sl) == sl.armed /\ Dead(sl.cl)
HungUp(sl) == Dead(sl.cl)

PollReady ==
    \/ nacc < nconn
    \/ \E i \in Used : ReadsIn(fds[i]) \/ HungUp(fds[i])

(* What poll reports of a slot.                                            *)
Polled(sl) == [sl EXCEPT !.rin = ReadsIn(sl), !.rhup = HungUp(sl)]
Quiet(sl) == [sl EXCEPT !.rin = FALSE, !.rhup = FALSE]

PollReturn ==
    /\ (NetAt("loop") \/ NetAt("poll")) /\ PollReady
    /\ rlisten' = (nacc < nconn)
    /\ fds' = [i \in Sock |-> IF i \in Used THEN Polled(fds[i]) ELSE fds[i]]
    /\ npc' = "accept" /\ sig' = FALSE
    /\ UNCHANGED <<kernelVars, clientVars, nfds, fds_buffer_size, ni, ncl,
                   nreg, thrVars, orphan, raced, fault>>

PollSleep ==
    /\ NetAt("loop") /\ ~PollReady
    /\ npc' = "poll"
    /\ UNCHANGED <<kernelVars, clientVars, pollVars, ni, ncl, nreg, sig,
                   thrVars, orphan, raced, fault>>

(* EINTR: the kernel has written revents = 0 everywhere.                   *)
PollInterrupted ==
    /\ NetAt("poll") /\ sig
    /\ rlisten' = FALSE
    /\ fds' = [i \in Sock |-> Quiet(fds[i])]
    /\ npc' = "accept" /\ sig' = FALSE
    /\ UNCHANGED <<kernelVars, clientVars, nfds, fds_buffer_size, ni, ncl,
                   nreg, thrVars, orphan, raced, fault>>
-----------------------------------------------------------------------------
(* History.  A thread is inside the counting of client c between its first *)
(* and last access to the count, the network thread from the table lookup  *)
(* on; raced records that one entered while another was inside.            *)
NetInside(c) ==
    ncl = c /\ npc \in {"aload", "astore", "istore", "dstore", "dcheck"}
HandlerInside(t, c) == hcl[t] = c /\ hpc[t] \in {"dstore", "dcheck"}

NetEnters(c) ==
    raced' = [raced EXCEPT ![c] = @ \/ \E t \in Thread : HandlerInside(t, c)]

(* handle_new_connection: accept_connection, client_get_or_create, then    *)
(* add_new_client_to_fds, whose client_inc_ref is a load and a store.      *)
NoNewConnection ==
    /\ NetAt("accept") /\ ~rlisten
    /\ npc' = "scan" /\ ni' = 1
    /\ UNCHANGED <<kernelVars, clientVars, pollVars, ncl, nreg, sig, thrVars,
                   orphan, raced, fault>>

(* client_get_or_create: the table is looked up by the remote address.     *)
ClientGetOrCreate ==
    LET s == nacc + 1
        found == client_table[key[s]]
    IN  /\ NetAt("accept") /\ rlisten /\ link[s] # "rst"
        /\ nacc' = s
        /\ IF found = 0
           THEN /\ heap' = [heap EXCEPT ![s] = "live"]
                /\ client_table' = [client_table EXCEPT ![key[s]] = s]
                /\ ncl' = s
           ELSE ncl' = found /\ UNCHANGED <<heap, client_table>>
        /\ NetEnters(ncl')
        /\ npc' = "aload"
        /\ UNCHANGED <<key, link, inbuf, nconn, nsend, ref_count, can_rehear,
                       pollVars, ni, nreg, sig, thrVars, orphan, fault>>

(* getpeername fails on a connection reset in the backlog: the NULL client *)
(* is passed to add_new_client_to_fds, which dereferences it.              *)
GetpeernameFails ==
    /\ NetAt("accept") /\ rlisten /\ link[nacc + 1] = "rst"
    /\ nacc' = nacc + 1
    /\ fault' = "crash"
    /\ UNCHANGED <<key, link, inbuf, nconn, nsend, clientVars, pollVars,
                   netVars, thrVars, orphan, raced>>

(* The load of ++ref_count or --ref_count by the network thread.           *)
NetLoadRef(from, to) ==
    /\ NetAt(from) /\ heap[ncl] = "live"
    /\ nreg' = ref_count[ncl]
    /\ npc' = to
    /\ NetEnters(ncl)
    /\ UNCHANGED <<kernelVars, clientVars, pollVars, ni, ncl, sig, thrVars,
                   orphan, fault>>

SlotsMissing_OffByOne == nfds > fds_buffer_size
SlotsMissing == nfds + 1 > fds_buffer_size

AddNewClientToFds_TwoSlots ==
    /\ NetAt("astore") /\ heap[ncl] = "live"
    /\ ref_count' = [ref_count EXCEPT ![ncl] = nreg + 1]
    /\ fds' = [fds EXCEPT ![nfds] = NewSlot(ncl)]
    /\ nfds' = nfds + 2
    /\ npc' = "scan" /\ ni' = 1 /\ ncl' = 0 /\ nreg' = 0
    /\ UNCHANGED <<kernelVars, client_table, heap, can_rehear, rlisten, sig,
                   fds_buffer_size, thrVars, orphan, raced, fault>>

AddNewClientToFds ==
    /\ NetAt("astore") /\ heap[ncl] = "live"
    /\ ref_count' = [ref_count EXCEPT ![ncl] = nreg + 1]
    /\ fds_buffer_size' = IF SlotsMissing
                          THEN 2 * fds_buffer_size ELSE fds_buffer_size
    /\ fds' = [fds EXCEPT ![nfds] = NewSlot(ncl)]
    /\ nfds' = nfds + 1
    /\ npc' = "scan" /\ ni' = 1 /\ ncl' = 0 /\ nreg' = 0
    /\ UNCHANGED <<kernelVars, client_table, heap, can_rehear, rlisten, sig,
                   thrVars, orphan, raced, fault>>
-----------------------------------------------------------------------------
(* handle_incoming_data, one iteration per step.  An iteration begins with *)
(* the rearming of a client whose handler has finished.                    *)
Rearmed(i) ==
    IF can_rehear[fds[i].cl] THEN [fds[i] EXCEPT !.armed = TRUE] ELSE fds[i]

Rearm_NoReset(i) == UNCHANGED can_rehear
Rearm(i) == can_rehear' = [can_rehear EXCEPT ![fds[i].cl] = FALSE]

Disarmed(i) == [fds[i] EXCEPT !.armed = FALSE, !.rin = FALSE]

Scanning == NetAt("scan") /\ ni < nfds /\ fds[ni].cl # 0

ScanQuiet ==
    /\ Scanning /\ heap[fds[ni].cl] = "live"
    /\ ~fds[ni].rhup /\ ~fds[ni].rin
    /\ Rearm(ni)
    /\ fds' = [fds EXCEPT ![ni] = Rearmed(ni)]
    /\ ni' = ni + 1
    /\ UNCHANGED <<kernelVars, client_table, heap, ref_count, nfds, rlisten,
                   fds_buffer_size, npc, ncl, nreg, sig, thrVars, orphan,
                   raced, fault>>

ScanHup ==
    /\ Scanning /\ heap[fds[ni].cl] = "live" /\ fds[ni].rhup
    /\ Rearm(ni)
    /\ fds' = [fds EXCEPT ![ni] = Rearmed(ni)]
    /\ npc' = "dload" /\ ncl' = fds[ni].cl
    /\ UNCHANGED <<kernelVars, client_table, heap, ref_count, nfds, rlisten,
                   fds_buffer_size, ni, nreg, sig, thrVars, orphan, raced,
                   fault>>

ScanIn_StaysArmed ==
    /\ Scanning /\ heap[fds[ni].cl] = "live" /\ ~fds[ni].rhup /\ fds[ni].rin
    /\ Rearm(ni)
    /\ fds' = [fds EXCEPT ![ni] = [@ EXCEPT !.rin = FALSE]]
    /\ npc' = "iload" /\ ncl' = fds[ni].cl
    /\ UNCHANGED <<kernelVars, client_table, heap, ref_count, nfds, rlisten,
                   fds_buffer_size, ni, nreg, sig, thrVars, orphan, raced,
                   fault>>

ScanIn_NoThread ==
    /\ Scanning /\ heap[fds[ni].cl] = "live" /\ ~fds[ni].rhup /\ fds[ni].rin
    /\ Rearm(ni)
    /\ fds' = [fds EXCEPT ![ni] = Disarmed(ni)]
    /\ ni' = ni + 1
    /\ UNCHANGED <<kernelVars, client_table, heap, ref_count, nfds, rlisten,
                   fds_buffer_size, npc, ncl, nreg, sig, thrVars, orphan,
                   raced, fault>>

ScanIn ==
    /\ Scanning /\ heap[fds[ni].cl] = "live" /\ ~fds[ni].rhup /\ fds[ni].rin
    /\ Rearm(ni)
    /\ fds' = [fds EXCEPT ![ni] = Disarmed(ni)]
    /\ npc' = "iload" /\ ncl' = fds[ni].cl
    /\ UNCHANGED <<kernelVars, client_table, heap, ref_count, nfds, rlisten,
                   fds_buffer_size, ni, nreg, sig, thrVars, orphan, raced,
                   fault>>

(* start_server_reqhandler_thread: the store of client_inc_ref, then       *)
(* pthread_create.  Its failure is reported by a positive value, which     *)
(* start_detached_thread compares with "< 0": nothing is undone.           *)
StartHandler_NoRef(t) ==
    /\ NetAt("istore") /\ heap[ncl] = "live" /\ hpc[t] = "idle"
    /\ hpc' = [hpc EXCEPT ![t] = "start"] /\ hcl' = [hcl EXCEPT ![t] = ncl]
    /\ npc' = "scan" /\ ni' = ni + 1 /\ ncl' = 0 /\ nreg' = 0
    /\ UNCHANGED <<kernelVars, clientVars, pollVars, sig, hreg, orphan, raced,
                   fault>>

StartHandler(t) ==
    /\ NetAt("istore") /\ heap[ncl] = "live" /\ hpc[t] = "idle"
    /\ ref_count' = [ref_count EXCEPT ![ncl] = nreg + 1]
    /\ hpc' = [hpc EXCEPT ![t] = "start"] /\ hcl' = [hcl EXCEPT ![t] = ncl]
    /\ npc' = "scan" /\ ni' = ni + 1 /\ ncl' = 0 /\ nreg' = 0
    /\ UNCHANGED <<kernelVars, client_table, heap, can_rehear, pollVars, sig,
                   hreg, orphan, raced, fault>>

PthreadCreateFails ==
    /\ NetAt("istore") /\ heap[ncl] = "live"
    /\ \A t \in Thread : hpc[t] # "idle"
    /\ ref_count' = [ref_count EXCEPT ![ncl] = nreg + 1]
    /\ orphan' = [orphan EXCEPT ![ncl] = TRUE]
    /\ npc' = "scan" /\ ni' = ni + 1 /\ ncl' = 0 /\ nreg' = 0
    /\ UNCHANGED <<kernelVars, client_table, heap, can_rehear, pollVars, sig,
                   thrVars, raced, fault>>

NetDecRef ==
    /\ NetAt("dstore") /\ heap[ncl] = "live"
    /\ ref_count' = [ref_count EXCEPT ![ncl] = nreg - 1]
    /\ npc' = "dcheck" /\ nreg' = 0
    /\ UNCHANGED <<kernelVars, client_table, heap, can_rehear, pollVars, ni,
                   ncl, sig, thrVars, orphan, raced, fault>>

(* delete_client: the table entry of its address goes, the object is freed *)
DeleteClient(c) ==
    /\ heap' = [heap EXCEPT ![c] = "freed"]
    /\ client_table' = [client_table EXCEPT ![key[c]] = 0]

DeleteIfUnreferenced_AtOne(c) ==
    IF ref_count[c] <= 1 THEN DeleteClient(c)
    ELSE UNCHANGED <<heap, client_table>>

DeleteIfUnreferenced_BelowZero(c) ==
    IF ref_count[c] < 0 THEN DeleteClient(c)
    ELSE UNCHANGED <<heap, client_table>>

DeleteIfUnreferenced(c) ==
    IF ref_count[c] <= 0 THEN DeleteClient(c)
    ELSE UNCHANGED <<heap, client_table>>

DropSlot ==
    /\ NetAt("dcheck") /\ heap[ncl] = "live"
    /\ DeleteIfUnreferenced(ncl)
    /\ fds' = [fds EXCEPT ![ni] = NoSlot]
    /\ npc' = "scan" /\ ni' = ni + 1 /\ ncl' = 0
    /\ UNCHANGED <<kernelVars, ref_count, can_rehear, nfds, rlisten,
                   fds_buffer_size, nreg, sig, thrVars, orphan, raced, fault>>

ScanEnd ==
    /\ NetAt("scan") /\ ni >= nfds
    /\ npc' = "clean" /\ ni' = 1
    /\ UNCHANGED <<kernelVars, clientVars, pollVars, ncl, nreg, sig, thrVars,
                   orphan, raced, fault>>
-----------------------------------------------------------------------------
(* clean_fds: a hole is filled by the last slot, again while that was a    *)
(* hole too.  Entries beyond nfds are never read; they are reset here.     *)
CleanSkip ==
    /\ NetAt("clean") /\ ni < nfds /\ fds[ni].cl # 0
    /\ ni' = ni + 1
    /\ UNCHANGED <<kernelVars, clientVars, pollVars, npc, ncl, nreg, sig,
                   thrVars, orphan, raced, fault>>

CleanFill_Once ==
    /\ NetAt("clean") /\ ni < nfds /\ fds[ni].cl = 0
    /\ fds' = [fds EXCEPT ![ni] = fds[nfds - 1], ![nfds - 1] = NoSlot]
    /\ nfds' = nfds - 1 /\ ni' = ni + 1
    /\ UNCHANGED <<kernelVars, clientVars, rlisten, fds_buffer_size, npc, ncl,
                   nreg, sig, thrVars, orphan, raced, fault>>

CleanFill_NoMove ==
    /\ NetAt("clean") /\ ni < nfds /\ fds[ni].cl = 0
    /\ fds' = [fds EXCEPT ![nfds - 1] = NoSlot]
    /\ nfds' = nfds - 1
    /\ UNCHANGED <<kernelVars, clientVars, rlisten, fds_buffer_size, netVars,
                   thrVars, orphan, raced, fault>>

CleanFill ==
    /\ NetAt("clean") /\ ni < nfds /\ fds[ni].cl = 0
    /\ fds' = [fds EXCEPT ![ni] = fds[nfds - 1], ![nfds - 1] = NoSlot]
    /\ nfds' = nfds - 1
    /\ UNCHANGED <<kernelVars, clientVars, rlisten, fds_buffer_size, netVars,
                   thrVars, orphan, raced, fault>>

CleanEnd ==
    /\ NetAt("clean") /\ ni >= nfds
    /\ npc' = "loop" /\ ni' = 0
    /\ UNCHANGED <<kernelVars, clientVars, pollVars, ncl, nreg, sig, thrVars,
                   orphan, raced, fault>>
-----------------------------------------------------------------------------
(* handle_request, the body of a handler thread.                           *)
At(t, here, there) ==
    /\ fault = "none" /\ hpc[t] = here
    /\ hpc' = [hpc EXCEPT ![t] = there]

(* c->current_thr is written and c->socket read.                           *)
HandlerBegin(t) ==
    /\ At(t, "start", "read") /\ heap[hcl[t]] = "live"
    /\ UNCHANGED <<kernelVars, clientVars, pollVars, netVars, hcl, hreg,
                   orphan, raced, fault>>

(* socket_read_string: read again until a chunk ends a line.               *)
ReadPart(t) ==
    /\ At(t, "read", "read") /\ inbuf[hcl[t]] = "part"
    /\ inbuf' = [inbuf EXCEPT ![hcl[t]] = "none"]
    /\ UNCHANGED <<key, link, nconn, nacc, nsend, clientVars, pollVars,
                   netVars, hcl, hreg,
                   orphan, raced, fault>>

(* read_request: a blank line is answered "error" without a handler.       *)
ReadLine(t, blank) ==
    /\ At(t, "read", IF blank THEN "rehear" ELSE "handle")
    /\ inbuf[hcl[t]] = "line"
    /\ inbuf' = [inbuf EXCEPT ![hcl[t]] = "none"]
    /\ UNCHANGED <<key, link, nconn, nacc, nsend, clientVars, pollVars,
                   netVars, hcl, hreg,
                   orphan, raced, fault>>

ReadFails(t) ==
    /\ At(t, "read", "rehear") /\ inbuf[hcl[t]] = "none" /\ Dead(hcl[t])
    /\ UNCHANGED <<kernelVars, clientVars, pollVars, netVars, hcl, hreg,
                   orphan, raced, fault>>

(* get_and_call_handler: what the handlers change is module Registry's.    *)
CallHandler(t) ==
    /\ At(t, "handle", "rehear") /\ heap[hcl[t]] = "live"
    /\ UNCHANGED <<kernelVars, clientVars, pollVars, netVars, hcl, hreg,
                   orphan, raced, fault>>

(* The answer (of the request, or "error") is written to a connection that *)
(* was reset: write may fail with EPIPE, and SIGPIPE, which nothing        *)
(* catches or ignores, ends the process.                                   *)
AnswerBrokenPipe(t) ==
    /\ fault = "none" /\ hpc[t] \in {"read", "handle"}
    /\ link[hcl[t]] = "rst"
    /\ hpc[t] = "read" => inbuf[hcl[t]] # "part"
    /\ fault' = "crash"
    /\ UNCHANGED <<kernelVars, clientVars, pollVars, netVars, thrVars, orphan,
                   raced>>

SetCanRehear(t) ==
    /\ At(t, "rehear", "dload") /\ heap[hcl[t]] = "live"
    /\ can_rehear' = [can_rehear EXCEPT ![hcl[t]] = TRUE]
    /\ UNCHANGED <<kernelVars, client_table, heap, ref_count, pollVars,
                   netVars, hcl, hreg,
                   orphan, raced, fault>>

HandlerLoadRef(t) ==
    /\ At(t, "dload", "dstore") /\ heap[hcl[t]] = "live"
    /\ hreg' = [hreg EXCEPT ![t] = ref_count[hcl[t]]]
    /\ raced' = [raced EXCEPT ![hcl[t]] =
                   \/ @ \/ NetInside(hcl[t])
                   \/ \E u \in Thread : HandlerInside(u, hcl[t])]
    /\ UNCHANGED <<kernelVars, clientVars, pollVars, netVars, hcl, orphan,
                   fault>>

HandlerDecRef(t) ==
    /\ At(t, "dstore", "dcheck") /\ heap[hcl[t]] = "live"
    /\ ref_count' = [ref_count EXCEPT ![hcl[t]] = hreg[t] - 1]
    /\ hreg' = [hreg EXCEPT ![t] = 0]
    /\ UNCHANGED <<kernelVars, client_table, heap, can_rehear, pollVars,
                   netVars, hcl, orphan,
                   raced, fault>>

HandlerCheckRef(t) ==
    /\ At(t, "dcheck", "kill") /\ heap[hcl[t]] = "live"
    /\ DeleteIfUnreferenced(hcl[t])
    /\ hcl' = [hcl EXCEPT ![t] = 0]
    /\ UNCHANGED <<kernelVars, ref_count, can_rehear, pollVars, netVars, hreg,
                   orphan, raced, fault>>

(* pthread_kill(network_thread, SIGUSR1): outside poll the empty handler   *)
(* runs at once and nothing remembers the signal.                          *)
KillNetworkThread(t) ==
    /\ At(t, "kill", "idle")
    /\ sig' = (sig \/ npc = "poll")
    /\ UNCHANGED <<kernelVars, clientVars, pollVars, npc, ni, ncl, nreg, hcl,
                   hreg, orphan, raced, fault>>
-----------------------------------------------------------------------------
(* A client object is used after it was freed: undefined from here on.     *)
NetUses(c) ==
    \/ npc \in {"aload", "astore", "iload", "istore", "dload", "dstore",
                "dcheck"} /\ ncl = c
    \/ Scanning /\ fds[ni].cl = c
HandlerUses(t, c) ==
    hpc[t] \in {"start", "handle", "rehear", "dload", "dstore", "dcheck"}
    /\ hcl[t] = c

NetUsesFreed ==
    /\ fault = "none" /\ \E c \in Sock : NetUses(c) /\ heap[c] = "freed"
    /\ fault' = "ub"
    /\ UNCHANGED <<kernelVars, clientVars, pollVars, netVars, thrVars, orphan,
                   raced>>

HandlerUsesFreed(t) ==
    /\ fault = "none" /\ \E c \in Sock : HandlerUses(t, c) /\ heap[c] = "freed"
    /\ fault' = "ub"
    /\ UNCHANGED <<kernelVars, clientVars, pollVars, netVars, thrVars, orphan,
                   raced>>
-----------------------------------------------------------------------------
PeerStep ==
    \/ \E k \in Key : Connect(k)
    \/ \E s \in Sock, bytes \in {"part", "line"} : Send(s, bytes)
    \/ \E s \in Sock, how \in {"fin", "rst"} : Close(s, how)

NetStep ==
    \/ PollReturn \/ PollSleep \/ PollInterrupted
    \/ NoNewConnection \/ ClientGetOrCreate \/ GetpeernameFails
    \/ NetLoadRef("aload", "astore") \/ AddNewClientToFds
    \/ ScanQuiet \/ ScanHup \/ ScanIn
    \/ NetLoadRef("iload", "istore")
    \/ (\E t \in Thread : StartHandler(t)) \/ PthreadCreateFails
    \/ NetLoadRef("dload", "dstore") \/ NetDecRef \/ DropSlot \/ ScanEnd
    \/ CleanSkip \/ CleanFill \/ CleanEnd
    \/ NetUsesFreed

HandlerStep(t) ==
    \/ HandlerBegin(t)
    \/ ReadPart(t) \/ (\E blank \in BOOLEAN : ReadLine(t, blank))
    \/ ReadFails(t)
    \/ CallHandler(t) \/ AnswerBrokenPipe(t) \/ SetCanRehear(t)
    \/ HandlerLoadRef(t) \/ HandlerDecRef(t) \/ HandlerCheckRef(t)
    \/ KillNetworkThread(t)
    \/ HandlerUsesFreed(t)

Next == PeerStep \/ NetStep \/ (\E t \in Thread : HandlerStep(t))

Spec == Init /\ [][Next]_vars

(* The scheduler runs every thread that is not blocked; peers owe nothing. *)
FairSpec ==
    /\ Spec
    /\ WF_vars(NetStep)
    /\ \A t \in Thread : WF_vars(HandlerStep(t))
-----------------------------------------------------------------------------
(* Type invariant: the range of every variable of the network thread, its  *)
(* handlers and the shared client objects.                                 *)
NetPc == {"loop", "poll", "accept", "aload", "astore", "scan", "iload",
          "istore", "dload", "dstore", "dcheck", "clean"}
HandlerPc == {"idle", "start", "read", "handle", "rehear", "dload", "dstore",
              "dcheck", "kill"}

KernelTypes ==
    /\ key \in [Sock -> Key \cup {NoKey}]
    /\ link \in [Sock -> {"none", "up", "fin", "rst"}]
    /\ inbuf \in [Sock -> {"none", "part", "line"}]
    /\ nconn \in 0..MaxSock /\ nacc \in 0..nconn /\ nsend \in 0..MaxSend
ClientTypes ==
    /\ client_table \in [Key -> Sock0]
    /\ heap \in [Sock -> {"none", "live", "freed"}]
    /\ ref_count \in [Sock -> Int]
PollTypes ==
    /\ nfds \in 1..(nacc + 1) /\ fds \in [Sock -> Slot]
    /\ fds_buffer_size \in Nat
NetTypes ==
    /\ npc \in NetPc /\ ni \in 0..(MaxSock + 1) /\ ncl \in Sock0
    /\ nreg \in Int
HandlerTypes ==
    /\ hpc \in [Thread -> HandlerPc] /\ hcl \in [Thread -> Sock0]
    /\ hreg \in [Thread -> Int]
FlagTypes ==
    /\ rlisten \in BOOLEAN /\ sig \in BOOLEAN
    /\ can_rehear \in [Sock -> BOOLEAN]
    /\ orphan \in [Sock -> BOOLEAN] /\ raced \in [Sock -> BOOLEAN]
    /\ fault \in {"none", "crash", "ub"}

TypeOK ==
    /\ KernelTypes /\ ClientTypes /\ PollTypes
    /\ NetTypes /\ HandlerTypes /\ FlagTypes

(* A handler has work to do on a client until it has set can_rehear.       *)
Busy(t) == hpc[t] \in {"start", "read", "handle", "rehear"}

(* network.c takes POLLIN out of a slot's events while a handler runs and  *)
(* puts it back only on can_rehear: two threads never read the socket of   *)
(* one client, nor handle its requests, at the same time.                  *)
OneReader ==
    \A t, u \in Thread : t # u /\ Busy(t) /\ Busy(u) => hcl[t] # hcl[u]

(* clean_fds leaves no hole among the polled slots, and handle_incoming_data *)
(* makes holes only behind its index: poll and the scan never meet a NULL  *)
(* client, whatever mix of hangups one pass handles.                       *)
PollSetCompact ==
    \A i \in Used :
        fds[i].cl = 0 => \/ npc \in {"scan", "iload", "istore", "dload",
                                     "dstore", "dcheck"} /\ i < ni
                         \/ npc = "clean" /\ i >= ni

(* add_new_client_to_fds doubles fds[] and clients[] before the slot that  *)
(* does not fit is written.                                                *)
PollBufferFits == nfds <= fds_buffer_size

(* The references to a client: its slots (not the one being dropped), the  *)
(* threads that have not given theirs back.                                *)
SlotRefs(c) == {i \in Used : fds[i].cl = c /\ ~(npc = "dcheck" /\ i = ni)}
HandlerRefs(c) ==
    {t \in Thread : /\ hcl[t] = c
                    /\ hpc[t] \in {"start", "read", "handle", "rehear",
                                   "dload", "dstore"}}
RefsTo(c) == Cardinality(SlotRefs(c)) + Cardinality(HandlerRefs(c))
                + (IF orphan[c] THEN 1 ELSE 0)

(* As long as no two threads have been inside client_inc_ref/client_dec_ref *)
(* of a client together, ref_count is exactly the number of its references *)
(* and the object is freed only when there is none: the missing lock is    *)
(* all that is wrong with the counting.                                    *)
RefsCounted ==
    \A c \in Sock : ~raced[c] =>
        /\ heap[c] = "live" => ref_count[c] = RefsTo(c)
        /\ heap[c] = "freed" => RefsTo(c) = 0

(* No freed client is used unless the counting of some client was raced.   *)
UseAfterFreeNeedsRace == fault = "ub" => \E c \in Sock : raced[c]

(* A client nobody refers to any more is freed and out of the client table *)
(* (not counting a client some thread is about to free or to refer to).    *)
NoLeak ==
    \A c \in Sock :
        heap[c] = "live" /\ RefsTo(c) = 0 /\ ~raced[c]
            => NetInside(c) \/ \E t \in Thread : HandlerInside(t, c)

HasSlot(s) == \E i \in Used : fds[i].cl = s
Polling == npc \in {"loop", "poll"}

(* Hangups of some clients, and the compaction that follows, never take a  *)
(* connected client out of the poll set, as long as its address is not     *)
(* that of another connection.                                             *)
ConnectionPolled ==
    \A s \in Sock :
        /\ Polling /\ s <= nacc /\ link[s] = "up" /\ fault = "none"
        /\ \A r \in Sock \ {s} : key[r] # key[s]
        => HasSlot(s)

(* server_run: "if the event is on the first slot, there is a new          *)
(* connection", which handle_new_connection adds to the poll set.          *)
NewConnectionPolled ==
    \A s \in Sock :
        Polling /\ s <= nacc /\ link[s] = "up" /\ fault = "none" => HasSlot(s)

Stopped == fault # "none"

(* A closed connection is noticed and its slot dropped, also when it was   *)
(* not armed because a handler was at work: POLLRDHUP stays in events.     *)
HangupReaped ==
    \A s \in Sock : (s <= nacc /\ Dead(s)) ~> (~HasSlot(s) \/ Stopped)

(* Data on an armed slot gets a handler, unless the peer hangs up first or *)
(* the process is out of threads.                                          *)
RequestStarted ==
    \A s \in Sock :
        (\E i \in Used : fds[i].cl = s /\ fds[i].armed /\ inbuf[s] # "none")
            ~> (\/ \E t \in Thread : hcl[t] = s /\ Busy(t)
                \/ Dead(s) \/ orphan[s] \/ Stopped)

(* A client whose handler has finished when poll returns, for whatever     *)
(* reason, is rearmed: the scan meets its slot although it is not ready.   *)
RearmedIfPollReturns ==
    \A s \in Sock :
        (can_rehear[s] /\ npc = "accept")
            ~> (~can_rehear[s] \/ ~HasSlot(s) \/ Stopped)

(* protocol.c and network.c: the SIGUSR1 sent when a handler ends is there *)
(* to interrupt poll, so that the finished client is rearmed.              *)
RearmedAfterSignal ==
    \A s \in Sock : can_rehear[s] ~> (~can_rehear[s] \/ ~HasSlot(s) \/ Stopped)
=============================================================================
