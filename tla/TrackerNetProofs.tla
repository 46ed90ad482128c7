-------------------------- MODULE TrackerNetProofs --------------------------
(***************************************************************************)
(* Theorems about TrackerNet for every number of connections, addresses,   *)
(* handler threads and writes: types, one reader per client, no connection *)
(* dropped from the poll set, no slot beyond the buffer.                   *)
(***************************************************************************)
EXTENDS TrackerNet, TLAPS

(* Where the network thread and the handlers are, and what their registers *)
(* then hold.                                                              *)
Control ==
    /\ npc \in {"aload", "astore"} => ncl \in 1..nacc /\ nfds <= nacc
    /\ npc \in {"iload", "istore", "dload", "dstore", "dcheck"} =>
          ni \in Used /\ ncl = fds[ni].cl /\ ncl # 0
    /\ npc \in {"scan", "clean"} => ni >= 1
    /\ NetAt("accept") /\ rlisten => nacc < nconn
    /\ \A t \in Thread : hpc[t] \notin {"idle", "kill"} => hcl[t] \in 1..nacc
    /\ \A i \in Used : fds[i].cl <= nacc
    /\ \A k \in Key : client_table[k] <= nacc
    /\ \A s \in 1..nconn : key[s] \in Key

TypeInv == TypeOK /\ Control /\ PollSetCompact

(* The two slot values the code writes are slots.                          *)
LEMMA SlotTypes == NoSlot \in Slot /\ \A c \in Sock0 : NewSlot(c) \in Slot
  BY ConstAssumption DEF NoSlot, NewSlot, Slot, Sock0

(* poll and the scan change a slot's flags, never its client.              *)
LEMMA SlotFlags ==
    ASSUME NEW sl \in Slot
    PROVE  /\ Polled(sl) \in Slot /\ Polled(sl).cl = sl.cl
           /\ Quiet(sl) \in Slot /\ Quiet(sl).cl = sl.cl
<1>1. ReadsIn(sl) \in BOOLEAN /\ HungUp(sl) \in BOOLEAN
  BY DEF ReadsIn, HungUp, Dead, Slot
<1> HIDE DEF ReadsIn, HungUp
<1> QED
  BY <1>1 DEF Slot, Polled, Quiet

(* The scan rearms or disarms a slot without changing its client.          *)
LEMMA ScanFlags ==
    ASSUME fds \in [Sock -> Slot], NEW i \in Sock
    PROVE  /\ Rearmed(i) \in Slot /\ Rearmed(i).cl = fds[i].cl
           /\ Disarmed(i) \in Slot /\ Disarmed(i).cl = fds[i].cl
  BY DEF Slot, Rearmed, Disarmed

(* server_run reaches its loop in a well-typed state.                      *)
LEMMA TypeInvInit == Init => TypeInv
<1> SUFFICES ASSUME Init PROVE TypeInv
  OBVIOUS
<1> USE ConstAssumption, SlotTypes DEF Init, Sock, Sock0, Used
<1>1. KernelTypes /\ ClientTypes
  BY DEF KernelTypes, ClientTypes
<1>2. PollTypes
  BY DEF PollTypes
<1>3. NetTypes /\ HandlerTypes
  BY DEF NetTypes, HandlerTypes, NetPc, HandlerPc
<1>5. FlagTypes
  BY DEF FlagTypes
<1>4. Control /\ PollSetCompact
  BY DEF Control, NetAt, PollSetCompact
<1> QED
  BY <1>1, <1>2, <1>3, <1>4, <1>5 DEF TypeInv, TypeOK

(* The indices and addresses that the steps use are in their domains.      *)
Domains ==
    /\ \A i \in Used : i \in Sock
    /\ \A i \in Sock : fds[i].cl \in Sock0
    /\ \A i \in Used : fds[i].cl # 0 =>
          fds[i].cl \in Sock /\ key[fds[i].cl] \in Key
    /\ npc \in {"aload", "astore", "iload", "istore", "dload", "dstore",
                "dcheck"} => ncl \in Sock /\ key[ncl] \in Key
    /\ \A t \in Thread : hpc[t] \notin {"idle", "kill"} =>
          hcl[t] \in Sock /\ key[hcl[t]] \in Key

(* Every index and address a step dereferences is in its domain.           *)
LEMMA DomainsHold == TypeInv => Domains
<1> SUFFICES ASSUME TypeInv PROVE Domains
  OBVIOUS
<1> USE ConstAssumption DEF TypeInv, TypeOK, KernelTypes, PollTypes, Control
<1>1. \A i \in Sock : fds[i].cl \in Sock0
  BY DEF Slot
<1>2. Used \subseteq Sock
  BY DEF Used, Sock
<1>3. \A i \in Used : fds[i].cl # 0 =>
         fds[i].cl \in Sock /\ key[fds[i].cl] \in Key
  BY <1>1, <1>2 DEF Sock, Sock0
<1>4. npc \in {"aload", "astore", "iload", "istore", "dload", "dstore",
               "dcheck"} => ncl \in Sock /\ key[ncl] \in Key
  BY <1>3 DEF Sock
<1>5. \A t \in Thread : hpc[t] \notin {"idle", "kill"} =>
         hcl[t] \in Sock /\ key[hcl[t]] \in Key
  BY DEF Sock
<1> QED
  BY <1>1, <1>2, <1>3, <1>4, <1>5 DEF Domains

(* delete_client keeps the client table and the heap well-typed.           *)
LEMMA DeleteTypes ==
    ASSUME ClientTypes, NEW c \in Sock, key[c] \in Key,
           DeleteIfUnreferenced(c), ref_count' = ref_count
    PROVE  /\ ClientTypes'
           /\ \A k \in Key : client_table'[k] \in {client_table[k], 0}
  BY ConstAssumption
  DEF DeleteIfUnreferenced, DeleteClient, ClientTypes, Sock0, Sock

(* poll returning writes revents only: the slots keep their clients.       *)
LEMMA PollReturnTypeInv ==
    ASSUME TypeInv, PollReturn
    PROVE  TypeInv'
<1> USE ConstAssumption
<1>0. /\ KernelTypes /\ ClientTypes /\ PollTypes /\ NetTypes /\ HandlerTypes
      /\ FlagTypes /\ Control /\ PollSetCompact /\ Domains
      /\ PollReturn
  BY DomainsHold DEF TypeInv, TypeOK
<1>1. fds' \in [Sock -> Slot] /\ \A i \in Sock : fds'[i].cl = fds[i].cl
  BY <1>0, SlotFlags DEF PollReturn, PollTypes
<1>2. PollTypes' /\ PollSetCompact'
  BY <1>0, <1>1
  DEF PollReturn, NetAt, PollTypes, PollSetCompact, Domains, Used, kernelVars
<1>3. rlisten' \in BOOLEAN
  BY <1>0 DEF PollReturn
<1>4. FlagTypes'
  BY <1>0, <1>3 DEF PollReturn, FlagTypes, clientVars
<1>5. NetTypes' /\ HandlerTypes'
  BY <1>0
  DEF PollReturn, NetTypes, HandlerTypes, NetPc, thrVars
<1>6. KernelTypes' /\ ClientTypes'
  BY <1>0
  DEF PollReturn, KernelTypes, ClientTypes, kernelVars, clientVars
<1>7. Control'
  BY <1>0, <1>1
  DEF PollReturn, NetAt, Control, Domains, Used, kernelVars, clientVars,
      thrVars
<1> QED
  BY <1>2, <1>4, <1>5, <1>6, <1>7 DEF TypeInv, TypeOK

(* EINTR clears revents only: the slots keep their clients.                *)
LEMMA PollInterruptedTypeInv ==
    ASSUME TypeInv, PollInterrupted
    PROVE  TypeInv'
<1> USE ConstAssumption
<1>0. /\ KernelTypes /\ ClientTypes /\ PollTypes /\ NetTypes /\ HandlerTypes
      /\ FlagTypes /\ Control /\ PollSetCompact /\ Domains
      /\ PollInterrupted
  BY DomainsHold DEF TypeInv, TypeOK
<1>1. fds' \in [Sock -> Slot] /\ \A i \in Sock : fds'[i].cl = fds[i].cl
  BY <1>0, SlotFlags DEF PollInterrupted, PollTypes
<1>2. PollTypes' /\ PollSetCompact'
  BY <1>0, <1>1
  DEF PollInterrupted, NetAt, PollTypes, PollSetCompact, Domains, Used,
      kernelVars
<1>3. FlagTypes'
  BY <1>0 DEF PollInterrupted, FlagTypes, clientVars
<1>4. NetTypes' /\ HandlerTypes'
  BY <1>0
  DEF PollInterrupted, NetTypes, HandlerTypes, NetPc, thrVars
<1>5. KernelTypes' /\ ClientTypes'
  BY <1>0
  DEF PollInterrupted, KernelTypes, ClientTypes, kernelVars, clientVars
<1>6. Control'
  BY <1>0, <1>1
  DEF PollInterrupted, NetAt, Control, Domains, Used, kernelVars, clientVars,
      thrVars
<1> QED
  BY <1>2, <1>3, <1>4, <1>5, <1>6 DEF TypeInv, TypeOK

(* An accepted connection gets a client that was accepted, new or found.   *)
LEMMA ClientGetOrCreateTypeInv ==
    ASSUME TypeInv, ClientGetOrCreate
    PROVE  TypeInv'
<1> USE ConstAssumption
<1>0. /\ KernelTypes /\ ClientTypes /\ PollTypes /\ NetTypes /\ HandlerTypes
      /\ FlagTypes /\ Control /\ PollSetCompact /\ Domains
      /\ ClientGetOrCreate
  BY DomainsHold DEF TypeInv, TypeOK
<1> DEFINE s == nacc + 1
           found == client_table[key[s]]
<1>1. s \in Sock /\ key[s] \in Key /\ found \in Sock0 /\ found <= nacc
  BY <1>0
  DEF ClientGetOrCreate, NetAt, Control, KernelTypes, ClientTypes, Sock
<1>2. nacc' = s /\ npc' = "aload" /\ s <= nconn
  BY <1>0 DEF ClientGetOrCreate, NetAt, Control, KernelTypes
<1>3. /\ ncl' \in 1..nacc'
      /\ client_table' \in [Key -> Sock0] /\ heap' \in
            [Sock -> {"none", "live", "freed"}]
      /\ \A k \in Key : client_table'[k] <= nacc'
  <2>1. CASE found = 0
    <3>1. /\ heap' = [heap EXCEPT ![s] = "live"] /\ ncl' = s
          /\ client_table' = [client_table EXCEPT ![key[s]] = s]
      BY <1>0, <2>1 DEF ClientGetOrCreate
    <3>2. ncl' \in 1..nacc'
      BY <3>1, <1>1, <1>2 DEF Sock
    <3> QED
      BY <3>1, <3>2, <1>1, <1>2, <1>0
      DEF Control, KernelTypes, ClientTypes, Sock0, Sock
  <2>2. CASE found # 0
    <3>1. ncl' = found /\ heap' = heap /\ client_table' = client_table
      BY <1>0, <2>2 DEF ClientGetOrCreate
    <3> QED
      BY <3>1, <2>2, <1>1, <1>2, <1>0
      DEF Control, KernelTypes, ClientTypes, Sock0, Sock
  <2> QED
    BY <2>1, <2>2
<1>4. KernelTypes' /\ ClientTypes'
  BY <1>0, <1>2, <1>3
  DEF ClientGetOrCreate, KernelTypes, ClientTypes, Sock
<1>5. PollTypes' /\ PollSetCompact'
  BY <1>0, <1>2
  DEF ClientGetOrCreate, NetAt, KernelTypes, PollTypes, PollSetCompact, Used,
      pollVars
<1>6. NetTypes' /\ HandlerTypes'
  BY <1>0, <1>1, <1>2, <1>3
  DEF ClientGetOrCreate, NetTypes, HandlerTypes, NetPc, Sock, Sock0, thrVars
<1>7. FlagTypes'
  BY <1>0
  DEF ClientGetOrCreate, NetEnters, FlagTypes, pollVars
<1>8. Control'
  BY <1>0, <1>1, <1>2, <1>3
  DEF ClientGetOrCreate, NetAt, Control, KernelTypes, PollTypes, HandlerTypes,
      Domains, Used, Sock, Sock0, pollVars, thrVars
<1> QED
  BY <1>4, <1>5, <1>6, <1>7, <1>8 DEF TypeInv, TypeOK

(* The failing getpeername leaves all but the backlog alone.               *)
LEMMA GetpeernameFailsTypeInv ==
    ASSUME TypeInv, GetpeernameFails
    PROVE  TypeInv'
<1> USE ConstAssumption
<1>0. /\ KernelTypes /\ ClientTypes /\ PollTypes /\ NetTypes /\ HandlerTypes
      /\ FlagTypes /\ Control /\ PollSetCompact /\ Domains
      /\ GetpeernameFails
  BY DomainsHold DEF TypeInv, TypeOK
<1>1. FlagTypes'
  BY <1>0 DEF GetpeernameFails, NetAt, FlagTypes,
    kernelVars, clientVars, pollVars, netVars
<1>2. KernelTypes'
  BY <1>0 DEF GetpeernameFails, NetAt, KernelTypes,
    kernelVars, Sock, Control
<1>3. ClientTypes'
  BY <1>0 DEF GetpeernameFails, NetAt, Domains, ClientTypes,
    clientVars
<1>4. PollTypes'
  BY <1>0, SlotTypes DEF GetpeernameFails, NetAt, PollTypes,
    KernelTypes, NetTypes, pollVars, kernelVars, Sock, Sock0, Control,
    Used
<1>5. NetTypes'
  BY <1>0 DEF GetpeernameFails, NetAt, Domains, KernelTypes,
    ClientTypes, PollTypes, NetTypes, NetPc, Control, Used, Sock, Sock0,
    netVars
<1>6. HandlerTypes'
  BY <1>0 DEF GetpeernameFails, NetAt, Domains, ClientTypes,
    NetTypes, HandlerTypes, HandlerPc, thrVars
<1>7. Control'
  BY <1>0 DEF GetpeernameFails, NetAt, Domains, KernelTypes,
    ClientTypes, PollTypes, NetTypes, HandlerTypes, Control, NetAt, Used,
    Sock, Sock0, kernelVars, clientVars, pollVars, netVars, thrVars
<1>8. PollSetCompact'
  BY <1>0 DEF GetpeernameFails, NetAt, KernelTypes,
    PollTypes, NetTypes, Control, PollSetCompact, Used, Sock, Sock0,
    kernelVars, clientVars, pollVars, netVars, thrVars
<1> QED
  BY <1>1, <1>2, <1>3, <1>4, <1>5, <1>6, <1>7, <1>8 DEF TypeInv, TypeOK

(* Rearming a finished client keeps the poll set well-formed.              *)
LEMMA ScanQuietTypeInv ==
    ASSUME TypeInv, ScanQuiet
    PROVE  TypeInv'
<1> USE ConstAssumption
<1>0. /\ KernelTypes /\ ClientTypes /\ PollTypes /\ NetTypes /\ HandlerTypes
      /\ FlagTypes /\ Control /\ PollSetCompact /\ Domains
      /\ ScanQuiet
  BY DomainsHold DEF TypeInv, TypeOK
<1>10. ni \in Used /\ ni \in Sock
  BY <1>0 DEF ScanQuiet, Scanning, NetAt, Control, PollTypes, KernelTypes,
    NetTypes, Used, Sock
<1>1. fds' \in [Sock -> Slot] /\ \A i \in Sock : fds'[i].cl = fds[i].cl
  BY <1>0, <1>10, ScanFlags DEF ScanQuiet, PollTypes
<1>2. FlagTypes'
  BY <1>0 DEF ScanQuiet, NetAt, Scanning, Rearm, FlagTypes,
    kernelVars, clientVars, pollVars, netVars
<1>3. KernelTypes'
  BY <1>0 DEF ScanQuiet, NetAt, Scanning, KernelTypes,
    kernelVars, Sock
<1>4. ClientTypes'
  BY <1>0 DEF ScanQuiet, NetAt, Scanning, Domains,
    ClientTypes, clientVars
<1>5. PollTypes'
  BY <1>0, <1>1, SlotTypes DEF ScanQuiet, NetAt, Scanning,
    PollTypes, KernelTypes, NetTypes, pollVars, kernelVars, Sock, Sock0,
    Control, Used
<1>6. NetTypes'
  BY <1>0 DEF ScanQuiet, NetAt, Scanning, Domains,
    KernelTypes, ClientTypes, PollTypes, NetTypes, NetPc, Control, Used,
    Sock, Sock0, netVars
<1>7. HandlerTypes'
  BY <1>0 DEF ScanQuiet, NetAt, Scanning, Domains,
    ClientTypes, NetTypes, HandlerTypes, HandlerPc, thrVars
<1>8. Control'
  BY <1>0, <1>1 DEF ScanQuiet, NetAt, Scanning, Domains,
    KernelTypes, ClientTypes, PollTypes, NetTypes, HandlerTypes, Control,
    NetAt, Used, Sock, Sock0, kernelVars, clientVars, pollVars, netVars,
    thrVars
<1>9. PollSetCompact'
  BY <1>0, <1>1 DEF ScanQuiet, NetAt, Scanning, KernelTypes,
    PollTypes, NetTypes, Control, PollSetCompact, Used, Sock, Sock0,
    kernelVars, clientVars, pollVars, netVars, thrVars
<1> QED
  BY <1>1, <1>2, <1>3, <1>4, <1>5, <1>6, <1>7, <1>8, <1>9 DEF TypeInv, TypeOK

(* The scan goes to drop the slot of the client it has reported dead.      *)
LEMMA ScanHupTypeInv ==
    ASSUME TypeInv, ScanHup
    PROVE  TypeInv'
<1> USE ConstAssumption
<1>0. /\ KernelTypes /\ ClientTypes /\ PollTypes /\ NetTypes /\ HandlerTypes
      /\ FlagTypes /\ Control /\ PollSetCompact /\ Domains
      /\ ScanHup
  BY DomainsHold DEF TypeInv, TypeOK
<1>10. ni \in Used /\ ni \in Sock
  BY <1>0 DEF ScanHup, Scanning, NetAt, Control, PollTypes, KernelTypes,
    NetTypes, Used, Sock
<1>1. fds' \in [Sock -> Slot] /\ \A i \in Sock : fds'[i].cl = fds[i].cl
  BY <1>0, <1>10, ScanFlags DEF ScanHup, PollTypes
<1>2. FlagTypes'
  BY <1>0 DEF ScanHup, NetAt, Scanning, Rearm, FlagTypes,
    kernelVars, clientVars, pollVars, netVars
<1>3. KernelTypes'
  BY <1>0 DEF ScanHup, NetAt, Scanning, KernelTypes,
    kernelVars, Sock
<1>4. ClientTypes'
  BY <1>0 DEF ScanHup, NetAt, Scanning, Domains,
    ClientTypes, clientVars
<1>5. PollTypes'
  BY <1>0, <1>1, SlotTypes DEF ScanHup, NetAt, Scanning,
    PollTypes, KernelTypes, NetTypes, pollVars, kernelVars, Sock, Sock0,
    Control, Used
<1>6. NetTypes'
  BY <1>0 DEF ScanHup, NetAt, Scanning, Domains,
    KernelTypes, ClientTypes, PollTypes, NetTypes, NetPc, Control, Used,
    Sock, Sock0, netVars
<1>7. HandlerTypes'
  BY <1>0 DEF ScanHup, NetAt, Scanning, Domains,
    ClientTypes, NetTypes, HandlerTypes, HandlerPc, thrVars
<1>8. Control'
  BY <1>0, <1>1 DEF ScanHup, NetAt, Scanning, Domains,
    KernelTypes, ClientTypes, PollTypes, NetTypes, HandlerTypes, Control,
    NetAt, Used, Sock, Sock0, kernelVars, clientVars, pollVars, netVars,
    thrVars
<1>9. PollSetCompact'
  BY <1>0, <1>1 DEF ScanHup, NetAt, Scanning, KernelTypes,
    PollTypes, NetTypes, Control, PollSetCompact, Used, Sock, Sock0,
    kernelVars, clientVars, pollVars, netVars, thrVars
<1> QED
  BY <1>1, <1>2, <1>3, <1>4, <1>5, <1>6, <1>7, <1>8, <1>9 DEF TypeInv, TypeOK

(* The scan goes to serve the client of the slot it is at.                 *)
LEMMA ScanInTypeInv ==
    ASSUME TypeInv, ScanIn
    PROVE  TypeInv'
<1> USE ConstAssumption
<1>0. /\ KernelTypes /\ ClientTypes /\ PollTypes /\ NetTypes /\ HandlerTypes
      /\ FlagTypes /\ Control /\ PollSetCompact /\ Domains
      /\ ScanIn
  BY DomainsHold DEF TypeInv, TypeOK
<1>10. ni \in Used /\ ni \in Sock
  BY <1>0 DEF ScanIn, Scanning, NetAt, Control, PollTypes, KernelTypes,
    NetTypes, Used, Sock
<1>1. fds' \in [Sock -> Slot] /\ \A i \in Sock : fds'[i].cl = fds[i].cl
  BY <1>0, <1>10, ScanFlags DEF ScanIn, PollTypes
<1>2. FlagTypes'
  BY <1>0 DEF ScanIn, NetAt, Scanning, Rearm, FlagTypes,
    kernelVars, clientVars, pollVars, netVars
<1>3. KernelTypes'
  BY <1>0 DEF ScanIn, NetAt, Scanning, KernelTypes,
    kernelVars, Sock
<1>4. ClientTypes'
  BY <1>0 DEF ScanIn, NetAt, Scanning, Domains, ClientTypes,
    clientVars
<1>5. PollTypes'
  BY <1>0, <1>1, SlotTypes DEF ScanIn, NetAt, Scanning,
    PollTypes, KernelTypes, NetTypes, pollVars, kernelVars, Sock, Sock0,
    Control, Used
<1>6. NetTypes'
  BY <1>0 DEF ScanIn, NetAt, Scanning, Domains, KernelTypes,
    ClientTypes, PollTypes, NetTypes, NetPc, Control, Used, Sock, Sock0,
    netVars
<1>7. HandlerTypes'
  BY <1>0 DEF ScanIn, NetAt, Scanning, Domains, ClientTypes,
    NetTypes, HandlerTypes, HandlerPc, thrVars
<1>8. Control'
  BY <1>0, <1>1 DEF ScanIn, NetAt, Scanning, Domains,
    KernelTypes, ClientTypes, PollTypes, NetTypes, HandlerTypes, Control,
    NetAt, Used, Sock, Sock0, kernelVars, clientVars, pollVars, netVars,
    thrVars
<1>9. PollSetCompact'
  BY <1>0, <1>1 DEF ScanIn, NetAt, Scanning, KernelTypes,
    PollTypes, NetTypes, Control, PollSetCompact, Used, Sock, Sock0,
    kernelVars, clientVars, pollVars, netVars, thrVars
<1> QED
  BY <1>1, <1>2, <1>3, <1>4, <1>5, <1>6, <1>7, <1>8, <1>9 DEF TypeInv, TypeOK

(* A started handler holds a client that was accepted.                     *)
LEMMA StartHandlerTypeInv ==
    ASSUME TypeInv, NEW t \in Thread, StartHandler(t)
    PROVE  TypeInv'
<1> USE ConstAssumption
<1>0. /\ KernelTypes /\ ClientTypes /\ PollTypes /\ NetTypes /\ HandlerTypes
      /\ FlagTypes /\ Control /\ PollSetCompact /\ Domains
      /\ StartHandler(t)
  BY DomainsHold DEF TypeInv, TypeOK
<1>1. FlagTypes'
  BY <1>0 DEF StartHandler, NetAt, FlagTypes, kernelVars,
    clientVars, pollVars, netVars
<1>2. KernelTypes'
  BY <1>0 DEF StartHandler, NetAt, KernelTypes, kernelVars,
    Sock
<1>3. ClientTypes'
  BY <1>0 DEF StartHandler, NetAt, Domains, ClientTypes,
    NetTypes
<1>4. PollTypes'
  BY <1>0, SlotTypes DEF StartHandler, NetAt, PollTypes,
    KernelTypes, NetTypes, pollVars, kernelVars, Sock, Sock0, Control,
    Used
<1>5. NetTypes'
  BY <1>0 DEF StartHandler, NetAt, Domains, KernelTypes,
    ClientTypes, PollTypes, NetTypes, NetPc, Control, Used, Sock, Sock0,
    netVars
<1>6. HandlerTypes'
  BY <1>0 DEF StartHandler, NetAt, Domains, ClientTypes,
    NetTypes, HandlerTypes, HandlerPc, thrVars
<1>7. Control'
  BY <1>0 DEF StartHandler, NetAt, Domains, KernelTypes,
    ClientTypes, PollTypes, NetTypes, HandlerTypes, Control, NetAt, Used,
    Sock, Sock0, kernelVars, clientVars, pollVars, netVars, thrVars
<1>8. PollSetCompact'
  BY <1>0 DEF StartHandler, NetAt, KernelTypes, PollTypes,
    NetTypes, Control, PollSetCompact, Used, Sock, Sock0, kernelVars,
    clientVars, pollVars, netVars, thrVars
<1> QED
  BY <1>1, <1>2, <1>3, <1>4, <1>5, <1>6, <1>7, <1>8 DEF TypeInv, TypeOK

(* The hole left by a hangup is behind the scan's index.                   *)
LEMMA DropSlotTypeInv ==
    ASSUME TypeInv, DropSlot
    PROVE  TypeInv'
<1> USE ConstAssumption
<1>0. /\ KernelTypes /\ ClientTypes /\ PollTypes /\ NetTypes /\ HandlerTypes
      /\ FlagTypes /\ Control /\ PollSetCompact /\ Domains
      /\ DropSlot
  BY DomainsHold DEF TypeInv, TypeOK
<1>1. /\ fds' \in [Sock -> Slot] /\ ni \in Used
      /\ \A i \in Sock : fds'[i].cl = IF i = ni THEN 0 ELSE fds[i].cl
  BY <1>0, SlotTypes
  DEF DropSlot, NetAt, Control, PollTypes, Domains, NoSlot
<1>2. ClientTypes' /\ \A k \in Key : client_table'[k] \in {client_table[k], 0}
  BY <1>0, DeleteTypes DEF DropSlot, NetAt, Domains
<1>3. KernelTypes' /\ HandlerTypes'
  BY <1>0 DEF DropSlot, KernelTypes, HandlerTypes, kernelVars, thrVars
<1>4. PollTypes' /\ NetTypes'
  BY <1>0, <1>1
  DEF DropSlot, KernelTypes, PollTypes, NetTypes, NetPc, Used, Sock0,
      kernelVars
<1>5. FlagTypes'
  BY <1>0 DEF DropSlot, FlagTypes
<1>6. PollSetCompact'
  BY <1>0, <1>1
  DEF DropSlot, NetAt, PollSetCompact, PollTypes, NetTypes, KernelTypes,
      Domains, Used
<1>7. Control'
  BY <1>0, <1>1, <1>2
  DEF DropSlot, NetAt, Control, KernelTypes, PollTypes, NetTypes, ClientTypes,
      Domains, Used, Sock0, kernelVars, thrVars
<1> QED
  BY <1>2, <1>3, <1>4, <1>5, <1>6, <1>7 DEF TypeInv, TypeOK

(* Filling a hole with the last slot leaves none before the index.         *)
LEMMA CleanFillTypeInv ==
    ASSUME TypeInv, CleanFill
    PROVE  TypeInv'
<1> USE ConstAssumption
<1>0. /\ KernelTypes /\ ClientTypes /\ PollTypes /\ NetTypes /\ HandlerTypes
      /\ FlagTypes /\ Control /\ PollSetCompact /\ Domains
      /\ CleanFill
  BY DomainsHold DEF TypeInv, TypeOK
<1>1. ni \in Used /\ nfds - 1 \in Sock /\ ni \in Sock /\ nfds' = nfds - 1
  BY <1>0
  DEF CleanFill, NetAt, Control, NetTypes, PollTypes, KernelTypes, Used, Sock
<1>2. /\ fds' \in [Sock -> Slot]
      /\ \A i \in Used' : fds'[i].cl = IF i = ni THEN fds[nfds - 1].cl
                                                  ELSE fds[i].cl
  BY <1>0, <1>1, SlotTypes DEF CleanFill, PollTypes, KernelTypes, Used, Sock
<1>3. KernelTypes' /\ ClientTypes' /\ HandlerTypes' /\ NetTypes'
  BY <1>0
  DEF CleanFill, KernelTypes, ClientTypes, HandlerTypes, NetTypes, kernelVars,
      clientVars, thrVars, netVars
<1>4. PollTypes' /\ Used' \subseteq Used /\ nfds - 1 \in Used
  BY <1>0, <1>1, <1>2
  DEF CleanFill, PollTypes, KernelTypes, Used, kernelVars, Sock
<1>5. FlagTypes'
  BY <1>0 DEF CleanFill, FlagTypes, clientVars, netVars
<1>6. PollSetCompact'
  BY <1>0, <1>1, <1>2, <1>4
  DEF CleanFill, NetAt, PollSetCompact, PollTypes, NetTypes, KernelTypes,
      Used, Sock, netVars
<1>7. Control'
  <2>1. \A i \in Used' : fds'[i].cl <= nacc
    BY <1>0, <1>1, <1>2, <1>4 DEF Control
  <2> QED
    BY <1>0, <2>1
    DEF CleanFill, NetAt, Control, kernelVars, clientVars, thrVars, netVars
<1> QED
  BY <1>3, <1>4, <1>5, <1>6, <1>7 DEF TypeInv, TypeOK

(* Reading the count changes no shared state but the history.              *)
LEMMA HandlerLoadRefTypeInv ==
    ASSUME TypeInv, NEW t \in Thread, HandlerLoadRef(t)
    PROVE  TypeInv'
<1> USE ConstAssumption
<1>0. /\ KernelTypes /\ ClientTypes /\ PollTypes /\ NetTypes /\ HandlerTypes
      /\ FlagTypes /\ Control /\ PollSetCompact /\ Domains
      /\ HandlerLoadRef(t)
  BY DomainsHold DEF TypeInv, TypeOK
<1>1. FlagTypes'
  BY <1>0 DEF HandlerLoadRef, At, FlagTypes, kernelVars,
    clientVars, pollVars, netVars
<1>2. KernelTypes'
  BY <1>0 DEF HandlerLoadRef, At, KernelTypes, kernelVars,
    Sock
<1>3. ClientTypes'
  BY <1>0 DEF HandlerLoadRef, At, Domains, ClientTypes,
    clientVars
<1>4. PollTypes'
  BY <1>0, SlotTypes DEF HandlerLoadRef, At, PollTypes,
    KernelTypes, NetTypes, pollVars, kernelVars, Sock, Sock0, Control,
    Used
<1>5. NetTypes'
  BY <1>0 DEF HandlerLoadRef, At, Domains, KernelTypes,
    ClientTypes, PollTypes, NetTypes, NetPc, Control, Used, Sock, Sock0,
    netVars
<1>6. HandlerTypes'
  BY <1>0 DEF HandlerLoadRef, At, Domains, ClientTypes,
    NetTypes, HandlerTypes, HandlerPc, thrVars
<1>7. Control'
  BY <1>0 DEF HandlerLoadRef, At, Domains, KernelTypes,
    ClientTypes, PollTypes, NetTypes, HandlerTypes, Control, NetAt, Used,
    Sock, Sock0, kernelVars, clientVars, pollVars, netVars, thrVars
<1>8. PollSetCompact'
  BY <1>0 DEF HandlerLoadRef, At, KernelTypes, PollTypes,
    NetTypes, Control, PollSetCompact, Used, Sock, Sock0, kernelVars,
    clientVars, pollVars, netVars, thrVars
<1> QED
  BY <1>1, <1>2, <1>3, <1>4, <1>5, <1>6, <1>7, <1>8 DEF TypeInv, TypeOK

(* The store of --ref_count keeps the count an integer.                    *)
LEMMA HandlerDecRefTypeInv ==
    ASSUME TypeInv, NEW t \in Thread, HandlerDecRef(t)
    PROVE  TypeInv'
<1> USE ConstAssumption
<1>0. /\ KernelTypes /\ ClientTypes /\ PollTypes /\ NetTypes /\ HandlerTypes
      /\ FlagTypes /\ Control /\ PollSetCompact /\ Domains
      /\ HandlerDecRef(t)
  BY DomainsHold DEF TypeInv, TypeOK
<1>1. FlagTypes'
  BY <1>0 DEF HandlerDecRef, At, FlagTypes, kernelVars,
    clientVars, pollVars, netVars
<1>2. KernelTypes'
  BY <1>0 DEF HandlerDecRef, At, KernelTypes, kernelVars,
    Sock
<1>3. ClientTypes'
  BY <1>0 DEF HandlerDecRef, At, Domains, ClientTypes,
    HandlerTypes
<1>4. PollTypes'
  BY <1>0, SlotTypes DEF HandlerDecRef, At, PollTypes,
    KernelTypes, NetTypes, pollVars, kernelVars, Sock, Sock0, Control,
    Used
<1>5. NetTypes'
  BY <1>0 DEF HandlerDecRef, At, Domains, KernelTypes,
    ClientTypes, PollTypes, NetTypes, NetPc, Control, Used, Sock, Sock0,
    netVars
<1>6. HandlerTypes'
  BY <1>0 DEF HandlerDecRef, At, Domains, ClientTypes,
    NetTypes, HandlerTypes, HandlerPc, thrVars
<1>7. Control'
  BY <1>0 DEF HandlerDecRef, At, Domains, KernelTypes,
    ClientTypes, PollTypes, NetTypes, HandlerTypes, Control, NetAt, Used,
    Sock, Sock0, kernelVars, clientVars, pollVars, netVars, thrVars
<1>8. PollSetCompact'
  BY <1>0 DEF HandlerDecRef, At, KernelTypes, PollTypes,
    NetTypes, Control, PollSetCompact, Used, Sock, Sock0, kernelVars,
    clientVars, pollVars, netVars, thrVars
<1> QED
  BY <1>1, <1>2, <1>3, <1>4, <1>5, <1>6, <1>7, <1>8 DEF TypeInv, TypeOK

(* A handler that frees its client no longer refers to it.                 *)
LEMMA HandlerCheckRefTypeInv ==
    ASSUME TypeInv, NEW t \in Thread, HandlerCheckRef(t)
    PROVE  TypeInv'
<1> USE ConstAssumption
<1>0. /\ KernelTypes /\ ClientTypes /\ PollTypes /\ NetTypes /\ HandlerTypes
      /\ FlagTypes /\ Control /\ PollSetCompact /\ Domains
      /\ HandlerCheckRef(t)
  BY DomainsHold DEF TypeInv, TypeOK
<1>1. ClientTypes' /\ \A k \in Key : client_table'[k] \in {client_table[k], 0}
  BY <1>0, DeleteTypes DEF HandlerCheckRef, At, Domains
<1>2. HandlerTypes'
  BY <1>0
  DEF HandlerCheckRef, At, HandlerTypes, HandlerPc, Sock0
<1>3. KernelTypes' /\ PollTypes' /\ NetTypes'
  BY <1>0
  DEF HandlerCheckRef, KernelTypes, PollTypes, NetTypes, kernelVars, pollVars,
      netVars
<1>4. FlagTypes'
  BY <1>0 DEF HandlerCheckRef, FlagTypes, pollVars, netVars
<1>5. PollSetCompact'
  BY <1>0
  DEF HandlerCheckRef, PollSetCompact, Used, pollVars, netVars
<1>6. Control'
  BY <1>0, <1>1
  DEF HandlerCheckRef, At, NetAt, Control, KernelTypes, ClientTypes,
      HandlerTypes, Used, Sock0, kernelVars, pollVars, netVars
<1> QED
  BY <1>1, <1>2, <1>3, <1>4, <1>5, <1>6 DEF TypeInv, TypeOK

(* A new connection is the last of the kernel's sockets.                    *)
LEMMA ConnectTypeInv ==
    ASSUME TypeInv, NEW k \in Key, Connect(k)
    PROVE  TypeInv'
<1> USE ConstAssumption
<1>0. /\ KernelTypes /\ ClientTypes /\ PollTypes /\ NetTypes /\ HandlerTypes
      /\ FlagTypes /\ Control /\ PollSetCompact /\ Domains
      /\ Connect(k)
  BY DomainsHold DEF TypeInv, TypeOK
<1>1. FlagTypes'
  BY <1>0 DEF Connect, FlagTypes, kernelVars, clientVars, pollVars,
    netVars, thrVars
<1>2. KernelTypes'
  BY <1>0 DEF Connect, KernelTypes, kernelVars, Sock
<1>3. ClientTypes'
  BY <1>0 DEF Connect, Domains, NetTypes, HandlerTypes, ClientTypes,
    clientVars
<1>4. PollTypes'
  BY <1>0, SlotTypes DEF Connect, Domains, Control, KernelTypes, PollTypes,
    NetTypes, kernelVars, pollVars, Used, Sock, Sock0
<1>5. NetTypes'
  BY <1>0 DEF Connect, Domains, Control, KernelTypes, ClientTypes,
    PollTypes, NetTypes, NetPc, Used, Sock, Sock0, netVars
<1>6. HandlerTypes'
  BY <1>0 DEF Connect, Domains, NetTypes, HandlerTypes, HandlerPc, thrVars
<1>7. Control'
  <2>1. /\ npc' \in {"aload", "astore"} => ncl' \in 1..nacc' /\ nfds' <= nacc'
        /\ npc' \in {"scan", "clean"} => ni' >= 1
        /\ NetAt("accept")' /\ rlisten' => nacc' < nconn'
    BY <1>0, SlotTypes DEF Connect, NetAt, Domains, KernelTypes,
      ClientTypes, PollTypes, NetTypes, HandlerTypes, Control, Used, Sock,
      Sock0, kernelVars, clientVars, pollVars, netVars, thrVars
  <2>2. npc' \in {"iload", "istore", "dload", "dstore", "dcheck"} =>
            ni' \in Used' /\ ncl' = fds'[ni'].cl /\ ncl' # 0
    BY <1>0, SlotTypes DEF Connect, Domains, KernelTypes, ClientTypes,
      PollTypes, NetTypes, HandlerTypes, Control, Used, Sock, Sock0,
      kernelVars, clientVars, pollVars, netVars, thrVars
  <2>3. \A t1 \in Thread : hpc'[t1] \notin {"idle", "kill"} =>
            hcl'[t1] \in 1..nacc'
    BY <1>0, SlotTypes DEF Connect, Domains, KernelTypes, ClientTypes,
      PollTypes, NetTypes, HandlerTypes, Control, Used, Sock, Sock0,
      kernelVars, clientVars, pollVars, netVars, thrVars
  <2>4. \A i1 \in Used' : fds'[i1].cl <= nacc'
    BY <1>0, SlotTypes DEF Connect, Domains, KernelTypes, ClientTypes,
      PollTypes, NetTypes, HandlerTypes, Control, Used, Sock, Sock0,
      kernelVars, clientVars, pollVars, netVars, thrVars
  <2>5. /\ \A k1 \in Key : client_table'[k1] <= nacc'
        /\ \A s1 \in 1..nconn' : key'[s1] \in Key
    BY <1>0, SlotTypes DEF Connect, Domains, KernelTypes, ClientTypes,
      PollTypes, NetTypes, HandlerTypes, Control, Used, Sock, Sock0,
      kernelVars, clientVars, pollVars, netVars, thrVars
  <2> QED
    BY <2>1, <2>2, <2>3, <2>4, <2>5 DEF Control
<1>8. PollSetCompact'
  BY <1>0 DEF Connect, Domains, KernelTypes, ClientTypes, PollTypes,
    NetTypes, HandlerTypes, Control, PollSetCompact, Used, Sock, Sock0,
    kernelVars, clientVars, pollVars, netVars, thrVars
<1> QED
  BY <1>1, <1>2, <1>3, <1>4, <1>5, <1>6, <1>7, <1>8 DEF TypeInv, TypeOK

(* Bytes sent change the kernel's buffers only.                             *)
LEMMA SendTypeInv ==
    ASSUME TypeInv, NEW s \in Sock, NEW b \in {"part", "line"}, Send(s, b)
    PROVE  TypeInv'
<1> USE ConstAssumption
<1>0. /\ KernelTypes /\ ClientTypes /\ PollTypes /\ NetTypes /\ HandlerTypes
      /\ FlagTypes /\ Control /\ PollSetCompact /\ Domains
      /\ Send(s, b)
  BY DomainsHold DEF TypeInv, TypeOK
<1>1. FlagTypes'
  BY <1>0 DEF Send, FlagTypes, kernelVars, clientVars, pollVars, netVars,
    thrVars
<1>2. KernelTypes'
  BY <1>0 DEF Send, KernelTypes, kernelVars, Sock
<1>3. ClientTypes'
  BY <1>0 DEF Send, Domains, NetTypes, HandlerTypes, ClientTypes,
    clientVars
<1>4. PollTypes'
  BY <1>0, SlotTypes DEF Send, Domains, Control, KernelTypes, PollTypes,
    NetTypes, kernelVars, pollVars, Used, Sock, Sock0
<1>5. NetTypes'
  BY <1>0 DEF Send, Domains, Control, KernelTypes, ClientTypes, PollTypes,
    NetTypes, NetPc, Used, Sock, Sock0, netVars
<1>6. HandlerTypes'
  BY <1>0 DEF Send, Domains, NetTypes, HandlerTypes, HandlerPc, thrVars
<1>7. Control'
  <2>1. /\ npc' \in {"aload", "astore"} => ncl' \in 1..nacc' /\ nfds' <= nacc'
        /\ npc' \in {"scan", "clean"} => ni' >= 1
        /\ NetAt("accept")' /\ rlisten' => nacc' < nconn'
    BY <1>0, SlotTypes DEF Send, NetAt, Domains, KernelTypes, ClientTypes,
      PollTypes, NetTypes, HandlerTypes, Control, Used, Sock, Sock0,
      kernelVars, clientVars, pollVars, netVars, thrVars
  <2>2. npc' \in {"iload", "istore", "dload", "dstore", "dcheck"} =>
            ni' \in Used' /\ ncl' = fds'[ni'].cl /\ ncl' # 0
    BY <1>0, SlotTypes DEF Send, Domains, KernelTypes, ClientTypes,
      PollTypes, NetTypes, HandlerTypes, Control, Used, Sock, Sock0,
      kernelVars, clientVars, pollVars, netVars, thrVars
  <2>3. \A t1 \in Thread : hpc'[t1] \notin {"idle", "kill"} =>
            hcl'[t1] \in 1..nacc'
    BY <1>0, SlotTypes DEF Send, Domains, KernelTypes, ClientTypes,
      PollTypes, NetTypes, HandlerTypes, Control, Used, Sock, Sock0,
      kernelVars, clientVars, pollVars, netVars, thrVars
  <2>4. \A i1 \in Used' : fds'[i1].cl <= nacc'
    BY <1>0, SlotTypes DEF Send, Domains, KernelTypes, ClientTypes,
      PollTypes, NetTypes, HandlerTypes, Control, Used, Sock, Sock0,
      kernelVars, clientVars, pollVars, netVars, thrVars
  <2>5. /\ \A k1 \in Key : client_table'[k1] <= nacc'
        /\ \A s1 \in 1..nconn' : key'[s1] \in Key
    BY <1>0, SlotTypes DEF Send, Domains, KernelTypes, ClientTypes,
      PollTypes, NetTypes, HandlerTypes, Control, Used, Sock, Sock0,
      kernelVars, clientVars, pollVars, netVars, thrVars
  <2> QED
    BY <2>1, <2>2, <2>3, <2>4, <2>5 DEF Control
<1>8. PollSetCompact'
  BY <1>0 DEF Send, Domains, KernelTypes, ClientTypes, PollTypes, NetTypes,
    HandlerTypes, Control, PollSetCompact, Used, Sock, Sock0, kernelVars,
    clientVars, pollVars, netVars, thrVars
<1> QED
  BY <1>1, <1>2, <1>3, <1>4, <1>5, <1>6, <1>7, <1>8 DEF TypeInv, TypeOK

(* A peer closing changes the state of its link only.                       *)
LEMMA CloseTypeInv ==
    ASSUME TypeInv, NEW s \in Sock, NEW how \in {"fin", "rst"}, Close(s, how)
    PROVE  TypeInv'
<1> USE ConstAssumption
<1>0. /\ KernelTypes /\ ClientTypes /\ PollTypes /\ NetTypes /\ HandlerTypes
      /\ FlagTypes /\ Control /\ PollSetCompact /\ Domains
      /\ Close(s, how)
  BY DomainsHold DEF TypeInv, TypeOK
<1>1. FlagTypes'
  BY <1>0 DEF Close, FlagTypes, kernelVars, clientVars, pollVars, netVars,
    thrVars
<1>2. KernelTypes'
  BY <1>0 DEF Close, KernelTypes, kernelVars, Sock
<1>3. ClientTypes'
  BY <1>0 DEF Close, Domains, NetTypes, HandlerTypes, ClientTypes,
    clientVars
<1>4. PollTypes'
  BY <1>0, SlotTypes DEF Close, Domains, Control, KernelTypes, PollTypes,
    NetTypes, kernelVars, pollVars, Used, Sock, Sock0
<1>5. NetTypes'
  BY <1>0 DEF Close, Domains, Control, KernelTypes, ClientTypes, PollTypes,
    NetTypes, NetPc, Used, Sock, Sock0, netVars
<1>6. HandlerTypes'
  BY <1>0 DEF Close, Domains, NetTypes, HandlerTypes, HandlerPc, thrVars
<1>7. Control'
  <2>1. /\ npc' \in {"aload", "astore"} => ncl' \in 1..nacc' /\ nfds' <= nacc'
        /\ npc' \in {"scan", "clean"} => ni' >= 1
        /\ NetAt("accept")' /\ rlisten' => nacc' < nconn'
    BY <1>0, SlotTypes DEF Close, NetAt, Domains, KernelTypes, ClientTypes,
      PollTypes, NetTypes, HandlerTypes, Control, Used, Sock, Sock0,
      kernelVars, clientVars, pollVars, netVars, thrVars
  <2>2. npc' \in {"iload", "istore", "dload", "dstore", "dcheck"} =>
            ni' \in Used' /\ ncl' = fds'[ni'].cl /\ ncl' # 0
    BY <1>0, SlotTypes DEF Close, Domains, KernelTypes, ClientTypes,
      PollTypes, NetTypes, HandlerTypes, Control, Used, Sock, Sock0,
      kernelVars, clientVars, pollVars, netVars, thrVars
  <2>3. \A t1 \in Thread : hpc'[t1] \notin {"idle", "kill"} =>
            hcl'[t1] \in 1..nacc'
    BY <1>0, SlotTypes DEF Close, Domains, KernelTypes, ClientTypes,
      PollTypes, NetTypes, HandlerTypes, Control, Used, Sock, Sock0,
      kernelVars, clientVars, pollVars, netVars, thrVars
  <2>4. \A i1 \in Used' : fds'[i1].cl <= nacc'
    BY <1>0, SlotTypes DEF Close, Domains, KernelTypes, ClientTypes,
      PollTypes, NetTypes, HandlerTypes, Control, Used, Sock, Sock0,
      kernelVars, clientVars, pollVars, netVars, thrVars
  <2>5. /\ \A k1 \in Key : client_table'[k1] <= nacc'
        /\ \A s1 \in 1..nconn' : key'[s1] \in Key
    BY <1>0, SlotTypes DEF Close, Domains, KernelTypes, ClientTypes,
      PollTypes, NetTypes, HandlerTypes, Control, Used, Sock, Sock0,
      kernelVars, clientVars, pollVars, netVars, thrVars
  <2> QED
    BY <2>1, <2>2, <2>3, <2>4, <2>5 DEF Control
<1>8. PollSetCompact'
  BY <1>0 DEF Close, Domains, KernelTypes, ClientTypes, PollTypes,
    NetTypes, HandlerTypes, Control, PollSetCompact, Used, Sock, Sock0,
    kernelVars, clientVars, pollVars, netVars, thrVars
<1> QED
  BY <1>1, <1>2, <1>3, <1>4, <1>5, <1>6, <1>7, <1>8 DEF TypeInv, TypeOK

(* The network thread keeps its client between the load and the store.      *)
LEMMA NetLoadRefTypeInv ==
    ASSUME TypeInv, NEW from \in {"aload", "iload", "dload"},
           NEW to \in {"astore", "istore", "dstore"},
           <<from, to>> \in {<<"aload", "astore">>, <<"iload", "istore">>,
                            <<"dload", "dstore">>},
           NetLoadRef(from, to)
    PROVE  TypeInv'
<1> USE ConstAssumption
<1>0. /\ KernelTypes /\ ClientTypes /\ PollTypes /\ NetTypes /\ HandlerTypes
      /\ FlagTypes /\ Control /\ PollSetCompact /\ Domains
      /\ NetLoadRef(from, to)
  BY DomainsHold DEF TypeInv, TypeOK
<1>1. FlagTypes'
  BY <1>0 DEF NetLoadRef, NetAt, NetEnters, FlagTypes, kernelVars,
    clientVars, pollVars, netVars, thrVars
<1>2. KernelTypes'
  BY <1>0 DEF NetLoadRef, NetAt, NetEnters, KernelTypes, kernelVars, Sock
<1>3. ClientTypes'
  BY <1>0 DEF NetLoadRef, NetAt, NetEnters, Domains, NetTypes,
    HandlerTypes, ClientTypes, clientVars
<1>4. PollTypes'
  BY <1>0, SlotTypes DEF NetLoadRef, NetAt, NetEnters, Domains, Control,
    KernelTypes, PollTypes, NetTypes, kernelVars, pollVars, Used, Sock,
    Sock0
<1>5. NetTypes'
  BY <1>0 DEF NetLoadRef, NetAt, NetEnters, Domains, Control, KernelTypes,
    ClientTypes, PollTypes, NetTypes, NetPc, Used, Sock, Sock0, netVars
<1>6. HandlerTypes'
  BY <1>0 DEF NetLoadRef, NetAt, NetEnters, Domains, NetTypes,
    HandlerTypes, HandlerPc, thrVars
<1>7. Control'
  <2>1. /\ npc' \in {"aload", "astore"} => ncl' \in 1..nacc' /\ nfds' <= nacc'
        /\ npc' \in {"scan", "clean"} => ni' >= 1
        /\ NetAt("accept")' /\ rlisten' => nacc' < nconn'
    BY <1>0, SlotTypes DEF NetLoadRef, NetAt, NetEnters, Domains,
      KernelTypes, ClientTypes, PollTypes, NetTypes, HandlerTypes, Control,
      Used, Sock, Sock0, kernelVars, clientVars, pollVars, netVars, thrVars
  <2>2. npc' \in {"iload", "istore", "dload", "dstore", "dcheck"} =>
            ni' \in Used' /\ ncl' = fds'[ni'].cl /\ ncl' # 0
    BY <1>0, SlotTypes DEF NetLoadRef, NetAt, NetEnters, Domains,
      KernelTypes, ClientTypes, PollTypes, NetTypes, HandlerTypes, Control,
      Used, Sock, Sock0, kernelVars, clientVars, pollVars, netVars, thrVars
  <2>3. \A t1 \in Thread : hpc'[t1] \notin {"idle", "kill"} =>
            hcl'[t1] \in 1..nacc'
    BY <1>0, SlotTypes DEF NetLoadRef, NetAt, NetEnters, Domains,
      KernelTypes, ClientTypes, PollTypes, NetTypes, HandlerTypes, Control,
      Used, Sock, Sock0, kernelVars, clientVars, pollVars, netVars, thrVars
  <2>4. \A i1 \in Used' : fds'[i1].cl <= nacc'
    BY <1>0, SlotTypes DEF NetLoadRef, NetAt, NetEnters, Domains,
      KernelTypes, ClientTypes, PollTypes, NetTypes, HandlerTypes, Control,
      Used, Sock, Sock0, kernelVars, clientVars, pollVars, netVars, thrVars
  <2>5. /\ \A k1 \in Key : client_table'[k1] <= nacc'
        /\ \A s1 \in 1..nconn' : key'[s1] \in Key
    BY <1>0, SlotTypes DEF NetLoadRef, NetAt, NetEnters, Domains,
      KernelTypes, ClientTypes, PollTypes, NetTypes, HandlerTypes, Control,
      Used, Sock, Sock0, kernelVars, clientVars, pollVars, netVars, thrVars
  <2> QED
    BY <2>1, <2>2, <2>3, <2>4, <2>5 DEF Control
<1>8. PollSetCompact'
  BY <1>0 DEF NetLoadRef, NetAt, NetEnters, Domains, KernelTypes,
    ClientTypes, PollTypes, NetTypes, HandlerTypes, Control,
    PollSetCompact, Used, Sock, Sock0, kernelVars, clientVars, pollVars,
    netVars, thrVars
<1> QED
  BY <1>1, <1>2, <1>3, <1>4, <1>5, <1>6, <1>7, <1>8 DEF TypeInv, TypeOK

(* The slot of an accepted connection is the first unused one.              *)
LEMMA AddNewClientToFdsTypeInv ==
    ASSUME TypeInv, AddNewClientToFds
    PROVE  TypeInv'
<1> USE ConstAssumption
<1>0. /\ KernelTypes /\ ClientTypes /\ PollTypes /\ NetTypes /\ HandlerTypes
      /\ FlagTypes /\ Control /\ PollSetCompact /\ Domains
      /\ AddNewClientToFds
  BY DomainsHold DEF TypeInv, TypeOK
<1>1. FlagTypes'
  BY <1>0 DEF AddNewClientToFds, NetAt, SlotsMissing, NewSlot, FlagTypes,
    kernelVars, clientVars, pollVars, netVars, thrVars
<1>2. KernelTypes'
  BY <1>0 DEF AddNewClientToFds, NetAt, SlotsMissing, NewSlot, KernelTypes,
    kernelVars, Sock
<1>3. ClientTypes'
  BY <1>0 DEF AddNewClientToFds, NetAt, SlotsMissing, NewSlot, Domains,
    NetTypes, HandlerTypes, ClientTypes, clientVars
<1>4. PollTypes'
  BY <1>0, SlotTypes DEF AddNewClientToFds, NetAt, SlotsMissing, NewSlot,
    Domains, Control, KernelTypes, PollTypes, NetTypes, kernelVars,
    pollVars, Used, Sock, Sock0
<1>5. NetTypes'
  BY <1>0 DEF AddNewClientToFds, NetAt, SlotsMissing, NewSlot, Domains,
    Control, KernelTypes, ClientTypes, PollTypes, NetTypes, NetPc, Used,
    Sock, Sock0, netVars
<1>6. HandlerTypes'
  BY <1>0 DEF AddNewClientToFds, NetAt, SlotsMissing, NewSlot, Domains,
    NetTypes, HandlerTypes, HandlerPc, thrVars
<1>7. Control'
  <2>1. /\ npc' \in {"aload", "astore"} => ncl' \in 1..nacc' /\ nfds' <= nacc'
        /\ npc' \in {"scan", "clean"} => ni' >= 1
        /\ NetAt("accept")' /\ rlisten' => nacc' < nconn'
    BY <1>0, SlotTypes DEF AddNewClientToFds, NetAt, SlotsMissing, NewSlot,
      Domains, KernelTypes, ClientTypes, PollTypes, NetTypes, HandlerTypes,
      Control, Used, Sock, Sock0, kernelVars, clientVars, pollVars,
      netVars, thrVars
  <2>2. npc' \in {"iload", "istore", "dload", "dstore", "dcheck"} =>
            ni' \in Used' /\ ncl' = fds'[ni'].cl /\ ncl' # 0
    BY <1>0, SlotTypes DEF AddNewClientToFds, NetAt, SlotsMissing, NewSlot,
      Domains, KernelTypes, ClientTypes, PollTypes, NetTypes, HandlerTypes,
      Control, Used, Sock, Sock0, kernelVars, clientVars, pollVars,
      netVars, thrVars
  <2>3. \A t1 \in Thread : hpc'[t1] \notin {"idle", "kill"} =>
            hcl'[t1] \in 1..nacc'
    BY <1>0, SlotTypes DEF AddNewClientToFds, NetAt, SlotsMissing, NewSlot,
      Domains, KernelTypes, ClientTypes, PollTypes, NetTypes, HandlerTypes,
      Control, Used, Sock, Sock0, kernelVars, clientVars, pollVars,
      netVars, thrVars
  <2>4. \A i1 \in Used' : fds'[i1].cl <= nacc'
    BY <1>0, SlotTypes DEF AddNewClientToFds, NetAt, SlotsMissing, NewSlot,
      Domains, KernelTypes, ClientTypes, PollTypes, NetTypes, HandlerTypes,
      Control, Used, Sock, Sock0, kernelVars, clientVars, pollVars,
      netVars, thrVars
  <2>5. /\ \A k1 \in Key : client_table'[k1] <= nacc'
        /\ \A s1 \in 1..nconn' : key'[s1] \in Key
    BY <1>0, SlotTypes DEF AddNewClientToFds, NetAt, SlotsMissing, NewSlot,
      Domains, KernelTypes, ClientTypes, PollTypes, NetTypes, HandlerTypes,
      Control, Used, Sock, Sock0, kernelVars, clientVars, pollVars,
      netVars, thrVars
  <2> QED
    BY <2>1, <2>2, <2>3, <2>4, <2>5 DEF Control
<1>8. PollSetCompact'
  BY <1>0 DEF AddNewClientToFds, NetAt, SlotsMissing, NewSlot, Domains,
    KernelTypes, ClientTypes, PollTypes, NetTypes, HandlerTypes, Control,
    PollSetCompact, Used, Sock, Sock0, kernelVars, clientVars, pollVars,
    netVars, thrVars
<1> QED
  BY <1>1, <1>2, <1>3, <1>4, <1>5, <1>6, <1>7, <1>8 DEF TypeInv, TypeOK

(* A handler that was not started leaves the scan to go on.                 *)
LEMMA PthreadCreateFailsTypeInv ==
    ASSUME TypeInv, PthreadCreateFails
    PROVE  TypeInv'
<1> USE ConstAssumption
<1>0. /\ KernelTypes /\ ClientTypes /\ PollTypes /\ NetTypes /\ HandlerTypes
      /\ FlagTypes /\ Control /\ PollSetCompact /\ Domains
      /\ PthreadCreateFails
  BY DomainsHold DEF TypeInv, TypeOK
<1>1. FlagTypes'
  BY <1>0 DEF PthreadCreateFails, NetAt, FlagTypes, kernelVars, clientVars,
    pollVars, netVars, thrVars
<1>2. KernelTypes'
  BY <1>0 DEF PthreadCreateFails, NetAt, KernelTypes, kernelVars, Sock
<1>3. ClientTypes'
  BY <1>0 DEF PthreadCreateFails, NetAt, Domains, NetTypes, HandlerTypes,
    ClientTypes, clientVars
<1>4. PollTypes'
  BY <1>0, SlotTypes DEF PthreadCreateFails, NetAt, Domains, Control,
    KernelTypes, PollTypes, NetTypes, kernelVars, pollVars, Used, Sock,
    Sock0
<1>5. NetTypes'
  BY <1>0 DEF PthreadCreateFails, NetAt, Domains, Control, KernelTypes,
    ClientTypes, PollTypes, NetTypes, NetPc, Used, Sock, Sock0, netVars
<1>6. HandlerTypes'
  BY <1>0 DEF PthreadCreateFails, NetAt, Domains, NetTypes, HandlerTypes,
    HandlerPc, thrVars
<1>7. Control'
  <2>1. /\ npc' \in {"aload", "astore"} => ncl' \in 1..nacc' /\ nfds' <= nacc'
        /\ npc' \in {"scan", "clean"} => ni' >= 1
        /\ NetAt("accept")' /\ rlisten' => nacc' < nconn'
    BY <1>0, SlotTypes DEF PthreadCreateFails, NetAt, Domains, KernelTypes,
      ClientTypes, PollTypes, NetTypes, HandlerTypes, Control, Used, Sock,
      Sock0, kernelVars, clientVars, pollVars, netVars, thrVars
  <2>2. npc' \in {"iload", "istore", "dload", "dstore", "dcheck"} =>
            ni' \in Used' /\ ncl' = fds'[ni'].cl /\ ncl' # 0
    BY <1>0, SlotTypes DEF PthreadCreateFails, NetAt, Domains, KernelTypes,
      ClientTypes, PollTypes, NetTypes, HandlerTypes, Control, Used, Sock,
      Sock0, kernelVars, clientVars, pollVars, netVars, thrVars
  <2>3. \A t1 \in Thread : hpc'[t1] \notin {"idle", "kill"} =>
            hcl'[t1] \in 1..nacc'
    BY <1>0, SlotTypes DEF PthreadCreateFails, NetAt, Domains, KernelTypes,
      ClientTypes, PollTypes, NetTypes, HandlerTypes, Control, Used, Sock,
      Sock0, kernelVars, clientVars, pollVars, netVars, thrVars
  <2>4. \A i1 \in Used' : fds'[i1].cl <= nacc'
    BY <1>0, SlotTypes DEF PthreadCreateFails, NetAt, Domains, KernelTypes,
      ClientTypes, PollTypes, NetTypes, HandlerTypes, Control, Used, Sock,
      Sock0, kernelVars, clientVars, pollVars, netVars, thrVars
  <2>5. /\ \A k1 \in Key : client_table'[k1] <= nacc'
        /\ \A s1 \in 1..nconn' : key'[s1] \in Key
    BY <1>0, SlotTypes DEF PthreadCreateFails, NetAt, Domains, KernelTypes,
      ClientTypes, PollTypes, NetTypes, HandlerTypes, Control, Used, Sock,
      Sock0, kernelVars, clientVars, pollVars, netVars, thrVars
  <2> QED
    BY <2>1, <2>2, <2>3, <2>4, <2>5 DEF Control
<1>8. PollSetCompact'
  BY <1>0 DEF PthreadCreateFails, NetAt, Domains, KernelTypes, ClientTypes,
    PollTypes, NetTypes, HandlerTypes, Control, PollSetCompact, Used, Sock,
    Sock0, kernelVars, clientVars, pollVars, netVars, thrVars
<1> QED
  BY <1>1, <1>2, <1>3, <1>4, <1>5, <1>6, <1>7, <1>8 DEF TypeInv, TypeOK

(* The store of --ref_count keeps the count an integer.                     *)
LEMMA NetDecRefTypeInv ==
    ASSUME TypeInv, NetDecRef
    PROVE  TypeInv'
<1> USE ConstAssumption
<1>0. /\ KernelTypes /\ ClientTypes /\ PollTypes /\ NetTypes /\ HandlerTypes
      /\ FlagTypes /\ Control /\ PollSetCompact /\ Domains
      /\ NetDecRef
  BY DomainsHold DEF TypeInv, TypeOK
<1>1. FlagTypes'
  BY <1>0 DEF NetDecRef, NetAt, FlagTypes, kernelVars, clientVars,
    pollVars, netVars, thrVars
<1>2. KernelTypes'
  BY <1>0 DEF NetDecRef, NetAt, KernelTypes, kernelVars, Sock
<1>3. ClientTypes'
  BY <1>0 DEF NetDecRef, NetAt, Domains, NetTypes, HandlerTypes,
    ClientTypes, clientVars
<1>4. PollTypes'
  BY <1>0, SlotTypes DEF NetDecRef, NetAt, Domains, Control, KernelTypes,
    PollTypes, NetTypes, kernelVars, pollVars, Used, Sock, Sock0
<1>5. NetTypes'
  BY <1>0 DEF NetDecRef, NetAt, Domains, Control, KernelTypes, ClientTypes,
    PollTypes, NetTypes, NetPc, Used, Sock, Sock0, netVars
<1>6. HandlerTypes'
  BY <1>0 DEF NetDecRef, NetAt, Domains, NetTypes, HandlerTypes, HandlerPc,
    thrVars
<1>7. Control'
  <2>1. /\ npc' \in {"aload", "astore"} => ncl' \in 1..nacc' /\ nfds' <= nacc'
        /\ npc' \in {"scan", "clean"} => ni' >= 1
        /\ NetAt("accept")' /\ rlisten' => nacc' < nconn'
    BY <1>0, SlotTypes DEF NetDecRef, NetAt, Domains, KernelTypes,
      ClientTypes, PollTypes, NetTypes, HandlerTypes, Control, Used, Sock,
      Sock0, kernelVars, clientVars, pollVars, netVars, thrVars
  <2>2. npc' \in {"iload", "istore", "dload", "dstore", "dcheck"} =>
            ni' \in Used' /\ ncl' = fds'[ni'].cl /\ ncl' # 0
    BY <1>0, SlotTypes DEF NetDecRef, NetAt, Domains, KernelTypes,
      ClientTypes, PollTypes, NetTypes, HandlerTypes, Control, Used, Sock,
      Sock0, kernelVars, clientVars, pollVars, netVars, thrVars
  <2>3. \A t1 \in Thread : hpc'[t1] \notin {"idle", "kill"} =>
            hcl'[t1] \in 1..nacc'
    BY <1>0, SlotTypes DEF NetDecRef, NetAt, Domains, KernelTypes,
      ClientTypes, PollTypes, NetTypes, HandlerTypes, Control, Used, Sock,
      Sock0, kernelVars, clientVars, pollVars, netVars, thrVars
  <2>4. \A i1 \in Used' : fds'[i1].cl <= nacc'
    BY <1>0, SlotTypes DEF NetDecRef, NetAt, Domains, KernelTypes,
      ClientTypes, PollTypes, NetTypes, HandlerTypes, Control, Used, Sock,
      Sock0, kernelVars, clientVars, pollVars, netVars, thrVars
  <2>5. /\ \A k1 \in Key : client_table'[k1] <= nacc'
        /\ \A s1 \in 1..nconn' : key'[s1] \in Key
    BY <1>0, SlotTypes DEF NetDecRef, NetAt, Domains, KernelTypes,
      ClientTypes, PollTypes, NetTypes, HandlerTypes, Control, Used, Sock,
      Sock0, kernelVars, clientVars, pollVars, netVars, thrVars
  <2> QED
    BY <2>1, <2>2, <2>3, <2>4, <2>5 DEF Control
<1>8. PollSetCompact'
  BY <1>0 DEF NetDecRef, NetAt, Domains, KernelTypes, ClientTypes,
    PollTypes, NetTypes, HandlerTypes, Control, PollSetCompact, Used, Sock,
    Sock0, kernelVars, clientVars, pollVars, netVars, thrVars
<1> QED
  BY <1>1, <1>2, <1>3, <1>4, <1>5, <1>6, <1>7, <1>8 DEF TypeInv, TypeOK

(* An incomplete line leaves the handler reading.                           *)
LEMMA ReadPartTypeInv ==
    ASSUME TypeInv, NEW t \in Thread, ReadPart(t)
    PROVE  TypeInv'
<1> USE ConstAssumption
<1>0. /\ KernelTypes /\ ClientTypes /\ PollTypes /\ NetTypes /\ HandlerTypes
      /\ FlagTypes /\ Control /\ PollSetCompact /\ Domains
      /\ ReadPart(t)
  BY DomainsHold DEF TypeInv, TypeOK
<1>1. FlagTypes'
  BY <1>0 DEF ReadPart, At, FlagTypes, kernelVars, clientVars, pollVars,
    netVars, thrVars
<1>2. KernelTypes'
  BY <1>0 DEF ReadPart, At, KernelTypes, kernelVars, Sock
<1>3. ClientTypes'
  BY <1>0 DEF ReadPart, At, Domains, NetTypes, HandlerTypes, ClientTypes,
    clientVars
<1>4. PollTypes'
  BY <1>0, SlotTypes DEF ReadPart, At, Domains, Control, KernelTypes,
    PollTypes, NetTypes, kernelVars, pollVars, Used, Sock, Sock0
<1>5. NetTypes'
  BY <1>0 DEF ReadPart, At, Domains, Control, KernelTypes, ClientTypes,
    PollTypes, NetTypes, NetPc, Used, Sock, Sock0, netVars
<1>6. HandlerTypes'
  BY <1>0 DEF ReadPart, At, Domains, NetTypes, HandlerTypes, HandlerPc,
    thrVars
<1>7. Control'
  <2>1. /\ npc' \in {"aload", "astore"} => ncl' \in 1..nacc' /\ nfds' <= nacc'
        /\ npc' \in {"scan", "clean"} => ni' >= 1
        /\ NetAt("accept")' /\ rlisten' => nacc' < nconn'
    BY <1>0, SlotTypes DEF ReadPart, At, NetAt, Domains, KernelTypes,
      ClientTypes, PollTypes, NetTypes, HandlerTypes, Control, Used, Sock,
      Sock0, kernelVars, clientVars, pollVars, netVars, thrVars
  <2>2. npc' \in {"iload", "istore", "dload", "dstore", "dcheck"} =>
            ni' \in Used' /\ ncl' = fds'[ni'].cl /\ ncl' # 0
    BY <1>0, SlotTypes DEF ReadPart, At, Domains, KernelTypes, ClientTypes,
      PollTypes, NetTypes, HandlerTypes, Control, Used, Sock, Sock0,
      kernelVars, clientVars, pollVars, netVars, thrVars
  <2>3. \A t1 \in Thread : hpc'[t1] \notin {"idle", "kill"} =>
            hcl'[t1] \in 1..nacc'
    BY <1>0, SlotTypes DEF ReadPart, At, Domains, KernelTypes, ClientTypes,
      PollTypes, NetTypes, HandlerTypes, Control, Used, Sock, Sock0,
      kernelVars, clientVars, pollVars, netVars, thrVars
  <2>4. \A i1 \in Used' : fds'[i1].cl <= nacc'
    BY <1>0, SlotTypes DEF ReadPart, At, Domains, KernelTypes, ClientTypes,
      PollTypes, NetTypes, HandlerTypes, Control, Used, Sock, Sock0,
      kernelVars, clientVars, pollVars, netVars, thrVars
  <2>5. /\ \A k1 \in Key : client_table'[k1] <= nacc'
        /\ \A s1 \in 1..nconn' : key'[s1] \in Key
    BY <1>0, SlotTypes DEF ReadPart, At, Domains, KernelTypes, ClientTypes,
      PollTypes, NetTypes, HandlerTypes, Control, Used, Sock, Sock0,
      kernelVars, clientVars, pollVars, netVars, thrVars
  <2> QED
    BY <2>1, <2>2, <2>3, <2>4, <2>5 DEF Control
<1>8. PollSetCompact'
  BY <1>0 DEF ReadPart, At, Domains, KernelTypes, ClientTypes, PollTypes,
    NetTypes, HandlerTypes, Control, PollSetCompact, Used, Sock, Sock0,
    kernelVars, clientVars, pollVars, netVars, thrVars
<1> QED
  BY <1>1, <1>2, <1>3, <1>4, <1>5, <1>6, <1>7, <1>8 DEF TypeInv, TypeOK

(* A complete line sends the handler on.                                    *)
LEMMA ReadLineTypeInv ==
    ASSUME TypeInv, NEW t \in Thread, NEW b \in BOOLEAN, ReadLine(t, b)
    PROVE  TypeInv'
<1> USE ConstAssumption
<1>0. /\ KernelTypes /\ ClientTypes /\ PollTypes /\ NetTypes /\ HandlerTypes
      /\ FlagTypes /\ Control /\ PollSetCompact /\ Domains
      /\ ReadLine(t, b)
  BY DomainsHold DEF TypeInv, TypeOK
<1>1. FlagTypes'
  BY <1>0 DEF ReadLine, At, FlagTypes, kernelVars, clientVars, pollVars,
    netVars, thrVars
<1>2. KernelTypes'
  BY <1>0 DEF ReadLine, At, KernelTypes, kernelVars, Sock
<1>3. ClientTypes'
  BY <1>0 DEF ReadLine, At, Domains, NetTypes, HandlerTypes, ClientTypes,
    clientVars
<1>4. PollTypes'
  BY <1>0, SlotTypes DEF ReadLine, At, Domains, Control, KernelTypes,
    PollTypes, NetTypes, kernelVars, pollVars, Used, Sock, Sock0
<1>5. NetTypes'
  BY <1>0 DEF ReadLine, At, Domains, Control, KernelTypes, ClientTypes,
    PollTypes, NetTypes, NetPc, Used, Sock, Sock0, netVars
<1>6. HandlerTypes'
  BY <1>0 DEF ReadLine, At, Domains, NetTypes, HandlerTypes, HandlerPc,
    thrVars
<1>7. Control'
  <2>1. /\ npc' \in {"aload", "astore"} => ncl' \in 1..nacc' /\ nfds' <= nacc'
        /\ npc' \in {"scan", "clean"} => ni' >= 1
        /\ NetAt("accept")' /\ rlisten' => nacc' < nconn'
    BY <1>0, SlotTypes DEF ReadLine, At, NetAt, Domains, KernelTypes,
      ClientTypes, PollTypes, NetTypes, HandlerTypes, Control, Used, Sock,
      Sock0, kernelVars, clientVars, pollVars, netVars, thrVars
  <2>2. npc' \in {"iload", "istore", "dload", "dstore", "dcheck"} =>
            ni' \in Used' /\ ncl' = fds'[ni'].cl /\ ncl' # 0
    BY <1>0, SlotTypes DEF ReadLine, At, Domains, KernelTypes, ClientTypes,
      PollTypes, NetTypes, HandlerTypes, Control, Used, Sock, Sock0,
      kernelVars, clientVars, pollVars, netVars, thrVars
  <2>3. \A t1 \in Thread : hpc'[t1] \notin {"idle", "kill"} =>
            hcl'[t1] \in 1..nacc'
    BY <1>0, SlotTypes DEF ReadLine, At, Domains, KernelTypes, ClientTypes,
      PollTypes, NetTypes, HandlerTypes, Control, Used, Sock, Sock0,
      kernelVars, clientVars, pollVars, netVars, thrVars
  <2>4. \A i1 \in Used' : fds'[i1].cl <= nacc'
    BY <1>0, SlotTypes DEF ReadLine, At, Domains, KernelTypes, ClientTypes,
      PollTypes, NetTypes, HandlerTypes, Control, Used, Sock, Sock0,
      kernelVars, clientVars, pollVars, netVars, thrVars
  <2>5. /\ \A k1 \in Key : client_table'[k1] <= nacc'
        /\ \A s1 \in 1..nconn' : key'[s1] \in Key
    BY <1>0, SlotTypes DEF ReadLine, At, Domains, KernelTypes, ClientTypes,
      PollTypes, NetTypes, HandlerTypes, Control, Used, Sock, Sock0,
      kernelVars, clientVars, pollVars, netVars, thrVars
  <2> QED
    BY <2>1, <2>2, <2>3, <2>4, <2>5 DEF Control
<1>8. PollSetCompact'
  BY <1>0 DEF ReadLine, At, Domains, KernelTypes, ClientTypes, PollTypes,
    NetTypes, HandlerTypes, Control, PollSetCompact, Used, Sock, Sock0,
    kernelVars, clientVars, pollVars, netVars, thrVars
<1> QED
  BY <1>1, <1>2, <1>3, <1>4, <1>5, <1>6, <1>7, <1>8 DEF TypeInv, TypeOK

(* can_rehear is set for the handler's own client.                          *)
LEMMA SetCanRehearTypeInv ==
    ASSUME TypeInv, NEW t \in Thread, SetCanRehear(t)
    PROVE  TypeInv'
<1> USE ConstAssumption
<1>0. /\ KernelTypes /\ ClientTypes /\ PollTypes /\ NetTypes /\ HandlerTypes
      /\ FlagTypes /\ Control /\ PollSetCompact /\ Domains
      /\ SetCanRehear(t)
  BY DomainsHold DEF TypeInv, TypeOK
<1>1. FlagTypes'
  BY <1>0 DEF SetCanRehear, At, FlagTypes, kernelVars, clientVars,
    pollVars, netVars, thrVars
<1>2. KernelTypes'
  BY <1>0 DEF SetCanRehear, At, KernelTypes, kernelVars, Sock
<1>3. ClientTypes'
  BY <1>0 DEF SetCanRehear, At, Domains, NetTypes, HandlerTypes,
    ClientTypes, clientVars
<1>4. PollTypes'
  BY <1>0, SlotTypes DEF SetCanRehear, At, Domains, Control, KernelTypes,
    PollTypes, NetTypes, kernelVars, pollVars, Used, Sock, Sock0
<1>5. NetTypes'
  BY <1>0 DEF SetCanRehear, At, Domains, Control, KernelTypes, ClientTypes,
    PollTypes, NetTypes, NetPc, Used, Sock, Sock0, netVars
<1>6. HandlerTypes'
  BY <1>0 DEF SetCanRehear, At, Domains, NetTypes, HandlerTypes, HandlerPc,
    thrVars
<1>7. Control'
  <2>1. /\ npc' \in {"aload", "astore"} => ncl' \in 1..nacc' /\ nfds' <= nacc'
        /\ npc' \in {"scan", "clean"} => ni' >= 1
        /\ NetAt("accept")' /\ rlisten' => nacc' < nconn'
    BY <1>0, SlotTypes DEF SetCanRehear, At, NetAt, Domains, KernelTypes,
      ClientTypes, PollTypes, NetTypes, HandlerTypes, Control, Used, Sock,
      Sock0, kernelVars, clientVars, pollVars, netVars, thrVars
  <2>2. npc' \in {"iload", "istore", "dload", "dstore", "dcheck"} =>
            ni' \in Used' /\ ncl' = fds'[ni'].cl /\ ncl' # 0
    BY <1>0, SlotTypes DEF SetCanRehear, At, Domains, KernelTypes,
      ClientTypes, PollTypes, NetTypes, HandlerTypes, Control, Used, Sock,
      Sock0, kernelVars, clientVars, pollVars, netVars, thrVars
  <2>3. \A t1 \in Thread : hpc'[t1] \notin {"idle", "kill"} =>
            hcl'[t1] \in 1..nacc'
    BY <1>0, SlotTypes DEF SetCanRehear, At, Domains, KernelTypes,
      ClientTypes, PollTypes, NetTypes, HandlerTypes, Control, Used, Sock,
      Sock0, kernelVars, clientVars, pollVars, netVars, thrVars
  <2>4. \A i1 \in Used' : fds'[i1].cl <= nacc'
    BY <1>0, SlotTypes DEF SetCanRehear, At, Domains, KernelTypes,
      ClientTypes, PollTypes, NetTypes, HandlerTypes, Control, Used, Sock,
      Sock0, kernelVars, clientVars, pollVars, netVars, thrVars
  <2>5. /\ \A k1 \in Key : client_table'[k1] <= nacc'
        /\ \A s1 \in 1..nconn' : key'[s1] \in Key
    BY <1>0, SlotTypes DEF SetCanRehear, At, Domains, KernelTypes,
      ClientTypes, PollTypes, NetTypes, HandlerTypes, Control, Used, Sock,
      Sock0, kernelVars, clientVars, pollVars, netVars, thrVars
  <2> QED
    BY <2>1, <2>2, <2>3, <2>4, <2>5 DEF Control
<1>8. PollSetCompact'
  BY <1>0 DEF SetCanRehear, At, Domains, KernelTypes, ClientTypes,
    PollTypes, NetTypes, HandlerTypes, Control, PollSetCompact, Used, Sock,
    Sock0, kernelVars, clientVars, pollVars, netVars, thrVars
<1> QED
  BY <1>1, <1>2, <1>3, <1>4, <1>5, <1>6, <1>7, <1>8 DEF TypeInv, TypeOK

(* Every step of the peers, the network thread and the handlers keeps      *)
(* TypeInv.                                                                *)
LEMMA TypeInvNext == ASSUME TypeInv, Next PROVE TypeInv'
<1> USE ConstAssumption, SlotTypes, DomainsHold
    DEF TypeInv, TypeOK, KernelTypes, ClientTypes, PollTypes, NetTypes,
        HandlerTypes, FlagTypes, Control, PollSetCompact, Domains,
        NetAt, At, Used, Sock, Sock0, NetPc, HandlerPc,
        kernelVars, clientVars, pollVars, netVars, thrVars
<1>1. ASSUME NEW k \in Key, Connect(k) PROVE TypeInv'
  BY <1>1, ConnectTypeInv
<1>2. ASSUME NEW s \in Sock, NEW b \in {"part", "line"}, Send(s, b)
      PROVE  TypeInv'
  BY <1>2, SendTypeInv
<1>3. ASSUME NEW s \in Sock, NEW how \in {"fin", "rst"}, Close(s, how)
      PROVE  TypeInv'
  BY <1>3, CloseTypeInv
<1>4. ASSUME PollReturn PROVE TypeInv'
  BY <1>4, PollReturnTypeInv
<1>5. ASSUME PollSleep PROVE TypeInv'
  BY <1>5 DEF PollSleep
<1>6. ASSUME PollInterrupted PROVE TypeInv'
  BY <1>6, PollInterruptedTypeInv
<1>7. ASSUME NoNewConnection PROVE TypeInv'
  BY <1>7 DEF NoNewConnection
<1>8. ASSUME ClientGetOrCreate PROVE TypeInv'
  BY <1>8, ClientGetOrCreateTypeInv
<1>9. ASSUME GetpeernameFails PROVE TypeInv'
  BY <1>9, GetpeernameFailsTypeInv
<1>10. ASSUME NetLoadRef("aload", "astore") PROVE TypeInv'
  BY <1>10, NetLoadRefTypeInv
<1>11. ASSUME AddNewClientToFds PROVE TypeInv'
  BY <1>11, AddNewClientToFdsTypeInv
<1>12. ASSUME ScanQuiet PROVE TypeInv'
  BY <1>12, ScanQuietTypeInv
<1>13. ASSUME ScanHup PROVE TypeInv'
  BY <1>13, ScanHupTypeInv
<1>14. ASSUME ScanIn PROVE TypeInv'
  BY <1>14, ScanInTypeInv
<1>15. ASSUME NetLoadRef("iload", "istore") PROVE TypeInv'
  BY <1>15, NetLoadRefTypeInv
<1>16. ASSUME NEW t \in Thread, StartHandler(t) PROVE TypeInv'
  BY <1>16, StartHandlerTypeInv
<1>17. ASSUME PthreadCreateFails PROVE TypeInv'
  BY <1>17, PthreadCreateFailsTypeInv
<1>18. ASSUME NetLoadRef("dload", "dstore") PROVE TypeInv'
  BY <1>18, NetLoadRefTypeInv
<1>19. ASSUME NetDecRef PROVE TypeInv'
  BY <1>19, NetDecRefTypeInv
<1>20. ASSUME DropSlot PROVE TypeInv'
  BY <1>20, DropSlotTypeInv
<1>21. ASSUME ScanEnd PROVE TypeInv'
  BY <1>21 DEF ScanEnd
<1>22. ASSUME CleanSkip PROVE TypeInv'
  BY <1>22 DEF CleanSkip
<1>23. ASSUME CleanFill PROVE TypeInv'
  BY <1>23, CleanFillTypeInv
<1>24. ASSUME CleanEnd PROVE TypeInv'
  BY <1>24 DEF CleanEnd
<1>25. ASSUME NetUsesFreed PROVE TypeInv'
  BY <1>25 DEF NetUsesFreed
<1>26. ASSUME NEW t \in Thread, HandlerBegin(t) PROVE TypeInv'
  BY <1>26 DEF HandlerBegin
<1>27. ASSUME NEW t \in Thread, ReadPart(t) PROVE TypeInv'
  BY <1>27, ReadPartTypeInv
<1>28. ASSUME NEW t \in Thread, NEW b \in BOOLEAN, ReadLine(t, b)
      PROVE  TypeInv'
  BY <1>28, ReadLineTypeInv
<1>29. ASSUME NEW t \in Thread, ReadFails(t) PROVE TypeInv'
  BY <1>29 DEF ReadFails
<1>30. ASSUME NEW t \in Thread, CallHandler(t) PROVE TypeInv'
  BY <1>30 DEF CallHandler
<1>31. ASSUME NEW t \in Thread, SetCanRehear(t) PROVE TypeInv'
  BY <1>31, SetCanRehearTypeInv
<1>32. ASSUME NEW t \in Thread, HandlerLoadRef(t) PROVE TypeInv'
  BY <1>32, HandlerLoadRefTypeInv
<1>33. ASSUME NEW t \in Thread, HandlerDecRef(t) PROVE TypeInv'
  BY <1>33, HandlerDecRefTypeInv
<1>34. ASSUME NEW t \in Thread, HandlerCheckRef(t) PROVE TypeInv'
  BY <1>34, HandlerCheckRefTypeInv
<1>35. ASSUME NEW t \in Thread, KillNetworkThread(t) PROVE TypeInv'
  BY <1>35 DEF KillNetworkThread
<1>36. ASSUME NEW t \in Thread, HandlerUsesFreed(t) PROVE TypeInv'
  BY <1>36 DEF HandlerUsesFreed
<1>37. ASSUME NEW t \in Thread, AnswerBrokenPipe(t) PROVE TypeInv'
  BY <1>37 DEF AnswerBrokenPipe
<1> QED
  BY <1>1, <1>2, <1>3, <1>4, <1>5, <1>6, <1>7, <1>8, <1>9, <1>10, <1>11,
    <1>12, <1>13, <1>14, <1>15, <1>16, <1>17, <1>18, <1>19, <1>20, <1>21,
    <1>22, <1>23, <1>24, <1>25, <1>26, <1>27, <1>28, <1>29, <1>30, <1>31,
    <1>32, <1>33, <1>34, <1>35, <1>36, <1>37
  DEF Next, PeerStep, NetStep, HandlerStep

(* The same for a stuttering step.                                         *)
LEMMA TypeInvStutter == ASSUME TypeInv, UNCHANGED vars PROVE TypeInv'
<1> USE DEF vars, kernelVars, clientVars, pollVars, netVars, thrVars
<1>1. /\ KernelTypes' /\ ClientTypes' /\ PollTypes' /\ NetTypes'
      /\ HandlerTypes' /\ FlagTypes'
  BY DEF TypeInv, TypeOK, KernelTypes, ClientTypes, PollTypes, NetTypes,
         HandlerTypes, FlagTypes
<1>2. Control' /\ PollSetCompact'
  BY DEF TypeInv, Control, PollSetCompact, Used, NetAt
<1> QED
  BY <1>1, <1>2 DEF TypeInv, TypeOK

(* The inductive invariant holds in every reachable state.                 *)
THEOREM TypeInvariant == Spec => []TypeInv
<1>1. TypeInv /\ [Next]_vars => TypeInv'
  BY TypeInvNext, TypeInvStutter
<1> QED
  BY TypeInvInit, <1>1, PTL DEF Spec

(* Every variable of the tracker's network layer keeps its type: the       *)
(* counters of network.c stay within the slots there are, no index leaves  *)
(* fds[] or clients[].                                                     *)
THEOREM TypeCorrect == Spec => []TypeOK
<1>1. TypeInv => TypeOK
  BY DEF TypeInv
<1> QED
  BY TypeInvariant, <1>1, PTL

(* clean_fds and the scan of handle_incoming_data: no polled slot is a     *)
(* hole, for any number of connections and any mix of hangups.             *)
THEOREM PollSetIsCompact == Spec => []PollSetCompact
<1>1. TypeInv => PollSetCompact
  BY DEF TypeInv
<1> QED
  BY TypeInvariant, <1>1, PTL
-----------------------------------------------------------------------------
(* The safety theorems.  The inductive invariant SafetyInv adds to TypeInv *)
(* what POLLIN in a slot's events and revents says of the client behind it.*)

(* Addresses: a socket has one from its connection on, an earlier socket   *)
(* of the same address is reset, and the client table is keyed by it.      *)
KernelInv ==
    /\ \A s \in Sock : s > nconn => link[s] = "none" /\ key[s] = NoKey
    /\ \A r, s \in Sock :
          r < s /\ s <= nconn /\ key[r] = key[s] => link[r] = "rst"
    /\ \A k \in Key : client_table[k] # 0 => key[client_table[k]] = k

(* No handler is at work on c, and none has asked for its rearming.        *)
Idle(c) == ~can_rehear[c] /\ \A t \in Thread : Busy(t) => hcl[t] # c

(* poll has reported a request on slot i that is not handed to a thread    *)
(* yet.                                                                    *)
Pending(i) == fds[i].cl # 0 /\ fds[i].rin /\ ~fds[i].rhup

(* Why OneReader holds.  POLLIN is armed, or reported, only for an idle    *)
(* client.  The exception is a client found again in the table when its    *)
(* address reconnects: it may have two slots, but its socket is dead, so   *)
(* poll reports the hangup and no handler is started.                      *)
ArmedIsIdle ==
    \A i \in Used : fds[i].cl # 0 /\ fds[i].armed /\ ~Dead(fds[i].cl)
                        => Idle(fds[i].cl)
OneLiveSlot ==
    \A i, j \in Used :
        i # j /\ fds[i].cl = fds[j].cl /\ fds[i].cl # 0 => Dead(fds[i].cl)
PendingIsIdle ==
    \A i \in Used : Pending(i) =>
        /\ Idle(fds[i].cl)
        /\ \A j \in Used : j # i /\ fds[j].cl = fds[i].cl => ~Pending(j)
StartingIsIdle ==
    npc \in {"iload", "istore"} =>
        /\ Idle(ncl)
        /\ \A i \in Used : fds[i].cl = ncl =>
              ~Pending(i) /\ (fds[i].armed => Dead(ncl))
AddingIsIdle ==
    npc \in {"aload", "astore"} =>
        Dead(ncl) \/ (Idle(ncl) /\ \A i \in Used : fds[i].cl # ncl)
RehearAfterWork ==
    /\ \A s \in Sock : can_rehear[s] => s <= nacc
    /\ \A t \in Thread : Busy(t) => ~can_rehear[hcl[t]]

ReaderInv ==
    /\ OneReader /\ RehearAfterWork /\ ArmedIsIdle /\ OneLiveSlot
    /\ PendingIsIdle /\ StartingIsIdle /\ AddingIsIdle

(* Why ConnectionPolled holds: a slot is dropped only for a dead socket.   *)
HangupIsDead ==
    /\ \A i \in Used : fds[i].cl # 0 /\ fds[i].rhup => Dead(fds[i].cl)
    /\ npc \in {"dload", "dstore", "dcheck"} => Dead(ncl)
Adding(s) == npc \in {"aload", "astore"} /\ ncl = s
AcceptedHasSlot ==
    \A s \in Sock :
        s <= nacc /\ link[s] = "up" /\ (\A r \in Sock \ {s} : key[r] # key[s])
            => HasSlot(s) \/ Adding(s)

(* The inductive invariant.                                                *)
SafetyInv == KernelInv /\ ReaderInv /\ HangupIsDead /\ AcceptedHasSlot

(* Sending, or reading what was sent, changes no address, no link state    *)
(* and no table entry, and these are all KernelInv speaks of.              *)
LEMMA KernelFrame ==
    ASSUME KernelInv,
           UNCHANGED <<key, link, nconn, client_table>>
    PROVE  KernelInv'
<1>1. /\ key' = key /\ link' = link /\ nconn' = nconn
      /\ client_table' = client_table
  OBVIOUS
<1>2. (\A s \in Sock : s > nconn => link[s] = "none" /\ key[s] = NoKey)'
  BY <1>1 DEF KernelInv
<1>3. (\A r, s \in Sock :
          r < s /\ s <= nconn /\ key[r] = key[s] => link[r] = "rst")'
  BY <1>1 DEF KernelInv
<1>4. (\A k \in Key : client_table[k] # 0 => key[client_table[k]] = k)'
  BY <1>1 DEF KernelInv
<1> QED
  BY <1>2, <1>3, <1>4 DEF KernelInv

(* delete_client only takes an entry out of the client table.              *)
LEMMA KernelDelete ==
    ASSUME KernelInv, ClientTypes, NEW c \in Sock, key[c] \in Key,
           DeleteIfUnreferenced(c), UNCHANGED kernelVars
    PROVE  KernelInv'
<1>1. \A k \in Key : client_table'[k] \in {client_table[k], 0}
  BY DEF DeleteIfUnreferenced, DeleteClient, ClientTypes
<1>2. key' = key /\ link' = link /\ nconn' = nconn
  BY DEF kernelVars
<1>3. (\A k \in Key : client_table[k] # 0 => key[client_table[k]] = k)'
  BY <1>1, <1>2 DEF KernelInv
<1>4. (\A s \in Sock : s > nconn => link[s] = "none" /\ key[s] = NoKey)'
  BY <1>2 DEF KernelInv
<1>5. (\A r, s \in Sock :
          r < s /\ s <= nconn /\ key[r] = key[s] => link[r] = "rst")'
  BY <1>2 DEF KernelInv
<1> QED
  BY <1>3, <1>4, <1>5 DEF KernelInv

(* Only a reset lets an address connect again, and the table follows the   *)
(* addresses: every step keeps KernelInv.                                  *)
LEMMA KernelNext == ASSUME TypeInv, KernelInv, Next PROVE KernelInv'
<1> USE ConstAssumption DEF kernelVars, clientVars
<1>1. ASSUME NEW k \in Key, Connect(k) PROVE KernelInv'
  BY <1>1
  DEF Connect, KernelInv, TypeInv, TypeOK, KernelTypes, ClientTypes, Control,
      Sock, Sock0
<1>2. ASSUME NEW s \in Sock, NEW b \in {"part", "line"}, Send(s, b)
      PROVE  KernelInv'
  BY <1>2, KernelFrame DEF Send
<1>3. ASSUME NEW s \in Sock, NEW how \in {"fin", "rst"}, Close(s, how)
      PROVE  KernelInv'
  BY <1>3 DEF Close, KernelInv, TypeInv, TypeOK, KernelTypes, Sock
<1>4. ASSUME PollReturn PROVE KernelInv'
  BY <1>4, KernelFrame DEF PollReturn
<1>5. ASSUME PollSleep PROVE KernelInv'
  BY <1>5, KernelFrame DEF PollSleep
<1>6. ASSUME PollInterrupted PROVE KernelInv'
  BY <1>6, KernelFrame DEF PollInterrupted
<1>7. ASSUME NoNewConnection PROVE KernelInv'
  BY <1>7, KernelFrame DEF NoNewConnection
<1>8. ASSUME ClientGetOrCreate PROVE KernelInv'
  BY <1>8
  DEF ClientGetOrCreate, KernelInv, TypeInv, TypeOK, KernelTypes, ClientTypes,
      Control, NetAt, Sock, Sock0
<1>9. ASSUME GetpeernameFails PROVE KernelInv'
  BY <1>9, KernelFrame DEF GetpeernameFails
<1>10. ASSUME NetLoadRef("aload", "astore") PROVE KernelInv'
  BY <1>10, KernelFrame DEF NetLoadRef, NetEnters
<1>11. ASSUME AddNewClientToFds PROVE KernelInv'
  BY <1>11, KernelFrame DEF AddNewClientToFds
<1>12. ASSUME ScanQuiet PROVE KernelInv'
  BY <1>12, KernelFrame DEF ScanQuiet
<1>13. ASSUME ScanHup PROVE KernelInv'
  BY <1>13, KernelFrame DEF ScanHup
<1>14. ASSUME ScanIn PROVE KernelInv'
  BY <1>14, KernelFrame DEF ScanIn
<1>15. ASSUME NetLoadRef("iload", "istore") PROVE KernelInv'
  BY <1>15, KernelFrame DEF NetLoadRef, NetEnters
<1>16. ASSUME NEW t \in Thread, StartHandler(t) PROVE KernelInv'
  BY <1>16, KernelFrame DEF StartHandler
<1>17. ASSUME PthreadCreateFails PROVE KernelInv'
  BY <1>17, KernelFrame DEF PthreadCreateFails
<1>18. ASSUME NetLoadRef("dload", "dstore") PROVE KernelInv'
  BY <1>18, KernelFrame DEF NetLoadRef, NetEnters
<1>19. ASSUME NetDecRef PROVE KernelInv'
  BY <1>19, KernelFrame DEF NetDecRef
<1>20. ASSUME DropSlot PROVE KernelInv'
  <2>1. ncl \in Sock /\ key[ncl] \in Key
    BY <1>20, DomainsHold DEF DropSlot, NetAt, Domains
  <2> QED
    BY <1>20, <2>1, KernelDelete DEF DropSlot, TypeInv, TypeOK
<1>21. ASSUME ScanEnd PROVE KernelInv'
  BY <1>21, KernelFrame DEF ScanEnd
<1>22. ASSUME CleanSkip PROVE KernelInv'
  BY <1>22, KernelFrame DEF CleanSkip
<1>23. ASSUME CleanFill PROVE KernelInv'
  BY <1>23, KernelFrame DEF CleanFill
<1>24. ASSUME CleanEnd PROVE KernelInv'
  BY <1>24, KernelFrame DEF CleanEnd
<1>25. ASSUME NetUsesFreed PROVE KernelInv'
  BY <1>25, KernelFrame DEF NetUsesFreed
<1>26. ASSUME NEW t \in Thread, HandlerBegin(t) PROVE KernelInv'
  BY <1>26, KernelFrame DEF HandlerBegin
<1>27. ASSUME NEW t \in Thread, ReadPart(t) PROVE KernelInv'
  BY <1>27, KernelFrame DEF ReadPart
<1>28. ASSUME NEW t \in Thread, NEW b \in BOOLEAN, ReadLine(t, b)
      PROVE  KernelInv'
  BY <1>28, KernelFrame DEF ReadLine
<1>29. ASSUME NEW t \in Thread, ReadFails(t) PROVE KernelInv'
  BY <1>29, KernelFrame DEF ReadFails
<1>30. ASSUME NEW t \in Thread, CallHandler(t) PROVE KernelInv'
  BY <1>30, KernelFrame DEF CallHandler
<1>31. ASSUME NEW t \in Thread, SetCanRehear(t) PROVE KernelInv'
  BY <1>31, KernelFrame DEF SetCanRehear
<1>32. ASSUME NEW t \in Thread, HandlerLoadRef(t) PROVE KernelInv'
  BY <1>32, KernelFrame DEF HandlerLoadRef
<1>33. ASSUME NEW t \in Thread, HandlerDecRef(t) PROVE KernelInv'
  BY <1>33, KernelFrame DEF HandlerDecRef
<1>34. ASSUME NEW t \in Thread, HandlerCheckRef(t) PROVE KernelInv'
  <2>1. hcl[t] \in Sock /\ key[hcl[t]] \in Key
    BY <1>34, DomainsHold DEF HandlerCheckRef, At, Domains
  <2> QED
    BY <1>34, <2>1, KernelDelete DEF HandlerCheckRef, TypeInv, TypeOK
<1>35. ASSUME NEW t \in Thread, KillNetworkThread(t) PROVE KernelInv'
  BY <1>35, KernelFrame DEF KillNetworkThread
<1>36. ASSUME NEW t \in Thread, HandlerUsesFreed(t) PROVE KernelInv'
  BY <1>36, KernelFrame DEF HandlerUsesFreed
<1>37. ASSUME NEW t \in Thread, AnswerBrokenPipe(t) PROVE KernelInv'
  BY <1>37, KernelFrame DEF AnswerBrokenPipe
<1> QED
  BY <1>1, <1>2, <1>3, <1>4, <1>5, <1>6, <1>7, <1>8, <1>9, <1>10, <1>11,
      <1>12, <1>13, <1>14, <1>15, <1>16, <1>17, <1>18, <1>19, <1>20, <1>21,
      <1>22, <1>23, <1>24, <1>25, <1>26, <1>27, <1>28, <1>29, <1>30, <1>31,
      <1>32, <1>33, <1>34, <1>35, <1>36, <1>37
  DEF Next, PeerStep, NetStep, HandlerStep

(* A new connection is not dead, and its address is not that of a          *)
(* connection that is up.                                                  *)
LEMMA ConnectSafe ==
    ASSUME TypeInv, SafetyInv, NEW k \in Key, Connect(k)
    PROVE  SafetyInv'
<1> USE ConstAssumption
<1>0. /\ OneReader /\ RehearAfterWork /\ ArmedIsIdle /\ OneLiveSlot
      /\ PendingIsIdle /\ StartingIsIdle /\ AddingIsIdle /\ Domains
      /\ KernelInv /\ HangupIsDead /\ AcceptedHasSlot
  BY DomainsHold DEF SafetyInv, ReaderInv
<1>k. KernelInv'
  BY KernelNext DEF SafetyInv, Next, PeerStep, NetStep, HandlerStep
<1>1. /\ UNCHANGED <<fds, nfds, npc, ncl, can_rehear, hpc, hcl, nacc>>
      /\ Used' = Used
  BY <1>0
  DEF Connect, Used, kernelVars, clientVars, pollVars, netVars, thrVars
<1>2. \A c \in Sock : Dead(c)' <=> Dead(c)
  BY <1>0
  DEF Connect, Dead, KernelInv, Sock, TypeInv, TypeOK, KernelTypes,
      ClientTypes, PollTypes, NetTypes, HandlerTypes, Control
<1>3. \A c \in Sock : Idle(c)' <=> Idle(c)
  BY <1>0, <1>1 DEF Idle, Busy
<1>4. OneReader'
  BY <1>0, <1>1, <1>2, <1>3 DEF OneReader, Busy, Domains
<1>5. RehearAfterWork'
  BY <1>0, <1>1, <1>2, <1>3 DEF RehearAfterWork, Busy, Domains
<1>6. ArmedIsIdle'
  BY <1>0, <1>1, <1>2, <1>3 DEF ArmedIsIdle, Domains
<1>7. OneLiveSlot'
  BY <1>0, <1>1, <1>2, <1>3 DEF OneLiveSlot, Domains
<1>8. PendingIsIdle'
  BY <1>0, <1>1, <1>2, <1>3 DEF PendingIsIdle, Pending, Domains
<1>9. StartingIsIdle'
  BY <1>0, <1>1, <1>2, <1>3 DEF StartingIsIdle, Pending, Domains
<1>10. AddingIsIdle'
  BY <1>0, <1>1, <1>2, <1>3 DEF AddingIsIdle, Domains
<1>11. HangupIsDead'
  <2>1. \A i \in Used' : fds'[i].cl # 0 /\ fds'[i].rhup => Dead(fds[i].cl)'
    BY <1>0, <1>1, <1>2, <1>3 DEF HangupIsDead, Domains
  <2>2. npc' \in {"dload", "dstore", "dcheck"} => Dead(ncl)'
    BY <1>0, <1>1, <1>2, <1>3 DEF HangupIsDead, Domains, Sock
  <2> QED
    BY <2>1, <2>2 DEF HangupIsDead
<1>12. AcceptedHasSlot'
  <2> SUFFICES ASSUME NEW s \in Sock, s <= nacc', link'[s] = "up",
                       \A r \in Sock \ {s} : key'[r] # key'[s]
               PROVE  HasSlot(s)' \/ Adding(s)'
    BY DEF AcceptedHasSlot
  <2>1. s <= nacc => HasSlot(s) \/ Adding(s)
    BY <1>0, <1>1, <1>2, <1>3
    DEF AcceptedHasSlot, Connect, KernelInv, Sock, TypeInv, TypeOK,
        KernelTypes, Control
  <2>2. s <= nacc =>
          \A i \in Used : fds[i].cl = s => i \in Used' /\ fds'[i].cl = s
    BY <1>0, <1>1, <1>2, <1>3
    DEF Dead, Connect, KernelInv, Sock, TypeInv, TypeOK, KernelTypes, Control
  <2> QED
    BY <2>1, <2>2, <1>0, <1>1, <1>2, <1>3
    DEF HasSlot, Adding, Sock, Connect, KernelInv, Sock, TypeInv, TypeOK,
        KernelTypes, Control
<1> QED
  BY <1>4, <1>5, <1>6, <1>7, <1>8, <1>9, <1>10, <1>11, <1>12, <1>k
  DEF SafetyInv, ReaderInv

(* A connection that dies stays dead, which only weakens what is claimed.  *)
LEMMA CloseSafe ==
    ASSUME TypeInv, SafetyInv,
           NEW sk \in Sock, NEW how \in {"fin", "rst"}, Close(sk, how)
    PROVE  SafetyInv'
<1> USE ConstAssumption
<1>0. /\ OneReader /\ RehearAfterWork /\ ArmedIsIdle /\ OneLiveSlot
      /\ PendingIsIdle /\ StartingIsIdle /\ AddingIsIdle /\ Domains
      /\ KernelInv /\ HangupIsDead /\ AcceptedHasSlot
  BY DomainsHold DEF SafetyInv, ReaderInv
<1>k. KernelInv'
  BY KernelNext DEF SafetyInv, Next, PeerStep, NetStep, HandlerStep
<1>1. /\ UNCHANGED <<fds, nfds, npc, ncl, can_rehear, hpc, hcl, nacc>>
      /\ Used' = Used
  BY <1>0 DEF Close, Used, kernelVars, clientVars, pollVars, netVars, thrVars
<1>2. \A c \in Sock : Dead(c) => Dead(c)'
  BY <1>0
  DEF Close, Dead, TypeInv, TypeOK, KernelTypes, ClientTypes, PollTypes,
      NetTypes, HandlerTypes, Control
<1>3. \A c \in Sock : Idle(c)' <=> Idle(c)
  BY <1>0, <1>1 DEF Idle, Busy
<1>4. OneReader'
  BY <1>0, <1>1, <1>2, <1>3 DEF OneReader, Busy, Domains
<1>5. RehearAfterWork'
  BY <1>0, <1>1, <1>2, <1>3 DEF RehearAfterWork, Busy, Domains
<1>6. ArmedIsIdle'
  BY <1>0, <1>1, <1>2, <1>3 DEF ArmedIsIdle, Domains
<1>7. OneLiveSlot'
  BY <1>0, <1>1, <1>2, <1>3 DEF OneLiveSlot, Domains
<1>8. PendingIsIdle'
  BY <1>0, <1>1, <1>2, <1>3 DEF PendingIsIdle, Pending, Domains
<1>9. StartingIsIdle'
  BY <1>0, <1>1, <1>2, <1>3 DEF StartingIsIdle, Pending, Domains
<1>10. AddingIsIdle'
  BY <1>0, <1>1, <1>2, <1>3 DEF AddingIsIdle, Domains
<1>11. HangupIsDead'
  <2>1. \A i \in Used' : fds'[i].cl # 0 /\ fds'[i].rhup => Dead(fds[i].cl)'
    BY <1>0, <1>1, <1>2, <1>3 DEF HangupIsDead, Domains
  <2>2. npc' \in {"dload", "dstore", "dcheck"} => Dead(ncl)'
    BY <1>0, <1>1, <1>2, <1>3 DEF HangupIsDead, Domains, Sock
  <2> QED
    BY <2>1, <2>2 DEF HangupIsDead
<1>12. AcceptedHasSlot'
  <2> SUFFICES ASSUME NEW s \in Sock, s <= nacc', link'[s] = "up",
                       \A r \in Sock \ {s} : key'[r] # key'[s]
               PROVE  HasSlot(s)' \/ Adding(s)'
    BY DEF AcceptedHasSlot
  <2>1. s <= nacc => HasSlot(s) \/ Adding(s)
    BY <1>0, <1>1, <1>2, <1>3
    DEF AcceptedHasSlot, Close, Sock, TypeInv, TypeOK, KernelTypes
  <2>2. s <= nacc =>
          \A i \in Used : fds[i].cl = s => i \in Used' /\ fds'[i].cl = s
    BY <1>0, <1>1, <1>2, <1>3
    DEF Dead, Close, Sock, TypeInv, TypeOK, KernelTypes
  <2> QED
    BY <2>1, <2>2, <1>0, <1>1, <1>2, <1>3
    DEF HasSlot, Adding, Sock, Close, Sock, TypeInv, TypeOK, KernelTypes
<1> QED
  BY <1>4, <1>5, <1>6, <1>7, <1>8, <1>9, <1>10, <1>11, <1>12, <1>k
  DEF SafetyInv, ReaderInv

(* poll reports POLLIN without POLLRDHUP for an armed live slot only, whose *)
(* client is idle and has no second slot.                                  *)
LEMMA PollReturnSafe ==
    ASSUME TypeInv, SafetyInv, PollReturn
    PROVE  SafetyInv'
<1> USE ConstAssumption
<1>0. /\ OneReader /\ RehearAfterWork /\ ArmedIsIdle /\ OneLiveSlot
      /\ PendingIsIdle /\ StartingIsIdle /\ AddingIsIdle /\ Domains
      /\ KernelInv /\ HangupIsDead /\ AcceptedHasSlot
  BY DomainsHold DEF SafetyInv, ReaderInv
<1>k. KernelInv'
  BY KernelNext DEF SafetyInv, Next, PeerStep, NetStep, HandlerStep
<1>1. /\ UNCHANGED <<key, link, nfds, can_rehear, hpc, hcl, nacc>>
      /\ npc' = "accept" /\ Used' = Used /\ npc \notin {"aload", "astore"}
  BY <1>0
  DEF PollReturn, NetAt, Used, kernelVars, clientVars, pollVars, netVars,
      thrVars
<1>2. \A i \in Used :
         /\ fds'[i].cl = fds[i].cl /\ (fds'[i].armed <=> fds[i].armed)
         /\ fds'[i].rhup <=> Dead(fds[i].cl)
         /\ fds'[i].rin => fds[i].armed
  BY <1>0
  DEF PollReturn, Polled, ReadsIn, HungUp, Domains, PollTypes, TypeInv,
      TypeOK, Slot
<1>3. \A c \in Sock : Dead(c)' <=> Dead(c)
  BY <1>0, <1>1 DEF Dead
<1>4. \A c \in Sock : Idle(c)' <=> Idle(c)
  BY <1>0, <1>1 DEF Idle, Busy
<1>5. OneReader'
  BY <1>0, <1>1, <1>2, <1>3, <1>4 DEF OneReader, Busy, Domains
<1>6. RehearAfterWork'
  BY <1>0, <1>1, <1>2, <1>3, <1>4 DEF RehearAfterWork, Busy, Domains
<1>7. ArmedIsIdle'
  BY <1>0, <1>1, <1>2, <1>3, <1>4 DEF ArmedIsIdle, Domains
<1>8. OneLiveSlot'
  BY <1>0, <1>1, <1>2, <1>3, <1>4 DEF OneLiveSlot, Domains
<1>9. PendingIsIdle'
  BY <1>0, <1>1, <1>2, <1>3, <1>4
  DEF PendingIsIdle, Pending, Domains, ArmedIsIdle, OneLiveSlot
<1>10. StartingIsIdle'
  BY <1>0, <1>1, <1>2, <1>3, <1>4 DEF StartingIsIdle, Pending, Domains
<1>11. AddingIsIdle'
  BY <1>0, <1>1, <1>2, <1>3, <1>4 DEF AddingIsIdle, Domains
<1>12. HangupIsDead'
  <2>1. \A i \in Used' : fds'[i].cl # 0 /\ fds'[i].rhup => Dead(fds[i].cl)'
    BY <1>0, <1>1, <1>2, <1>3, <1>4 DEF HangupIsDead, Domains
  <2>2. npc' \in {"dload", "dstore", "dcheck"} => Dead(ncl)'
    BY <1>0, <1>1, <1>2, <1>3, <1>4 DEF HangupIsDead, Domains, Sock
  <2> QED
    BY <2>1, <2>2 DEF HangupIsDead
<1>13. AcceptedHasSlot'
  <2> SUFFICES ASSUME NEW s \in Sock, s <= nacc', link'[s] = "up",
                       \A r \in Sock \ {s} : key'[r] # key'[s]
               PROVE  HasSlot(s)' \/ Adding(s)'
    BY DEF AcceptedHasSlot
  <2>1. s <= nacc => HasSlot(s) \/ Adding(s)
    BY <1>0, <1>1, <1>2, <1>3, <1>4 DEF AcceptedHasSlot
  <2>2. s <= nacc =>
          \A i \in Used : fds[i].cl = s => i \in Used' /\ fds'[i].cl = s
    BY <1>0, <1>1, <1>2, <1>3, <1>4 DEF Dead
  <2> QED
    BY <2>1, <2>2, <1>0, <1>1, <1>2, <1>3, <1>4 DEF HasSlot, Adding, Sock
<1> QED
  BY <1>5, <1>6, <1>7, <1>8, <1>9, <1>10, <1>11, <1>12, <1>13, <1>k
  DEF SafetyInv, ReaderInv

(* After EINTR nothing is reported.                                        *)
LEMMA PollInterruptedSafe ==
    ASSUME TypeInv, SafetyInv, PollInterrupted
    PROVE  SafetyInv'
<1> USE ConstAssumption
<1>0. /\ OneReader /\ RehearAfterWork /\ ArmedIsIdle /\ OneLiveSlot
      /\ PendingIsIdle /\ StartingIsIdle /\ AddingIsIdle /\ Domains
      /\ KernelInv /\ HangupIsDead /\ AcceptedHasSlot
  BY DomainsHold DEF SafetyInv, ReaderInv
<1>k. KernelInv'
  BY KernelNext DEF SafetyInv, Next, PeerStep, NetStep, HandlerStep
<1>1. /\ UNCHANGED <<key, link, nfds, can_rehear, hpc, hcl, nacc>>
      /\ npc' = "accept" /\ Used' = Used /\ npc \notin {"aload", "astore"}
  BY <1>0
  DEF PollInterrupted, NetAt, Used, kernelVars, clientVars, pollVars, netVars,
      thrVars
<1>2. \A i \in Used :
         /\ fds'[i].cl = fds[i].cl /\ (fds'[i].armed <=> fds[i].armed)
         /\ ~fds'[i].rin /\ ~fds'[i].rhup
  BY <1>0
  DEF PollInterrupted, Quiet, Domains, PollTypes, TypeInv, TypeOK, Slot
<1>3. \A c \in Sock : Dead(c)' <=> Dead(c)
  BY <1>0, <1>1 DEF Dead
<1>4. \A c \in Sock : Idle(c)' <=> Idle(c)
  BY <1>0, <1>1 DEF Idle, Busy
<1>5. OneReader'
  BY <1>0, <1>1, <1>2, <1>3, <1>4 DEF OneReader, Busy, Domains
<1>6. RehearAfterWork'
  BY <1>0, <1>1, <1>2, <1>3, <1>4 DEF RehearAfterWork, Busy, Domains
<1>7. ArmedIsIdle'
  BY <1>0, <1>1, <1>2, <1>3, <1>4 DEF ArmedIsIdle, Domains
<1>8. OneLiveSlot'
  BY <1>0, <1>1, <1>2, <1>3, <1>4 DEF OneLiveSlot, Domains
<1>9. PendingIsIdle'
  BY <1>0, <1>1, <1>2, <1>3, <1>4 DEF PendingIsIdle, Pending, Domains
<1>10. StartingIsIdle'
  BY <1>0, <1>1, <1>2, <1>3, <1>4 DEF StartingIsIdle, Pending, Domains
<1>11. AddingIsIdle'
  BY <1>0, <1>1, <1>2, <1>3, <1>4 DEF AddingIsIdle, Domains
<1>12. HangupIsDead'
  <2>1. \A i \in Used' : fds'[i].cl # 0 /\ fds'[i].rhup => Dead(fds[i].cl)'
    BY <1>0, <1>1, <1>2, <1>3, <1>4 DEF HangupIsDead, Domains
  <2>2. npc' \in {"dload", "dstore", "dcheck"} => Dead(ncl)'
    BY <1>0, <1>1, <1>2, <1>3, <1>4 DEF HangupIsDead, Domains, Sock
  <2> QED
    BY <2>1, <2>2 DEF HangupIsDead
<1>13. AcceptedHasSlot'
  <2> SUFFICES ASSUME NEW s \in Sock, s <= nacc', link'[s] = "up",
                       \A r \in Sock \ {s} : key'[r] # key'[s]
               PROVE  HasSlot(s)' \/ Adding(s)'
    BY DEF AcceptedHasSlot
  <2>1. s <= nacc => HasSlot(s) \/ Adding(s)
    BY <1>0, <1>1, <1>2, <1>3, <1>4 DEF AcceptedHasSlot
  <2>2. s <= nacc =>
          \A i \in Used : fds[i].cl = s => i \in Used' /\ fds'[i].cl = s
    BY <1>0, <1>1, <1>2, <1>3, <1>4 DEF Dead
  <2> QED
    BY <2>1, <2>2, <1>0, <1>1, <1>2, <1>3, <1>4 DEF HasSlot, Adding, Sock
<1> QED
  BY <1>5, <1>6, <1>7, <1>8, <1>9, <1>10, <1>11, <1>12, <1>13, <1>k
  DEF SafetyInv, ReaderInv

(* The client of an accepted connection is new, or is found under its      *)
(* address and then belongs to a connection that was reset.                *)
LEMMA ClientGetOrCreateSafe ==
    ASSUME TypeInv, SafetyInv, ClientGetOrCreate
    PROVE  SafetyInv'
<1> USE ConstAssumption
<1>0. /\ OneReader /\ RehearAfterWork /\ ArmedIsIdle /\ OneLiveSlot
      /\ PendingIsIdle /\ StartingIsIdle /\ AddingIsIdle /\ Domains
      /\ KernelInv /\ HangupIsDead /\ AcceptedHasSlot
  BY DomainsHold DEF SafetyInv, ReaderInv
<1>k. KernelInv'
  BY KernelNext DEF SafetyInv, Next, PeerStep, NetStep, HandlerStep
<1>1. /\ UNCHANGED <<key, fds, link, nfds, can_rehear, hpc, hcl>>
      /\ npc = "accept" /\ npc' = "aload" /\ Used' = Used /\ nacc' = nacc + 1
  BY <1>0
  DEF ClientGetOrCreate, NetAt, Used, kernelVars, clientVars, pollVars,
      netVars, thrVars
<1>2. \A c \in Sock : Dead(c)' <=> Dead(c)
  BY <1>0, <1>1 DEF Dead
<1>3. \A c \in Sock : Idle(c)' <=> Idle(c)
  BY <1>0, <1>1 DEF Idle, Busy
<1>4. nacc + 1 \in Sock /\ nacc + 1 <= nconn /\ nacc \in Nat
  BY <1>0
  DEF ClientGetOrCreate, NetAt, Sock, TypeInv, TypeOK, KernelTypes,
      ClientTypes, PollTypes, NetTypes, HandlerTypes, Control
<1>5. Idle(nacc + 1) /\ \A i \in Used : fds[i].cl # nacc + 1
  BY <1>0, <1>4
  DEF Idle, Busy, RehearAfterWork, TypeInv, TypeOK, KernelTypes, ClientTypes,
      PollTypes, NetTypes, HandlerTypes, Control
<1>6. ncl' = nacc + 1 \/ (ncl' \in Sock /\ Dead(ncl')
         /\ ncl' # nacc + 1 /\ key[ncl'] = key[nacc + 1])
  BY <1>0, <1>4
  DEF ClientGetOrCreate, KernelInv, Dead, Sock, Sock0, TypeInv, TypeOK,
      KernelTypes, ClientTypes, PollTypes, NetTypes, HandlerTypes, Control
<1>7. OneReader'
  BY <1>0, <1>1, <1>2, <1>3, <1>4, <1>5, <1>6 DEF OneReader, Busy, Domains
<1>8. RehearAfterWork'
  BY <1>0, <1>1, <1>2, <1>3, <1>4, <1>5, <1>6
  DEF RehearAfterWork, Busy, Domains, Sock
<1>9. ArmedIsIdle'
  BY <1>0, <1>1, <1>2, <1>3, <1>4, <1>5, <1>6 DEF ArmedIsIdle, Domains
<1>10. OneLiveSlot'
  BY <1>0, <1>1, <1>2, <1>3, <1>4, <1>5, <1>6 DEF OneLiveSlot, Domains
<1>11. PendingIsIdle'
  BY <1>0, <1>1, <1>2, <1>3, <1>4, <1>5, <1>6
  DEF PendingIsIdle, Pending, Domains
<1>12. StartingIsIdle'
  BY <1>0, <1>1, <1>2, <1>3, <1>4, <1>5, <1>6
  DEF StartingIsIdle, Pending, Domains
<1>13. AddingIsIdle'
  BY <1>0, <1>1, <1>2, <1>3, <1>4, <1>5, <1>6 DEF AddingIsIdle, Domains
<1>14. HangupIsDead'
  <2>1. \A i \in Used' : fds'[i].cl # 0 /\ fds'[i].rhup => Dead(fds[i].cl)'
    BY <1>0, <1>1, <1>2, <1>3, <1>4, <1>5, <1>6 DEF HangupIsDead, Domains
  <2>2. npc' \in {"dload", "dstore", "dcheck"} => Dead(ncl)'
    BY <1>0, <1>1, <1>2, <1>3, <1>4, <1>5, <1>6
    DEF HangupIsDead, Domains, Sock
  <2> QED
    BY <2>1, <2>2 DEF HangupIsDead
<1>15. AcceptedHasSlot'
  <2> SUFFICES ASSUME NEW s \in Sock, s <= nacc', link'[s] = "up",
                       \A r \in Sock \ {s} : key'[r] # key'[s]
               PROVE  HasSlot(s)' \/ Adding(s)'
    BY DEF AcceptedHasSlot
  <2>1. s <= nacc => HasSlot(s) \/ Adding(s)
    BY <1>0, <1>1, <1>2, <1>3, <1>4, <1>5, <1>6 DEF AcceptedHasSlot
  <2>2. s <= nacc =>
          \A i \in Used : fds[i].cl = s => i \in Used' /\ fds'[i].cl = s
    BY <1>0, <1>1, <1>2, <1>3, <1>4, <1>5, <1>6 DEF Dead
  <2> QED
    BY <2>1, <2>2, <1>0, <1>1, <1>2, <1>3, <1>4, <1>5, <1>6
    DEF HasSlot, Adding, Sock
<1> QED
  BY <1>7, <1>8, <1>9, <1>10, <1>11, <1>12, <1>13, <1>14, <1>15, <1>k
  DEF SafetyInv, ReaderInv

(* The new slot is armed for a client that is idle or dead.                *)
LEMMA AddNewClientToFdsSafe ==
    ASSUME TypeInv, SafetyInv, AddNewClientToFds
    PROVE  SafetyInv'
<1> USE ConstAssumption
<1>0. /\ OneReader /\ RehearAfterWork /\ ArmedIsIdle /\ OneLiveSlot
      /\ PendingIsIdle /\ StartingIsIdle /\ AddingIsIdle /\ Domains
      /\ KernelInv /\ HangupIsDead /\ AcceptedHasSlot
  BY DomainsHold DEF SafetyInv, ReaderInv
<1>k. KernelInv'
  BY KernelNext DEF SafetyInv, Next, PeerStep, NetStep, HandlerStep
<1>1. /\ UNCHANGED <<key, link, can_rehear, hpc, hcl, nacc>>
      /\ npc = "astore" /\ npc' = "scan" /\ ncl \in Sock
  BY <1>0
  DEF AddNewClientToFds, NetAt, Domains, kernelVars, clientVars, pollVars,
      netVars, thrVars
<1>2. nfds \in Sock /\ nfds \notin Used /\ Used' = Used \cup {nfds}
  BY <1>0, <1>1
  DEF AddNewClientToFds, Used, Sock, TypeInv, TypeOK, KernelTypes,
      ClientTypes, PollTypes, NetTypes, HandlerTypes, Control
<1>3. /\ fds'[nfds].cl = ncl /\ ~fds'[nfds].rin /\ ~fds'[nfds].rhup
      /\ \A i \in Used : fds'[i] = fds[i]
  BY <1>0, <1>2
  DEF AddNewClientToFds, NewSlot, PollTypes, TypeInv, TypeOK, Domains
<1>4. \A c \in Sock : Dead(c)' <=> Dead(c)
  BY <1>0, <1>1 DEF Dead
<1>5. \A c \in Sock : Idle(c)' <=> Idle(c)
  BY <1>0, <1>1 DEF Idle, Busy
<1>6. OneReader'
  BY <1>0, <1>1, <1>2, <1>3, <1>4, <1>5 DEF OneReader, Busy, Domains
<1>7. RehearAfterWork'
  BY <1>0, <1>1, <1>2, <1>3, <1>4, <1>5 DEF RehearAfterWork, Busy, Domains
<1>8. ArmedIsIdle'
  BY <1>0, <1>1, <1>2, <1>3, <1>4, <1>5 DEF ArmedIsIdle, Domains, AddingIsIdle
<1>9. OneLiveSlot'
  BY <1>0, <1>1, <1>2, <1>3, <1>4, <1>5 DEF OneLiveSlot, Domains, AddingIsIdle
<1>10. PendingIsIdle'
  BY <1>0, <1>1, <1>2, <1>3, <1>4, <1>5 DEF PendingIsIdle, Pending, Domains
<1>11. StartingIsIdle'
  BY <1>0, <1>1, <1>2, <1>3, <1>4, <1>5 DEF StartingIsIdle, Pending, Domains
<1>12. AddingIsIdle'
  BY <1>0, <1>1, <1>2, <1>3, <1>4, <1>5 DEF AddingIsIdle, Domains
<1>13. HangupIsDead'
  <2>1. \A i \in Used' : fds'[i].cl # 0 /\ fds'[i].rhup => Dead(fds[i].cl)'
    BY <1>0, <1>1, <1>2, <1>3, <1>4, <1>5 DEF HangupIsDead, Domains
  <2>2. npc' \in {"dload", "dstore", "dcheck"} => Dead(ncl)'
    BY <1>0, <1>1, <1>2, <1>3, <1>4, <1>5 DEF HangupIsDead, Domains, Sock
  <2> QED
    BY <2>1, <2>2 DEF HangupIsDead
<1>14. AcceptedHasSlot'
  <2> SUFFICES ASSUME NEW s \in Sock, s <= nacc', link'[s] = "up",
                       \A r \in Sock \ {s} : key'[r] # key'[s]
               PROVE  HasSlot(s)' \/ Adding(s)'
    BY DEF AcceptedHasSlot
  <2>1. s <= nacc => HasSlot(s) \/ Adding(s)
    BY <1>0, <1>1, <1>2, <1>3, <1>4, <1>5 DEF AcceptedHasSlot
  <2>2. s <= nacc =>
          \A i \in Used : fds[i].cl = s => i \in Used' /\ fds'[i].cl = s
    BY <1>0, <1>1, <1>2, <1>3, <1>4, <1>5 DEF Dead
  <2> QED
    BY <2>1, <2>2, <1>0, <1>1, <1>2, <1>3, <1>4, <1>5
    DEF HasSlot, Adding, Sock
<1> QED
  BY <1>6, <1>7, <1>8, <1>9, <1>10, <1>11, <1>12, <1>13, <1>14, <1>k
  DEF SafetyInv, ReaderInv

(* The scan rearms a client whose handler has finished: it is idle.        *)
LEMMA ScanQuietSafe ==
    ASSUME TypeInv, SafetyInv, ScanQuiet
    PROVE  SafetyInv'
<1> USE ConstAssumption
<1>0. /\ OneReader /\ RehearAfterWork /\ ArmedIsIdle /\ OneLiveSlot
      /\ PendingIsIdle /\ StartingIsIdle /\ AddingIsIdle /\ Domains
      /\ KernelInv /\ HangupIsDead /\ AcceptedHasSlot
  BY DomainsHold DEF SafetyInv, ReaderInv
<1>k. KernelInv'
  BY KernelNext DEF SafetyInv, Next, PeerStep, NetStep, HandlerStep
<1>1. /\ UNCHANGED <<key, link, nfds, hpc, hcl, nacc>> /\ Used' = Used
      /\ npc = "scan"
      /\ \/ npc' = "scan"
         \/ npc' = "dload" /\ ncl' = fds[ni].cl /\ fds[ni].rhup
  BY <1>0
  DEF ScanQuiet, Scanning, NetAt, Used, kernelVars, clientVars, pollVars,
      netVars, thrVars
<1>2. /\ ni \in Used /\ ni \in Sock /\ fds[ni].cl \in Sock
      /\ can_rehear' = [can_rehear EXCEPT ![fds[ni].cl] = FALSE]
  BY <1>0
  DEF ScanQuiet, Rearm, Scanning, NetAt, Used, Domains, TypeInv, TypeOK,
      KernelTypes, ClientTypes, PollTypes, NetTypes, HandlerTypes, Control
<1>3. \A i \in Used :
         /\ fds'[i].cl = fds[i].cl /\ (fds'[i].rin <=> fds[i].rin)
         /\ fds'[i].rhup <=> fds[i].rhup
         /\ fds'[i].armed => fds[i].armed \/ (i = ni /\ can_rehear[fds[ni].cl])
  BY <1>0, <1>2
  DEF ScanQuiet, Rearmed, Domains, PollTypes, TypeInv, TypeOK, Slot
<1>4. \A c \in Sock : Dead(c)' <=> Dead(c)
  BY <1>0, <1>1 DEF Dead
<1>5. \A c \in Sock : can_rehear'[c] => can_rehear[c] /\ c # fds[ni].cl
  BY <1>0, <1>2 DEF FlagTypes, TypeInv, TypeOK
<1>6. \A c \in Sock : Idle(c) => Idle(c)'
  BY <1>0, <1>1, <1>5 DEF Idle, Busy
<1>7. \A c \in Sock : c = fds[ni].cl /\ can_rehear[c] => Idle(c)'
  BY <1>0, <1>1, <1>2, <1>5 DEF Idle, Busy, RehearAfterWork
<1>8. OneReader'
  BY <1>0, <1>1, <1>2, <1>3, <1>4, <1>5, <1>6, <1>7
  DEF OneReader, Busy, Domains
<1>9. RehearAfterWork'
  BY <1>0, <1>1, <1>2, <1>3, <1>4, <1>5, <1>6, <1>7
  DEF RehearAfterWork, Busy, Domains
<1>10. ArmedIsIdle'
  BY <1>0, <1>1, <1>2, <1>3, <1>4, <1>5, <1>6, <1>7 DEF ArmedIsIdle, Domains
<1>11. OneLiveSlot'
  BY <1>0, <1>1, <1>2, <1>3, <1>4, <1>5, <1>6, <1>7 DEF OneLiveSlot, Domains
<1>12. PendingIsIdle'
  BY <1>0, <1>1, <1>2, <1>3, <1>4, <1>5, <1>6, <1>7
  DEF PendingIsIdle, Pending, Domains
<1>13. StartingIsIdle'
  BY <1>0, <1>1, <1>2, <1>3, <1>4, <1>5, <1>6, <1>7
  DEF StartingIsIdle, Pending, Domains
<1>14. AddingIsIdle'
  BY <1>0, <1>1, <1>2, <1>3, <1>4, <1>5, <1>6, <1>7 DEF AddingIsIdle, Domains
<1>15. HangupIsDead'
  <2>1. \A i \in Used' : fds'[i].cl # 0 /\ fds'[i].rhup => Dead(fds[i].cl)'
    BY <1>0, <1>1, <1>2, <1>3, <1>4, <1>5, <1>6, <1>7
    DEF HangupIsDead, Domains
  <2>2. npc' \in {"dload", "dstore", "dcheck"} => Dead(ncl)'
    BY <1>0, <1>1, <1>2, <1>3, <1>4, <1>5, <1>6, <1>7
    DEF HangupIsDead, Domains, Sock
  <2> QED
    BY <2>1, <2>2 DEF HangupIsDead
<1>16. AcceptedHasSlot'
  <2> SUFFICES ASSUME NEW s \in Sock, s <= nacc', link'[s] = "up",
                       \A r \in Sock \ {s} : key'[r] # key'[s]
               PROVE  HasSlot(s)' \/ Adding(s)'
    BY DEF AcceptedHasSlot
  <2>1. s <= nacc => HasSlot(s) \/ Adding(s)
    BY <1>0, <1>1, <1>2, <1>3, <1>4, <1>5, <1>6, <1>7 DEF AcceptedHasSlot
  <2>2. s <= nacc =>
          \A i \in Used : fds[i].cl = s => i \in Used' /\ fds'[i].cl = s
    BY <1>0, <1>1, <1>2, <1>3, <1>4, <1>5, <1>6, <1>7 DEF Dead
  <2> QED
    BY <2>1, <2>2, <1>0, <1>1, <1>2, <1>3, <1>4, <1>5, <1>6, <1>7
    DEF HasSlot, Adding, Sock
<1> QED
  BY <1>8, <1>9, <1>10, <1>11, <1>12, <1>13, <1>14, <1>15, <1>16, <1>k
  DEF SafetyInv, ReaderInv

(* The client whose slot is about to be dropped is dead.                   *)
LEMMA ScanHupSafe ==
    ASSUME TypeInv, SafetyInv, ScanHup
    PROVE  SafetyInv'
<1> USE ConstAssumption
<1>0. /\ OneReader /\ RehearAfterWork /\ ArmedIsIdle /\ OneLiveSlot
      /\ PendingIsIdle /\ StartingIsIdle /\ AddingIsIdle /\ Domains
      /\ KernelInv /\ HangupIsDead /\ AcceptedHasSlot
  BY DomainsHold DEF SafetyInv, ReaderInv
<1>k. KernelInv'
  BY KernelNext DEF SafetyInv, Next, PeerStep, NetStep, HandlerStep
<1>1. /\ UNCHANGED <<key, link, nfds, hpc, hcl, nacc>> /\ Used' = Used
      /\ npc = "scan"
      /\ \/ npc' = "scan"
         \/ npc' = "dload" /\ ncl' = fds[ni].cl /\ fds[ni].rhup
  BY <1>0
  DEF ScanHup, Scanning, NetAt, Used, kernelVars, clientVars, pollVars,
      netVars, thrVars
<1>2. /\ ni \in Used /\ ni \in Sock /\ fds[ni].cl \in Sock
      /\ can_rehear' = [can_rehear EXCEPT ![fds[ni].cl] = FALSE]
  BY <1>0
  DEF ScanHup, Rearm, Scanning, NetAt, Used, Domains, TypeInv, TypeOK,
      KernelTypes, ClientTypes, PollTypes, NetTypes, HandlerTypes, Control
<1>3. \A i \in Used :
         /\ fds'[i].cl = fds[i].cl /\ (fds'[i].rin <=> fds[i].rin)
         /\ fds'[i].rhup <=> fds[i].rhup
         /\ fds'[i].armed => fds[i].armed \/ (i = ni /\ can_rehear[fds[ni].cl])
  BY <1>0, <1>2
  DEF ScanHup, Rearmed, Domains, PollTypes, TypeInv, TypeOK, Slot
<1>4. \A c \in Sock : Dead(c)' <=> Dead(c)
  BY <1>0, <1>1 DEF Dead
<1>5. \A c \in Sock : can_rehear'[c] => can_rehear[c] /\ c # fds[ni].cl
  BY <1>0, <1>2 DEF FlagTypes, TypeInv, TypeOK
<1>6. \A c \in Sock : Idle(c) => Idle(c)'
  BY <1>0, <1>1, <1>5 DEF Idle, Busy
<1>7. \A c \in Sock : c = fds[ni].cl /\ can_rehear[c] => Idle(c)'
  BY <1>0, <1>1, <1>2, <1>5 DEF Idle, Busy, RehearAfterWork
<1>8. OneReader'
  BY <1>0, <1>1, <1>2, <1>3, <1>4, <1>5, <1>6, <1>7
  DEF OneReader, Busy, Domains
<1>9. RehearAfterWork'
  BY <1>0, <1>1, <1>2, <1>3, <1>4, <1>5, <1>6, <1>7
  DEF RehearAfterWork, Busy, Domains
<1>10. ArmedIsIdle'
  BY <1>0, <1>1, <1>2, <1>3, <1>4, <1>5, <1>6, <1>7 DEF ArmedIsIdle, Domains
<1>11. OneLiveSlot'
  BY <1>0, <1>1, <1>2, <1>3, <1>4, <1>5, <1>6, <1>7 DEF OneLiveSlot, Domains
<1>12. PendingIsIdle'
  BY <1>0, <1>1, <1>2, <1>3, <1>4, <1>5, <1>6, <1>7
  DEF PendingIsIdle, Pending, Domains
<1>13. StartingIsIdle'
  BY <1>0, <1>1, <1>2, <1>3, <1>4, <1>5, <1>6, <1>7
  DEF StartingIsIdle, Pending, Domains
<1>14. AddingIsIdle'
  BY <1>0, <1>1, <1>2, <1>3, <1>4, <1>5, <1>6, <1>7 DEF AddingIsIdle, Domains
<1>15. HangupIsDead'
  <2>1. \A i \in Used' : fds'[i].cl # 0 /\ fds'[i].rhup => Dead(fds[i].cl)'
    BY <1>0, <1>1, <1>2, <1>3, <1>4, <1>5, <1>6, <1>7
    DEF HangupIsDead, Domains
  <2>2. npc' \in {"dload", "dstore", "dcheck"} => Dead(ncl)'
    BY <1>0, <1>1, <1>2, <1>3, <1>4, <1>5, <1>6, <1>7
    DEF HangupIsDead, Domains, Sock
  <2> QED
    BY <2>1, <2>2 DEF HangupIsDead
<1>16. AcceptedHasSlot'
  <2> SUFFICES ASSUME NEW s \in Sock, s <= nacc', link'[s] = "up",
                       \A r \in Sock \ {s} : key'[r] # key'[s]
               PROVE  HasSlot(s)' \/ Adding(s)'
    BY DEF AcceptedHasSlot
  <2>1. s <= nacc => HasSlot(s) \/ Adding(s)
    BY <1>0, <1>1, <1>2, <1>3, <1>4, <1>5, <1>6, <1>7 DEF AcceptedHasSlot
  <2>2. s <= nacc =>
          \A i \in Used : fds[i].cl = s => i \in Used' /\ fds'[i].cl = s
    BY <1>0, <1>1, <1>2, <1>3, <1>4, <1>5, <1>6, <1>7 DEF Dead
  <2> QED
    BY <2>1, <2>2, <1>0, <1>1, <1>2, <1>3, <1>4, <1>5, <1>6, <1>7
    DEF HasSlot, Adding, Sock
<1> QED
  BY <1>8, <1>9, <1>10, <1>11, <1>12, <1>13, <1>14, <1>15, <1>16, <1>k
  DEF SafetyInv, ReaderInv

(* The scan disarms the slot it starts a handler for; no other slot of the *)
(* client is armed unless it is dead.                                      *)
LEMMA ScanInSafe ==
    ASSUME TypeInv, SafetyInv, ScanIn
    PROVE  SafetyInv'
<1> USE ConstAssumption
<1>0. /\ OneReader /\ RehearAfterWork /\ ArmedIsIdle /\ OneLiveSlot
      /\ PendingIsIdle /\ StartingIsIdle /\ AddingIsIdle /\ Domains
      /\ KernelInv /\ HangupIsDead /\ AcceptedHasSlot
  BY DomainsHold DEF SafetyInv, ReaderInv
<1>k. KernelInv'
  BY KernelNext DEF SafetyInv, Next, PeerStep, NetStep, HandlerStep
<1>1. /\ UNCHANGED <<key, link, nfds, hpc, hcl, nacc>> /\ Used' = Used
      /\ npc = "scan" /\ npc' = "iload" /\ ncl' = fds[ni].cl
  BY <1>0
  DEF ScanIn, Scanning, NetAt, Used, kernelVars, clientVars, pollVars,
      netVars, thrVars
<1>2. /\ ni \in Used /\ ni \in Sock /\ fds[ni].cl \in Sock /\ Pending(ni)
      /\ can_rehear' = [can_rehear EXCEPT ![fds[ni].cl] = FALSE]
  BY <1>0
  DEF ScanIn, Rearm, Scanning, NetAt, Used, Domains, Pending, TypeInv, TypeOK,
      KernelTypes, ClientTypes, PollTypes, NetTypes, HandlerTypes, Control
<1>3. /\ fds'[ni].cl = fds[ni].cl /\ ~fds'[ni].rin
      /\ ~fds'[ni].armed /\ ~fds'[ni].rhup
      /\ \A i \in Used : i # ni => fds'[i] = fds[i]
  BY <1>0, <1>2
  DEF ScanIn, Disarmed, Domains, Scanning, PollTypes, TypeInv, TypeOK, Slot
<1>4. \A c \in Sock : Dead(c)' <=> Dead(c)
  BY <1>0, <1>1 DEF Dead
<1>5. Idle(fds[ni].cl) /\ ~can_rehear[fds[ni].cl]
  BY <1>0, <1>2 DEF PendingIsIdle, Idle
<1>6. \A c \in Sock : can_rehear'[c] <=> can_rehear[c]
  BY <1>0, <1>2, <1>5 DEF FlagTypes, TypeInv, TypeOK
<1>7. \A c \in Sock : Idle(c)' <=> Idle(c)
  BY <1>0, <1>1, <1>6 DEF Idle, Busy
<1>8. OneReader'
  BY <1>0, <1>1, <1>2, <1>3, <1>4, <1>5, <1>6, <1>7
  DEF OneReader, Busy, Domains
<1>9. RehearAfterWork'
  BY <1>0, <1>1, <1>2, <1>3, <1>4, <1>5, <1>6, <1>7
  DEF RehearAfterWork, Busy, Domains
<1>10. ArmedIsIdle'
  BY <1>0, <1>1, <1>2, <1>3, <1>4, <1>5, <1>6, <1>7 DEF ArmedIsIdle, Domains
<1>11. OneLiveSlot'
  BY <1>0, <1>1, <1>2, <1>3, <1>4, <1>5, <1>6, <1>7 DEF OneLiveSlot, Domains
<1>12. PendingIsIdle'
  BY <1>0, <1>1, <1>2, <1>3, <1>4, <1>5, <1>6, <1>7
  DEF PendingIsIdle, Pending, Domains
<1>13. StartingIsIdle'
  BY <1>0, <1>1, <1>2, <1>3, <1>4, <1>5, <1>6, <1>7
  DEF StartingIsIdle, Pending, Domains, OneLiveSlot, PendingIsIdle
<1>14. AddingIsIdle'
  BY <1>0, <1>1, <1>2, <1>3, <1>4, <1>5, <1>6, <1>7 DEF AddingIsIdle, Domains
<1>15. HangupIsDead'
  <2>1. \A i \in Used' : fds'[i].cl # 0 /\ fds'[i].rhup => Dead(fds[i].cl)'
    BY <1>0, <1>1, <1>2, <1>3, <1>4, <1>5, <1>6, <1>7
    DEF HangupIsDead, Domains
  <2>2. npc' \in {"dload", "dstore", "dcheck"} => Dead(ncl)'
    BY <1>0, <1>1, <1>2, <1>3, <1>4, <1>5, <1>6, <1>7
    DEF HangupIsDead, Domains, Sock
  <2> QED
    BY <2>1, <2>2 DEF HangupIsDead
<1>16. AcceptedHasSlot'
  <2> SUFFICES ASSUME NEW s \in Sock, s <= nacc', link'[s] = "up",
                       \A r \in Sock \ {s} : key'[r] # key'[s]
               PROVE  HasSlot(s)' \/ Adding(s)'
    BY DEF AcceptedHasSlot
  <2>1. s <= nacc => HasSlot(s) \/ Adding(s)
    BY <1>0, <1>1, <1>2, <1>3, <1>4, <1>5, <1>6, <1>7 DEF AcceptedHasSlot
  <2>2. s <= nacc =>
          \A i \in Used : fds[i].cl = s => i \in Used' /\ fds'[i].cl = s
    BY <1>0, <1>1, <1>2, <1>3, <1>4, <1>5, <1>6, <1>7 DEF Dead
  <2> QED
    BY <2>1, <2>2, <1>0, <1>1, <1>2, <1>3, <1>4, <1>5, <1>6, <1>7
    DEF HasSlot, Adding, Sock
<1> QED
  BY <1>8, <1>9, <1>10, <1>11, <1>12, <1>13, <1>14, <1>15, <1>16, <1>k
  DEF SafetyInv, ReaderInv

(* The handler that starts is the only one of its client.                  *)
LEMMA StartHandlerSafe ==
    ASSUME TypeInv, SafetyInv, NEW t \in Thread, StartHandler(t)
    PROVE  SafetyInv'
<1> USE ConstAssumption
<1>0. /\ OneReader /\ RehearAfterWork /\ ArmedIsIdle /\ OneLiveSlot
      /\ PendingIsIdle /\ StartingIsIdle /\ AddingIsIdle /\ Domains
      /\ KernelInv /\ HangupIsDead /\ AcceptedHasSlot
  BY DomainsHold DEF SafetyInv, ReaderInv
<1>k. KernelInv'
  BY KernelNext DEF SafetyInv, Next, PeerStep, NetStep, HandlerStep
<1>1. /\ UNCHANGED <<key, link, fds, nfds, can_rehear, nacc>> /\ Used' = Used
      /\ npc = "istore" /\ npc' = "scan" /\ ncl \in Sock
  BY <1>0
  DEF StartHandler, NetAt, Used, Domains, kernelVars, clientVars, pollVars,
      netVars, thrVars
<1>2. /\ ~Busy(t) /\ Busy(t)' /\ hcl'[t] = ncl
      /\ \A u \in Thread : u # t => hcl'[u] = hcl[u] /\ (Busy(u)' <=> Busy(u))
  BY <1>0
  DEF StartHandler, Busy, TypeInv, TypeOK, KernelTypes, ClientTypes,
      PollTypes, NetTypes, HandlerTypes, Control
<1>3. \A c \in Sock : Dead(c)' <=> Dead(c)
  BY <1>0, <1>1 DEF Dead
<1>4. \A c \in Sock : c # ncl => (Idle(c)' <=> Idle(c))
  BY <1>0, <1>1, <1>2 DEF Idle
<1>5. Idle(ncl)
  BY <1>0, <1>1 DEF StartingIsIdle
<1>6. OneReader'
  BY <1>0, <1>1, <1>2, <1>3, <1>4, <1>5 DEF OneReader, Busy, Domains, Idle
<1>7. RehearAfterWork'
  BY <1>0, <1>1, <1>2, <1>3, <1>4, <1>5
  DEF RehearAfterWork, Busy, Domains, Idle
<1>8. ArmedIsIdle'
  BY <1>0, <1>1, <1>2, <1>3, <1>4, <1>5
  DEF ArmedIsIdle, Domains, StartingIsIdle
<1>9. OneLiveSlot'
  BY <1>0, <1>1, <1>2, <1>3, <1>4, <1>5 DEF OneLiveSlot, Domains
<1>10. PendingIsIdle'
  BY <1>0, <1>1, <1>2, <1>3, <1>4, <1>5
  DEF PendingIsIdle, Pending, Domains, StartingIsIdle
<1>11. StartingIsIdle'
  BY <1>0, <1>1, <1>2, <1>3, <1>4, <1>5 DEF StartingIsIdle, Pending, Domains
<1>12. AddingIsIdle'
  BY <1>0, <1>1, <1>2, <1>3, <1>4, <1>5 DEF AddingIsIdle, Domains
<1>13. HangupIsDead'
  <2>1. \A i \in Used' : fds'[i].cl # 0 /\ fds'[i].rhup => Dead(fds[i].cl)'
    BY <1>0, <1>1, <1>2, <1>3, <1>4, <1>5 DEF HangupIsDead, Domains
  <2>2. npc' \in {"dload", "dstore", "dcheck"} => Dead(ncl)'
    BY <1>0, <1>1, <1>2, <1>3, <1>4, <1>5 DEF HangupIsDead, Domains, Sock
  <2> QED
    BY <2>1, <2>2 DEF HangupIsDead
<1>14. AcceptedHasSlot'
  <2> SUFFICES ASSUME NEW s \in Sock, s <= nacc', link'[s] = "up",
                       \A r \in Sock \ {s} : key'[r] # key'[s]
               PROVE  HasSlot(s)' \/ Adding(s)'
    BY DEF AcceptedHasSlot
  <2>1. s <= nacc => HasSlot(s) \/ Adding(s)
    BY <1>0, <1>1, <1>2, <1>3, <1>4, <1>5 DEF AcceptedHasSlot
  <2>2. s <= nacc =>
          \A i \in Used : fds[i].cl = s => i \in Used' /\ fds'[i].cl = s
    BY <1>0, <1>1, <1>2, <1>3, <1>4, <1>5 DEF Dead
  <2> QED
    BY <2>1, <2>2, <1>0, <1>1, <1>2, <1>3, <1>4, <1>5
    DEF HasSlot, Adding, Sock
<1> QED
  BY <1>6, <1>7, <1>8, <1>9, <1>10, <1>11, <1>12, <1>13, <1>14, <1>k
  DEF SafetyInv, ReaderInv

(* The slot that is dropped is that of a dead client.                      *)
LEMMA DropSlotSafe ==
    ASSUME TypeInv, SafetyInv, DropSlot
    PROVE  SafetyInv'
<1> USE ConstAssumption
<1>0. /\ OneReader /\ RehearAfterWork /\ ArmedIsIdle /\ OneLiveSlot
      /\ PendingIsIdle /\ StartingIsIdle /\ AddingIsIdle /\ Domains
      /\ KernelInv /\ HangupIsDead /\ AcceptedHasSlot
  BY DomainsHold DEF SafetyInv, ReaderInv
<1>k. KernelInv'
  BY KernelNext DEF SafetyInv, Next, PeerStep, NetStep, HandlerStep
<1>1. /\ UNCHANGED <<key, link, nfds, can_rehear, hpc, hcl, nacc>>
      /\ Used' = Used
      /\ npc = "dcheck" /\ npc' = "scan" /\ fds[ni].cl = ncl
      /\ ni \in Used /\ ni \in Sock
  BY <1>0
  DEF DropSlot, NetAt, Used, Domains, Control, TypeInv, kernelVars,
      clientVars, pollVars, netVars, thrVars
<1>2. fds'[ni].cl = 0 /\ \A i \in Used : i # ni => fds'[i] = fds[i]
  BY <1>0, <1>1 DEF DropSlot, NoSlot, Domains, PollTypes, TypeInv, TypeOK
<1>3. \A c \in Sock : Dead(c)' <=> Dead(c)
  BY <1>0, <1>1 DEF Dead
<1>4. \A c \in Sock : Idle(c)' <=> Idle(c)
  BY <1>0, <1>1 DEF Idle, Busy
<1>5. OneReader'
  BY <1>0, <1>1, <1>2, <1>3, <1>4 DEF OneReader, Busy, Domains
<1>6. RehearAfterWork'
  BY <1>0, <1>1, <1>2, <1>3, <1>4 DEF RehearAfterWork, Busy, Domains
<1>7. ArmedIsIdle'
  BY <1>0, <1>1, <1>2, <1>3, <1>4 DEF ArmedIsIdle, Domains
<1>8. OneLiveSlot'
  BY <1>0, <1>1, <1>2, <1>3, <1>4 DEF OneLiveSlot, Domains
<1>9. PendingIsIdle'
  BY <1>0, <1>1, <1>2, <1>3, <1>4 DEF PendingIsIdle, Pending, Domains
<1>10. StartingIsIdle'
  BY <1>0, <1>1, <1>2, <1>3, <1>4 DEF StartingIsIdle, Pending, Domains
<1>11. AddingIsIdle'
  BY <1>0, <1>1, <1>2, <1>3, <1>4 DEF AddingIsIdle, Domains
<1>12. HangupIsDead'
  <2>1. \A i \in Used' : fds'[i].cl # 0 /\ fds'[i].rhup => Dead(fds[i].cl)'
    BY <1>0, <1>1, <1>2, <1>3, <1>4 DEF HangupIsDead, Domains
  <2>2. npc' \in {"dload", "dstore", "dcheck"} => Dead(ncl)'
    BY <1>0, <1>1, <1>2, <1>3, <1>4 DEF HangupIsDead, Domains, Sock
  <2> QED
    BY <2>1, <2>2 DEF HangupIsDead
<1>13. AcceptedHasSlot'
  <2> SUFFICES ASSUME NEW s \in Sock, s <= nacc', link'[s] = "up",
                       \A r \in Sock \ {s} : key'[r] # key'[s]
               PROVE  HasSlot(s)' \/ Adding(s)'
    BY DEF AcceptedHasSlot
  <2>1. s <= nacc => HasSlot(s) \/ Adding(s)
    BY <1>0, <1>1, <1>2, <1>3, <1>4 DEF AcceptedHasSlot, HangupIsDead
  <2>2. s <= nacc =>
          \A i \in Used : fds[i].cl = s => i \in Used' /\ fds'[i].cl = s
    BY <1>0, <1>1, <1>2, <1>3, <1>4 DEF Dead, HangupIsDead
  <2> QED
    BY <2>1, <2>2, <1>0, <1>1, <1>2, <1>3, <1>4
    DEF HasSlot, Adding, Sock, HangupIsDead
<1> QED
  BY <1>5, <1>6, <1>7, <1>8, <1>9, <1>10, <1>11, <1>12, <1>13, <1>k
  DEF SafetyInv, ReaderInv

(* Moving the last slot into a hole loses no slot and doubles none.        *)
LEMMA CleanFillSafe ==
    ASSUME TypeInv, SafetyInv, CleanFill
    PROVE  SafetyInv'
<1> USE ConstAssumption
<1>0. /\ OneReader /\ RehearAfterWork /\ ArmedIsIdle /\ OneLiveSlot
      /\ PendingIsIdle /\ StartingIsIdle /\ AddingIsIdle /\ Domains
      /\ KernelInv /\ HangupIsDead /\ AcceptedHasSlot
  BY DomainsHold DEF SafetyInv, ReaderInv
<1>k. KernelInv'
  BY KernelNext DEF SafetyInv, Next, PeerStep, NetStep, HandlerStep
<1>1. /\ UNCHANGED <<key, link, can_rehear, hpc, hcl, nacc, npc, ncl>>
      /\ npc = "clean" /\ fds[ni].cl = 0 /\ ni \in Used /\ ni \in Sock
  BY <1>0
  DEF CleanFill, NetAt, Used, Sock, Domains, netVars, TypeInv, TypeOK,
      KernelTypes, ClientTypes, PollTypes, NetTypes, HandlerTypes, Control,
      kernelVars, clientVars, pollVars, netVars, thrVars
<1>2. /\ nfds - 1 \in Used /\ nfds - 1 \in Sock
      /\ Used' = Used \ {nfds - 1}
  BY <1>0, <1>1
  DEF CleanFill, Used, Sock, TypeInv, TypeOK, KernelTypes, ClientTypes,
      PollTypes, NetTypes, HandlerTypes, Control
<1>3. \A i \in Used' : fds'[i] = IF i = ni THEN fds[nfds - 1] ELSE fds[i]
  BY <1>0, <1>1, <1>2 DEF CleanFill, Domains, PollTypes, TypeInv, TypeOK
<1>4. \A c \in Sock : Dead(c)' <=> Dead(c)
  BY <1>0, <1>1 DEF Dead
<1>5. \A c \in Sock : Idle(c)' <=> Idle(c)
  BY <1>0, <1>1 DEF Idle, Busy
<1>6. OneReader'
  BY <1>0, <1>1, <1>2, <1>3, <1>4, <1>5 DEF OneReader, Busy, Domains
<1>7. RehearAfterWork'
  BY <1>0, <1>1, <1>2, <1>3, <1>4, <1>5 DEF RehearAfterWork, Busy, Domains
<1>8. ArmedIsIdle'
  BY <1>0, <1>1, <1>2, <1>3, <1>4, <1>5 DEF ArmedIsIdle, Domains
<1>9. OneLiveSlot'
  BY <1>0, <1>1, <1>2, <1>3, <1>4, <1>5 DEF OneLiveSlot, Domains
<1>10. PendingIsIdle'
  BY <1>0, <1>1, <1>2, <1>3, <1>4, <1>5 DEF PendingIsIdle, Pending, Domains
<1>11. StartingIsIdle'
  BY <1>0, <1>1, <1>2, <1>3, <1>4, <1>5 DEF StartingIsIdle, Pending, Domains
<1>12. AddingIsIdle'
  BY <1>0, <1>1, <1>2, <1>3, <1>4, <1>5 DEF AddingIsIdle, Domains
<1>13. HangupIsDead'
  <2>1. \A i \in Used' : fds'[i].cl # 0 /\ fds'[i].rhup => Dead(fds[i].cl)'
    BY <1>0, <1>1, <1>2, <1>3, <1>4, <1>5 DEF HangupIsDead, Domains
  <2>2. npc' \in {"dload", "dstore", "dcheck"} => Dead(ncl)'
    BY <1>0, <1>1, <1>2, <1>3, <1>4, <1>5 DEF HangupIsDead, Domains, Sock
  <2> QED
    BY <2>1, <2>2 DEF HangupIsDead
<1>14. AcceptedHasSlot'
  <2> SUFFICES ASSUME NEW s \in Sock, s <= nacc', link'[s] = "up",
                       \A r \in Sock \ {s} : key'[r] # key'[s]
               PROVE  HasSlot(s)' \/ Adding(s)'
    BY DEF AcceptedHasSlot
  <2>1. s <= nacc => HasSlot(s) \/ Adding(s)
    BY <1>0, <1>1, <1>2, <1>3, <1>4, <1>5 DEF AcceptedHasSlot, Sock
  <2>2. s <= nacc => \A i \in Used : fds[i].cl = s =>
            LET j == IF i = nfds - 1 THEN ni ELSE i
            IN  j \in Used' /\ fds'[j].cl = s
    BY <1>0, <1>1, <1>2, <1>3, <1>4, <1>5 DEF Dead, Sock
  <2> QED
    BY <2>1, <2>2, <1>0, <1>1, <1>2, <1>3, <1>4, <1>5
    DEF HasSlot, Adding, Sock, Sock
<1> QED
  BY <1>6, <1>7, <1>8, <1>9, <1>10, <1>11, <1>12, <1>13, <1>14, <1>k
  DEF SafetyInv, ReaderInv

(* can_rehear is set by the only handler at work on the client.            *)
LEMMA SetCanRehearSafe ==
    ASSUME TypeInv, SafetyInv, NEW t \in Thread, SetCanRehear(t)
    PROVE  SafetyInv'
<1> USE ConstAssumption
<1>0. /\ OneReader /\ RehearAfterWork /\ ArmedIsIdle /\ OneLiveSlot
      /\ PendingIsIdle /\ StartingIsIdle /\ AddingIsIdle /\ Domains
      /\ KernelInv /\ HangupIsDead /\ AcceptedHasSlot
  BY DomainsHold DEF SafetyInv, ReaderInv
<1>k. KernelInv'
  BY KernelNext DEF SafetyInv, Next, PeerStep, NetStep, HandlerStep
<1>1. /\ UNCHANGED <<key, link, fds, nfds, nacc, npc, ncl, hcl>>
      /\ Used' = Used
  BY <1>0
  DEF SetCanRehear, Used, kernelVars, clientVars, pollVars, netVars, thrVars
<1>2. /\ hcl[t] \in Sock /\ hcl[t] \in 1..nacc
      /\ can_rehear' = [can_rehear EXCEPT ![hcl[t]] = TRUE]
  BY <1>0 DEF SetCanRehear, At, Domains, Control, TypeInv
<1>3. /\ Busy(t) /\ ~Busy(t)'
      /\ \A u \in Thread : u # t => (Busy(u)' <=> Busy(u))
  BY <1>0
  DEF SetCanRehear, At, Busy, TypeInv, TypeOK, KernelTypes, ClientTypes,
      PollTypes, NetTypes, HandlerTypes, Control
<1>4. \A c \in Sock : Dead(c)' <=> Dead(c)
  BY <1>0, <1>1 DEF Dead
<1>5. /\ can_rehear'[hcl[t]]
      /\ \A c \in Sock : c # hcl[t] => (can_rehear'[c] <=> can_rehear[c])
  BY <1>0, <1>2 DEF FlagTypes, TypeInv, TypeOK
<1>6. \A c \in Sock : Idle(c)' <=> Idle(c)
  BY <1>0, <1>1, <1>2, <1>3, <1>5 DEF Idle
<1>7. OneReader'
  BY <1>0, <1>1, <1>2, <1>3, <1>4, <1>5, <1>6
  DEF OneReader, Busy, Domains, Sock
<1>8. RehearAfterWork'
  BY <1>0, <1>1, <1>2, <1>3, <1>4, <1>5, <1>6
  DEF RehearAfterWork, Busy, Domains, Sock, OneReader
<1>9. ArmedIsIdle'
  BY <1>0, <1>1, <1>2, <1>3, <1>4, <1>5, <1>6 DEF ArmedIsIdle, Domains, Sock
<1>10. OneLiveSlot'
  BY <1>0, <1>1, <1>2, <1>3, <1>4, <1>5, <1>6 DEF OneLiveSlot, Domains, Sock
<1>11. PendingIsIdle'
  BY <1>0, <1>1, <1>2, <1>3, <1>4, <1>5, <1>6
  DEF PendingIsIdle, Pending, Domains, Sock
<1>12. StartingIsIdle'
  BY <1>0, <1>1, <1>2, <1>3, <1>4, <1>5, <1>6
  DEF StartingIsIdle, Pending, Domains, Sock
<1>13. AddingIsIdle'
  BY <1>0, <1>1, <1>2, <1>3, <1>4, <1>5, <1>6 DEF AddingIsIdle, Domains, Sock
<1>14. HangupIsDead'
  <2>1. \A i \in Used' : fds'[i].cl # 0 /\ fds'[i].rhup => Dead(fds[i].cl)'
    BY <1>0, <1>1, <1>2, <1>3, <1>4, <1>5, <1>6 DEF HangupIsDead, Domains
  <2>2. npc' \in {"dload", "dstore", "dcheck"} => Dead(ncl)'
    BY <1>0, <1>1, <1>2, <1>3, <1>4, <1>5, <1>6
    DEF HangupIsDead, Domains, Sock
  <2> QED
    BY <2>1, <2>2 DEF HangupIsDead
<1>15. AcceptedHasSlot'
  <2> SUFFICES ASSUME NEW s \in Sock, s <= nacc', link'[s] = "up",
                       \A r \in Sock \ {s} : key'[r] # key'[s]
               PROVE  HasSlot(s)' \/ Adding(s)'
    BY DEF AcceptedHasSlot
  <2>1. s <= nacc => HasSlot(s) \/ Adding(s)
    BY <1>0, <1>1, <1>2, <1>3, <1>4, <1>5, <1>6 DEF AcceptedHasSlot
  <2>2. s <= nacc =>
          \A i \in Used : fds[i].cl = s => i \in Used' /\ fds'[i].cl = s
    BY <1>0, <1>1, <1>2, <1>3, <1>4, <1>5, <1>6 DEF Dead
  <2> QED
    BY <2>1, <2>2, <1>0, <1>1, <1>2, <1>3, <1>4, <1>5, <1>6
    DEF HasSlot, Adding, Sock
<1> QED
  BY <1>7, <1>8, <1>9, <1>10, <1>11, <1>12, <1>13, <1>14, <1>15, <1>k
  DEF SafetyInv, ReaderInv

(* The connection without a client was reset in the backlog.               *)
LEMMA GetpeernameFailsSafe ==
    ASSUME TypeInv, SafetyInv, GetpeernameFails
    PROVE  SafetyInv'
<1> USE ConstAssumption
<1>0. /\ OneReader /\ RehearAfterWork /\ ArmedIsIdle /\ OneLiveSlot
      /\ PendingIsIdle /\ StartingIsIdle /\ AddingIsIdle /\ Domains
      /\ KernelInv /\ HangupIsDead /\ AcceptedHasSlot
  BY DomainsHold DEF SafetyInv, ReaderInv
<1>k. KernelInv'
  BY KernelNext DEF SafetyInv, Next, PeerStep, NetStep, HandlerStep
<1>1. /\ UNCHANGED <<key, fds, link, nfds, can_rehear, hpc, hcl, npc, ncl>>
      /\ npc = "accept" /\ Used' = Used /\ nacc' = nacc + 1
  BY <1>0
  DEF GetpeernameFails, NetAt, Used, kernelVars, clientVars, pollVars,
      netVars, thrVars
<1>2. nacc \in Nat /\ link[nacc + 1] = "rst"
  BY <1>0
  DEF GetpeernameFails, TypeInv, TypeOK, KernelTypes, ClientTypes, PollTypes,
      NetTypes, HandlerTypes, Control
<1>3. \A c \in Sock : Dead(c)' <=> Dead(c)
  BY <1>0, <1>1 DEF Dead
<1>4. \A c \in Sock : Idle(c)' <=> Idle(c)
  BY <1>0, <1>1 DEF Idle, Busy
<1>5. OneReader'
  BY <1>0, <1>1, <1>2, <1>3, <1>4 DEF OneReader, Busy, Domains
<1>6. RehearAfterWork'
  BY <1>0, <1>1, <1>2, <1>3, <1>4 DEF RehearAfterWork, Busy, Domains, Sock
<1>7. ArmedIsIdle'
  BY <1>0, <1>1, <1>2, <1>3, <1>4 DEF ArmedIsIdle, Domains
<1>8. OneLiveSlot'
  BY <1>0, <1>1, <1>2, <1>3, <1>4 DEF OneLiveSlot, Domains
<1>9. PendingIsIdle'
  BY <1>0, <1>1, <1>2, <1>3, <1>4 DEF PendingIsIdle, Pending, Domains
<1>10. StartingIsIdle'
  BY <1>0, <1>1, <1>2, <1>3, <1>4 DEF StartingIsIdle, Pending, Domains
<1>11. AddingIsIdle'
  BY <1>0, <1>1, <1>2, <1>3, <1>4 DEF AddingIsIdle, Domains
<1>12. HangupIsDead'
  <2>1. \A i \in Used' : fds'[i].cl # 0 /\ fds'[i].rhup => Dead(fds[i].cl)'
    BY <1>0, <1>1, <1>2, <1>3, <1>4 DEF HangupIsDead, Domains
  <2>2. npc' \in {"dload", "dstore", "dcheck"} => Dead(ncl)'
    BY <1>0, <1>1, <1>2, <1>3, <1>4 DEF HangupIsDead, Domains, Sock
  <2> QED
    BY <2>1, <2>2 DEF HangupIsDead
<1>13. AcceptedHasSlot'
  <2> SUFFICES ASSUME NEW s \in Sock, s <= nacc', link'[s] = "up",
                       \A r \in Sock \ {s} : key'[r] # key'[s]
               PROVE  HasSlot(s)' \/ Adding(s)'
    BY DEF AcceptedHasSlot
  <2>1. s <= nacc => HasSlot(s) \/ Adding(s)
    BY <1>0, <1>1, <1>2, <1>3, <1>4 DEF AcceptedHasSlot, Sock
  <2>2. s <= nacc =>
          \A i \in Used : fds[i].cl = s => i \in Used' /\ fds'[i].cl = s
    BY <1>0, <1>1, <1>2, <1>3, <1>4 DEF Dead, Sock
  <2> QED
    BY <2>1, <2>2, <1>0, <1>1, <1>2, <1>3, <1>4
    DEF HasSlot, Adding, Sock, Sock
<1> QED
  BY <1>5, <1>6, <1>7, <1>8, <1>9, <1>10, <1>11, <1>12, <1>13, <1>k
  DEF SafetyInv, ReaderInv

(* A step that leaves the poll set, the connections and can_rehear alone,  *)
(* and starts neither the work of a handler nor a new phase on a client.   *)
Frame ==
    /\ UNCHANGED <<key, link, nacc, nfds, fds, can_rehear>>
    /\ \A t \in Thread : Busy(t)' => Busy(t) /\ hcl'[t] = hcl[t]
    /\ npc' \in {"aload", "astore"} =>
          npc \in {"aload", "astore"} /\ ncl' = ncl
    /\ npc' \in {"iload", "istore"} =>
          npc \in {"iload", "istore"} /\ ncl' = ncl
    /\ npc' \in {"dload", "dstore", "dcheck"} =>
          npc \in {"dload", "dstore", "dcheck"} /\ ncl' = ncl
    /\ npc \in {"aload", "astore"} => npc' \in {"aload", "astore"}

(* A Frame step keeps SafetyInv.                                           *)
LEMMA FrameSafe ==
    ASSUME TypeInv, SafetyInv, KernelInv', Frame
    PROVE  SafetyInv'
<1>0. /\ OneReader /\ RehearAfterWork /\ ArmedIsIdle /\ OneLiveSlot
      /\ PendingIsIdle /\ StartingIsIdle /\ AddingIsIdle /\ Domains
      /\ HangupIsDead /\ AcceptedHasSlot /\ Used' = Used
  BY DomainsHold DEF SafetyInv, ReaderInv, Frame, Used
<1>1. \A c \in Sock : Dead(c)' <=> Dead(c)
  BY DEF Frame, Dead
<1>2. \A c \in Sock : Idle(c) => Idle(c)'
  BY DEF Frame, Idle
<1>3. OneReader' /\ RehearAfterWork'
  BY <1>0 DEF Frame, OneReader, RehearAfterWork
<1>4. ArmedIsIdle' /\ OneLiveSlot' /\ PendingIsIdle'
  BY <1>0, <1>1, <1>2
  DEF Frame, ArmedIsIdle, OneLiveSlot, PendingIsIdle, Pending, Domains
<1>5. StartingIsIdle' /\ AddingIsIdle'
  BY <1>0, <1>1, <1>2
  DEF Frame, StartingIsIdle, AddingIsIdle, Pending, Domains
<1>6. HangupIsDead' /\ AcceptedHasSlot'
  BY <1>0, <1>1
  DEF Frame, HangupIsDead, AcceptedHasSlot, HasSlot, Adding, Domains
<1> QED
  BY <1>3, <1>4, <1>5, <1>6 DEF SafetyInv, ReaderInv

(* Every step keeps SafetyInv.                                             *)
LEMMA SafetyNext == ASSUME TypeInv, SafetyInv, Next PROVE SafetyInv'
<1>0. KernelInv'
  BY KernelNext DEF SafetyInv
<1>1. ASSUME NEW k \in Key, Connect(k) PROVE SafetyInv'
  BY <1>1, ConnectSafe
<1>2. ASSUME NEW s \in Sock, NEW b \in {"part", "line"}, Send(s, b)
      PROVE  SafetyInv'
  <2>1. Frame
    BY <1>2
    DEF Send, Frame, Busy, NetAt, kernelVars, clientVars, pollVars, netVars,
        thrVars, TypeInv, TypeOK, HandlerTypes
  <2> QED
    BY <1>0, <2>1, FrameSafe
<1>3. ASSUME NEW s \in Sock, NEW how \in {"fin", "rst"}, Close(s, how)
      PROVE  SafetyInv'
  BY <1>3, CloseSafe
<1>4. ASSUME PollReturn PROVE SafetyInv'
  BY <1>4, PollReturnSafe
<1>5. ASSUME PollSleep PROVE SafetyInv'
  <2>1. Frame
    BY <1>5
    DEF PollSleep, Frame, Busy, NetAt, kernelVars, clientVars, pollVars,
        netVars, thrVars, TypeInv, TypeOK, HandlerTypes
  <2> QED
    BY <1>0, <2>1, FrameSafe
<1>6. ASSUME PollInterrupted PROVE SafetyInv'
  BY <1>6, PollInterruptedSafe
<1>7. ASSUME NoNewConnection PROVE SafetyInv'
  <2>1. Frame
    BY <1>7
    DEF NoNewConnection, Frame, Busy, NetAt, kernelVars, clientVars, pollVars,
        netVars, thrVars, TypeInv, TypeOK, HandlerTypes
  <2> QED
    BY <1>0, <2>1, FrameSafe
<1>8. ASSUME ClientGetOrCreate PROVE SafetyInv'
  BY <1>8, ClientGetOrCreateSafe
<1>9. ASSUME GetpeernameFails PROVE SafetyInv'
  BY <1>9, GetpeernameFailsSafe
<1>10. ASSUME NetLoadRef("aload", "astore") PROVE SafetyInv'
  <2>1. Frame
    BY <1>10
    DEF NetLoadRef, Frame, Busy, NetAt, kernelVars, clientVars, pollVars,
        netVars, thrVars, TypeInv, TypeOK, HandlerTypes
  <2> QED
    BY <1>0, <2>1, FrameSafe
<1>11. ASSUME AddNewClientToFds PROVE SafetyInv'
  BY <1>11, AddNewClientToFdsSafe
<1>12. ASSUME ScanQuiet PROVE SafetyInv'
  BY <1>12, ScanQuietSafe
<1>13. ASSUME ScanHup PROVE SafetyInv'
  BY <1>13, ScanHupSafe
<1>14. ASSUME ScanIn PROVE SafetyInv'
  BY <1>14, ScanInSafe
<1>15. ASSUME NetLoadRef("iload", "istore") PROVE SafetyInv'
  <2>1. Frame
    BY <1>15
    DEF NetLoadRef, Frame, Busy, NetAt, kernelVars, clientVars, pollVars,
        netVars, thrVars, TypeInv, TypeOK, HandlerTypes
  <2> QED
    BY <1>0, <2>1, FrameSafe
<1>16. ASSUME NEW t \in Thread, StartHandler(t) PROVE SafetyInv'
  BY <1>16, StartHandlerSafe
<1>17. ASSUME PthreadCreateFails PROVE SafetyInv'
  <2>1. Frame
    BY <1>17
    DEF PthreadCreateFails, Frame, Busy, NetAt, kernelVars, clientVars,
        pollVars, netVars, thrVars, TypeInv, TypeOK, HandlerTypes
  <2> QED
    BY <1>0, <2>1, FrameSafe
<1>18. ASSUME NetLoadRef("dload", "dstore") PROVE SafetyInv'
  <2>1. Frame
    BY <1>18
    DEF NetLoadRef, Frame, Busy, NetAt, kernelVars, clientVars, pollVars,
        netVars, thrVars, TypeInv, TypeOK, HandlerTypes
  <2> QED
    BY <1>0, <2>1, FrameSafe
<1>19. ASSUME NetDecRef PROVE SafetyInv'
  <2>1. Frame
    BY <1>19
    DEF NetDecRef, Frame, Busy, NetAt, kernelVars, clientVars, pollVars,
        netVars, thrVars, TypeInv, TypeOK, HandlerTypes
  <2> QED
    BY <1>0, <2>1, FrameSafe
<1>20. ASSUME DropSlot PROVE SafetyInv'
  BY <1>20, DropSlotSafe
<1>21. ASSUME ScanEnd PROVE SafetyInv'
  <2>1. Frame
    BY <1>21
    DEF ScanEnd, Frame, Busy, NetAt, kernelVars, clientVars, pollVars,
        netVars, thrVars, TypeInv, TypeOK, HandlerTypes
  <2> QED
    BY <1>0, <2>1, FrameSafe
<1>22. ASSUME CleanSkip PROVE SafetyInv'
  <2>1. Frame
    BY <1>22
    DEF CleanSkip, Frame, Busy, NetAt, kernelVars, clientVars, pollVars,
        netVars, thrVars, TypeInv, TypeOK, HandlerTypes
  <2> QED
    BY <1>0, <2>1, FrameSafe
<1>23. ASSUME CleanFill PROVE SafetyInv'
  BY <1>23, CleanFillSafe
<1>24. ASSUME CleanEnd PROVE SafetyInv'
  <2>1. Frame
    BY <1>24
    DEF CleanEnd, Frame, Busy, NetAt, kernelVars, clientVars, pollVars,
        netVars, thrVars, TypeInv, TypeOK, HandlerTypes
  <2> QED
    BY <1>0, <2>1, FrameSafe
<1>25. ASSUME NetUsesFreed PROVE SafetyInv'
  <2>1. Frame
    BY <1>25
    DEF NetUsesFreed, Frame, Busy, NetAt, kernelVars, clientVars, pollVars,
        netVars, thrVars, TypeInv, TypeOK, HandlerTypes
  <2> QED
    BY <1>0, <2>1, FrameSafe
<1>26. ASSUME NEW t \in Thread, HandlerBegin(t) PROVE SafetyInv'
  <2>1. Frame
    BY <1>26
    DEF HandlerBegin, Frame, Busy, At, kernelVars, clientVars, pollVars,
        netVars, thrVars, TypeInv, TypeOK, HandlerTypes
  <2> QED
    BY <1>0, <2>1, FrameSafe
<1>27. ASSUME NEW t \in Thread, ReadPart(t) PROVE SafetyInv'
  <2>1. Frame
    BY <1>27
    DEF ReadPart, Frame, Busy, At, kernelVars, clientVars, pollVars, netVars,
        thrVars, TypeInv, TypeOK, HandlerTypes
  <2> QED
    BY <1>0, <2>1, FrameSafe
<1>28. ASSUME NEW t \in Thread, NEW b \in BOOLEAN, ReadLine(t, b)
      PROVE  SafetyInv'
  <2>1. Frame
    BY <1>28
    DEF ReadLine, Frame, Busy, At, kernelVars, clientVars, pollVars, netVars,
        thrVars, TypeInv, TypeOK, HandlerTypes
  <2> QED
    BY <1>0, <2>1, FrameSafe
<1>29. ASSUME NEW t \in Thread, ReadFails(t) PROVE SafetyInv'
  <2>1. Frame
    BY <1>29
    DEF ReadFails, Frame, Busy, At, kernelVars, clientVars, pollVars, netVars,
        thrVars, TypeInv, TypeOK, HandlerTypes
  <2> QED
    BY <1>0, <2>1, FrameSafe
<1>30. ASSUME NEW t \in Thread, CallHandler(t) PROVE SafetyInv'
  <2>1. Frame
    BY <1>30
    DEF CallHandler, Frame, Busy, At, kernelVars, clientVars, pollVars,
        netVars, thrVars, TypeInv, TypeOK, HandlerTypes
  <2> QED
    BY <1>0, <2>1, FrameSafe
<1>31. ASSUME NEW t \in Thread, SetCanRehear(t) PROVE SafetyInv'
  BY <1>31, SetCanRehearSafe
<1>32. ASSUME NEW t \in Thread, HandlerLoadRef(t) PROVE SafetyInv'
  <2>1. Frame
    BY <1>32
    DEF HandlerLoadRef, Frame, Busy, At, kernelVars, clientVars, pollVars,
        netVars, thrVars, TypeInv, TypeOK, HandlerTypes
  <2> QED
    BY <1>0, <2>1, FrameSafe
<1>33. ASSUME NEW t \in Thread, HandlerDecRef(t) PROVE SafetyInv'
  <2>1. Frame
    BY <1>33
    DEF HandlerDecRef, Frame, Busy, At, kernelVars, clientVars, pollVars,
        netVars, thrVars, TypeInv, TypeOK, HandlerTypes
  <2> QED
    BY <1>0, <2>1, FrameSafe
<1>34. ASSUME NEW t \in Thread, HandlerCheckRef(t) PROVE SafetyInv'
  <2>1. Frame
    BY <1>34
    DEF HandlerCheckRef, Frame, Busy, At, kernelVars, clientVars, pollVars,
        netVars, thrVars, TypeInv, TypeOK, HandlerTypes
  <2> QED
    BY <1>0, <2>1, FrameSafe
<1>35. ASSUME NEW t \in Thread, KillNetworkThread(t) PROVE SafetyInv'
  <2>1. Frame
    BY <1>35
    DEF KillNetworkThread, Frame, Busy, At, kernelVars, clientVars, pollVars,
        netVars, thrVars, TypeInv, TypeOK, HandlerTypes
  <2> QED
    BY <1>0, <2>1, FrameSafe
<1>36. ASSUME NEW t \in Thread, HandlerUsesFreed(t) PROVE SafetyInv'
  <2>1. Frame
    BY <1>36
    DEF HandlerUsesFreed, Frame, Busy, At, kernelVars, clientVars, pollVars,
        netVars, thrVars, TypeInv, TypeOK, HandlerTypes
  <2> QED
    BY <1>0, <2>1, FrameSafe
<1>37. ASSUME NEW t \in Thread, AnswerBrokenPipe(t) PROVE SafetyInv'
  <2>1. Frame
    BY <1>37
    DEF AnswerBrokenPipe, Frame, Busy, At, kernelVars, clientVars, pollVars,
        netVars, thrVars, TypeInv, TypeOK, HandlerTypes
  <2> QED
    BY <1>0, <2>1, FrameSafe
<1> QED
  BY <1>1, <1>2, <1>3, <1>4, <1>5, <1>6, <1>7, <1>8, <1>9, <1>10, <1>11,
      <1>12, <1>13, <1>14, <1>15, <1>16, <1>17, <1>18, <1>19, <1>20, <1>21,
      <1>22, <1>23, <1>24, <1>25, <1>26, <1>27, <1>28, <1>29, <1>30, <1>31,
      <1>32, <1>33, <1>34, <1>35, <1>36, <1>37
  DEF Next, PeerStep, NetStep, HandlerStep

(* SafetyInv holds before the first poll.                                  *)
LEMMA SafetyInit == Init => SafetyInv
  BY ConstAssumption, SlotTypes
  DEF Init, SafetyInv, KernelInv, ReaderInv, OneReader, RehearAfterWork,
      ArmedIsIdle,
      OneLiveSlot, PendingIsIdle, StartingIsIdle, AddingIsIdle, HangupIsDead,
      AcceptedHasSlot, Used, Busy, Sock, Sock0

(* A stuttering step keeps SafetyInv.                                      *)
LEMMA SafetyStutter ==
    ASSUME TypeInv, SafetyInv, UNCHANGED vars
    PROVE  SafetyInv'
<1>1. KernelInv'
  BY DEF SafetyInv, KernelInv, vars, kernelVars, clientVars
<1>2. Frame
  BY DEF Frame, Busy, vars, kernelVars, clientVars, pollVars, netVars, thrVars
<1> QED
  BY <1>1, <1>2, FrameSafe

(* The inductive invariant holds in every reachable state.                 *)
THEOREM SafetyInvariant == Spec => []SafetyInv
<1>1. TypeInv /\ SafetyInv /\ [Next]_vars => SafetyInv'
  BY SafetyNext, SafetyStutter
<1> QED
  BY SafetyInit, TypeInvariant, <1>1, PTL DEF Spec

(* handle_incoming_data, can_rehear and the hangup test together: for any  *)
(* number of connections and threads, two handlers never read the socket of *)
(* one client at the same time.                                            *)
THEOREM OneReaderHolds == Spec => []OneReader
<1>1. SafetyInv => OneReader
  BY DEF SafetyInv, ReaderInv
<1> QED
  BY SafetyInvariant, <1>1, PTL

(* handle_new_connection, the scan and clean_fds never lose the slot of a  *)
(* live connection whose address is its own.                               *)
THEOREM ConnectionPolledHolds == Spec => []ConnectionPolled
<1>1. SafetyInv => ConnectionPolled
  BY DEF SafetyInv, AcceptedHasSlot, Adding, ConnectionPolled, Polling
<1> QED
  BY SafetyInvariant, <1>1, PTL

(* add_new_client_to_fds never writes beyond fds[] and clients[], whatever *)
(* the initial size and the number of connections.                         *)
THEOREM PollBufferHolds == Spec => []PollBufferFits
<1>1. Init => PollBufferFits
  BY ConstAssumption DEF Init, PollBufferFits
<1>2. ASSUME TypeInv, PollBufferFits, [Next]_vars PROVE PollBufferFits'
  <2> USE <1>2 DEF PollBufferFits, TypeInv, TypeOK, PollTypes, kernelVars,
        clientVars, pollVars, netVars, thrVars
  <2>1. CASE AddNewClientToFds
    BY <2>1 DEF AddNewClientToFds, SlotsMissing, KernelTypes
  <2>2. CASE CleanFill
    BY <2>2 DEF CleanFill, KernelTypes
  <2>3. ASSUME UNCHANGED <<nfds, fds_buffer_size>> PROVE PollBufferFits'
    BY <2>3
  <2> QED
    BY <2>1, <2>2, <2>3
    DEF Next, PeerStep, NetStep, HandlerStep, vars, Connect, Send, Close,
        PollReturn, PollSleep, PollInterrupted, NoNewConnection,
        ClientGetOrCreate, GetpeernameFails, NetLoadRef, ScanQuiet, ScanHup,
        ScanIn, StartHandler, PthreadCreateFails, NetDecRef, DropSlot, ScanEnd,
        CleanSkip, CleanEnd, NetUsesFreed, HandlerBegin, ReadPart, ReadLine,
        ReadFails, CallHandler, SetCanRehear, HandlerLoadRef, HandlerDecRef,
        HandlerCheckRef, KillNetworkThread, HandlerUsesFreed,
        AnswerBrokenPipe
<1> QED
  BY <1>1, <1>2, TypeInvariant, PTL DEF Spec

=============================================================================
