------------------------ MODULE TrackerNetRefsProofs ------------------------
(***************************************************************************)
(* The reference counts of TrackerNet: as long as nothing raced on a       *)
(* client's count, it is the number of its references, the object is freed *)
(* exactly when there is none, and no freed object is used.                *)
(***************************************************************************)
EXTENDS TrackerNetProofs, FiniteSetTheorems

(* Only finitely many threads have ever been started, whatever Thread is.  *)
FiniteWorkers == IsFiniteSet({t \in Thread : hpc[t] # "idle"})

(* The object of a socket that is not accepted yet does not exist, and the *)
(* client table leads to live objects only.                                *)
UnusedInv == \A c \in Sock : c > nacc => heap[c] = "none" /\ ref_count[c] = 0
TableInv ==
    \A k \in Key : client_table[k] # 0 => heap[client_table[k]] = "live"

(* A client whose thread could not be created is never handled again, so   *)
(* the reference that thread would have given back is lost only once.      *)
Abandoned(c) ==
    /\ c <= nacc /\ Idle(c)
    /\ \A i \in Used : fds[i].cl = c =>
          (fds[i].armed => Dead(c)) /\ (fds[i].rin => fds[i].rhup)
    /\ npc \in {"iload", "istore"} => ncl # c
    /\ npc \in {"aload", "astore"} /\ ncl = c => Dead(c)
OrphanInv == \A c \in Sock : orphan[c] => Abandoned(c)

(* The counting of one client.  Exact and Freed are RefsCounted; Collected *)
(* is NoLeak; Alone and Held say why the next store is right: whoever is   *)
(* inside the counting is alone there and has the count in its register.   *)
Exact(c) == heap[c] = "live" => ref_count[c] = RefsTo(c)
Freed(c) ==
    heap[c] = "freed" =>
        /\ RefsTo(c) = 0 /\ ~NetInside(c)
        /\ \A t \in Thread : ~HandlerInside(t, c)
Collected(c) ==
    heap[c] = "live" /\ RefsTo(c) = 0 =>
        NetInside(c) \/ \E t \in Thread : HandlerInside(t, c)
Alone(c) ==
    /\ NetInside(c) => \A t \in Thread : ~HandlerInside(t, c)
    /\ \A t, u \in Thread : HandlerInside(t, c) /\ HandlerInside(u, c) => t = u
NetHolds(c) == ncl = c /\ npc \in {"astore", "istore", "dstore"}
HandlerHolds(t, c) == hcl[t] = c /\ hpc[t] = "dstore"
Held(c) ==
    /\ NetHolds(c) => nreg = ref_count[c]
    /\ \A t \in Thread : HandlerHolds(t, c) => hreg[t] = ref_count[c]
Sound(c) ==
    ~raced[c] => Exact(c) /\ Freed(c) /\ Collected(c) /\ Alone(c) /\ Held(c)

CountInv ==
    FiniteWorkers /\ UnusedInv /\ TableInv /\ \A c \in Sock : Sound(c)

(* The inductive invariant.                                                *)
RefsInv == CountInv /\ OrphanInv /\ UseAfterFreeNeedsRace

(* The references to a client are finitely many, so they can be counted.   *)
LEMMA RefsFinite ==
    ASSUME TypeInv, FiniteWorkers, NEW c \in Sock
    PROVE  /\ IsFiniteSet(SlotRefs(c)) /\ IsFiniteSet(HandlerRefs(c))
           /\ Cardinality(SlotRefs(c)) \in Nat
           /\ Cardinality(HandlerRefs(c)) \in Nat
           /\ RefsTo(c) \in Nat
           /\ RefsTo(c) = 0 => SlotRefs(c) = {} /\ HandlerRefs(c) = {}
           /\ SlotRefs(c) = {} /\ HandlerRefs(c) = {} /\ ~orphan[c]
                => RefsTo(c) = 0
<1>1. IsFiniteSet(SlotRefs(c))
  <2>1. nfds - 1 \in Int
    BY DEF TypeInv, TypeOK, PollTypes
  <2>2. IsFiniteSet(Used)
    BY <2>1, FS_Interval DEF Used
  <2>3. SlotRefs(c) \in SUBSET Used
    BY DEF SlotRefs
  <2> QED
    BY <2>2, <2>3, FS_Subset
<1>2. IsFiniteSet(HandlerRefs(c))
  <2>1. HandlerRefs(c) \in SUBSET {t \in Thread : hpc[t] # "idle"}
    BY DEF HandlerRefs
  <2> QED
    BY <2>1, FS_Subset DEF FiniteWorkers
<1>3. Cardinality(SlotRefs(c)) \in Nat /\ Cardinality(HandlerRefs(c)) \in Nat
  BY <1>1, <1>2, FS_CardinalityType
<1>4. /\ Cardinality(SlotRefs(c)) = 0 <=> SlotRefs(c) = {}
      /\ Cardinality(HandlerRefs(c)) = 0 <=> HandlerRefs(c) = {}
  BY <1>1, <1>2, FS_EmptySet
<1> QED
  BY <1>1, <1>2, <1>3, <1>4 DEF RefsTo

(* Nothing that the counting of c looks at has changed.                    *)
SameClient(c) ==
    /\ heap'[c] = heap[c] /\ ref_count'[c] = ref_count[c]
    /\ raced[c] => raced'[c]
    /\ SlotRefs(c)' = SlotRefs(c) /\ HandlerRefs(c)' = HandlerRefs(c)
    /\ orphan'[c] = orphan[c]
    /\ NetInside(c)' <=> NetInside(c)
    /\ \A t \in Thread : HandlerInside(t, c)' <=> HandlerInside(t, c)
    /\ NetHolds(c)' => NetHolds(c) /\ nreg' = nreg
    /\ \A t \in Thread : HandlerHolds(t, c)' =>
          HandlerHolds(t, c) /\ hreg'[t] = hreg[t]

(* A step that changes nothing of it keeps the counting of c sound.        *)
LEMMA SameClientSound ==
    ASSUME NEW c \in Sock, Sound(c), SameClient(c)
    PROVE  Sound(c)'
<1>1. RefsTo(c)' = RefsTo(c)
  BY DEF SameClient, RefsTo
<1>2. SUFFICES ASSUME ~raced'[c]
      PROVE  Exact(c)' /\ Freed(c)' /\ Collected(c)' /\ Alone(c)' /\ Held(c)'
  BY DEF Sound
<1>3. Exact(c) /\ Freed(c) /\ Collected(c) /\ Alone(c) /\ Held(c)
  BY <1>2 DEF Sound, SameClient
<1>4. Exact(c)' /\ Freed(c)' /\ Collected(c)'
  BY <1>1, <1>3 DEF Exact, Freed, Collected, SameClient
<1>5. Alone(c)'
  BY <1>3 DEF Alone, SameClient
<1>6. Held(c)'
  BY <1>3 DEF Held, SameClient
<1> QED
  BY <1>4, <1>5, <1>6

(* The steps that touch no count: they move no slot to another client, no  *)
(* thread in or out of the counting, and give no reference back.           *)
InsidePc == {"aload", "astore", "istore", "dstore", "dcheck"}
WorkPc == {"start", "read", "handle", "rehear", "dload"}
CountFrame ==
    /\ UNCHANGED <<heap, ref_count, raced, orphan, nfds, nreg, hcl, hreg,
                   client_table>>
    /\ \A c \in Sock : c > nacc' => c > nacc
    /\ \A i \in Used : fds'[i].cl = fds[i].cl
    /\ npc \in InsidePc \/ npc' \in InsidePc => UNCHANGED <<npc, ncl, ni>>
    /\ \A t \in Thread :
          \/ hpc'[t] = hpc[t]
          \/ hpc[t] \in WorkPc /\ hpc'[t] \in WorkPc
          \/ hpc[t] = "kill" /\ hpc'[t] = "idle"

LEMMA CountFrameRefs ==
    ASSUME TypeInv, CountInv, CountFrame
    PROVE  CountInv'
<1>0. FiniteWorkers /\ UnusedInv /\ TableInv /\ \A c \in Sock : Sound(c)
  BY DEF CountInv
<1>1. Used' = Used
  BY DEF CountFrame, Used
<1>2. ASSUME NEW c \in Sock PROVE Sound(c)'
  <2>1. SlotRefs(c)' = SlotRefs(c)
    BY <1>1 DEF CountFrame, SlotRefs, InsidePc
  <2>2. HandlerRefs(c)' = HandlerRefs(c)
    BY DEF CountFrame, HandlerRefs, WorkPc
  <2>3. NetInside(c)' <=> NetInside(c)
    BY DEF CountFrame, NetInside, InsidePc
  <2>4. NetHolds(c)' => NetHolds(c) /\ nreg' = nreg
    BY DEF CountFrame, NetHolds, InsidePc
  <2>5. \A t \in Thread : HandlerInside(t, c)' <=> HandlerInside(t, c)
    BY DEF CountFrame, HandlerInside, WorkPc
  <2>6. \A t \in Thread : HandlerHolds(t, c)' =>
            HandlerHolds(t, c) /\ hreg'[t] = hreg[t]
    BY DEF CountFrame, HandlerHolds, WorkPc
  <2>7. /\ heap'[c] = heap[c] /\ ref_count'[c] = ref_count[c]
        /\ raced'[c] = raced[c] /\ orphan'[c] = orphan[c]
    BY DEF CountFrame
  <2>8. SameClient(c)
    BY <2>1, <2>2, <2>3, <2>4, <2>5, <2>6, <2>7 DEF SameClient
  <2> QED
    BY <1>0, <2>8, SameClientSound
<1>3. FiniteWorkers'
  <2>1. {t \in Thread : hpc'[t] # "idle"}
          \in SUBSET {t \in Thread : hpc[t] # "idle"}
    BY DEF CountFrame, WorkPc
  <2> QED
    BY <1>0, <2>1, FS_Subset DEF FiniteWorkers
<1>4. UnusedInv'
  BY <1>0 DEF CountFrame, UnusedInv
<1>5. TableInv'
  BY <1>0 DEF CountFrame, TableInv
<1> QED
  BY <1>2, <1>3, <1>4, <1>5 DEF CountInv

(* Where a client is abandoned it stays so: nothing is armed for it, no    *)
(* handler works on it, and what poll still reports of it is the hangup.   *)
OrphanFrame ==
    /\ \A c \in Sock : c <= nacc => c <= nacc' /\ (Dead(c) => Dead(c)')
    /\ \A c \in Sock : orphan'[c] => orphan[c]
    /\ \A c \in Sock : can_rehear'[c] => can_rehear[c]
    /\ \A t \in Thread : Busy(t)' => Busy(t) /\ hcl'[t] = hcl[t]
    /\ \A i \in Used' : i \in Used /\ fds'[i] = fds[i]
    /\ npc' \in {"iload", "istore"} => npc \in {"iload", "istore"} /\ ncl' = ncl
    /\ npc' \in {"aload", "astore"} => npc \in {"aload", "astore"} /\ ncl' = ncl

LEMMA OrphanFrameStep == ASSUME OrphanInv, OrphanFrame PROVE OrphanInv'
<1> SUFFICES ASSUME NEW c \in Sock, orphan'[c] PROVE Abandoned(c)'
  BY DEF OrphanInv
<1>1. Abandoned(c)
  BY DEF OrphanInv, OrphanFrame
<1>2. c <= nacc' /\ Idle(c)'
  BY <1>1 DEF Abandoned, Idle, OrphanFrame
<1>3. Dead(c) => Dead(c)'
  BY <1>1 DEF Abandoned, OrphanFrame
<1>4. \A i \in Used' : fds'[i].cl = c =>
          (fds'[i].armed => Dead(c)') /\ (fds'[i].rin => fds'[i].rhup)
  BY <1>1, <1>3 DEF Abandoned, OrphanFrame
<1>5. /\ npc' \in {"iload", "istore"} => ncl' # c
      /\ npc' \in {"aload", "astore"} /\ ncl' = c => Dead(c)'
  BY <1>1, <1>3 DEF Abandoned, OrphanFrame
<1> QED
  BY <1>2, <1>4, <1>5 DEF Abandoned

(* poll reports a hangup on every slot of a dead socket.                   *)
LEMMA PollReturnOrphan ==
    ASSUME TypeInv, OrphanInv, PollReturn
    PROVE  OrphanInv'
<1> SUFFICES ASSUME NEW c \in Sock, orphan'[c] PROVE Abandoned(c)'
  BY DEF OrphanInv
<1>1. Abandoned(c)
  BY DEF OrphanInv, PollReturn
<1>2. c <= nacc' /\ Idle(c)'
  BY <1>1 DEF Abandoned, Idle, PollReturn, kernelVars, clientVars, thrVars, Busy
<1>3. Dead(c)' <=> Dead(c)
  BY DEF Dead, PollReturn, kernelVars
<1>4. ASSUME NEW i \in Used', fds'[i].cl = c
      PROVE  (fds'[i].armed => Dead(c)') /\ (fds'[i].rin => fds'[i].rhup)
  <2>1. i \in Used /\ i \in Sock /\ fds[i] \in Slot
    BY DomainsHold DEF Used, PollReturn, Domains, TypeInv, TypeOK, PollTypes
  <2>2. fds'[i] = Polled(fds[i])
    BY <2>1 DEF PollReturn
  <2>3. /\ fds'[i].cl = fds[i].cl /\ fds'[i].armed = fds[i].armed
        /\ fds'[i].rin = ReadsIn(fds[i]) /\ fds'[i].rhup = HungUp(fds[i])
    BY <2>1, <2>2 DEF Polled, Slot
  <2>4. fds[i].cl = c /\ (fds[i].armed => Dead(c))
    BY <1>1, <1>4, <2>1, <2>3 DEF Abandoned
  <2> QED
    BY <1>3, <2>3, <2>4 DEF ReadsIn, HungUp
<1>5. npc' = "accept"
  BY DEF PollReturn
<1> QED
  BY <1>2, <1>4, <1>5 DEF Abandoned

(* EINTR reports nothing on any slot.                                      *)
LEMMA PollInterruptedOrphan ==
    ASSUME TypeInv, OrphanInv, PollInterrupted
    PROVE  OrphanInv'
<1> SUFFICES ASSUME NEW c \in Sock, orphan'[c] PROVE Abandoned(c)'
  BY DEF OrphanInv
<1>1. Abandoned(c)
  BY DEF OrphanInv, PollInterrupted
<1>2. c <= nacc' /\ Idle(c)'
  BY <1>1
  DEF Abandoned, Idle, PollInterrupted, kernelVars, clientVars, thrVars, Busy
<1>3. Dead(c)' <=> Dead(c)
  BY DEF Dead, PollInterrupted, kernelVars
<1>4. ASSUME NEW i \in Used', fds'[i].cl = c
      PROVE  (fds'[i].armed => Dead(c)') /\ (fds'[i].rin => fds'[i].rhup)
  <2>1. i \in Used /\ i \in Sock /\ fds[i] \in Slot
    BY DomainsHold
    DEF Used, PollInterrupted, Domains, TypeInv, TypeOK, PollTypes
  <2>2. fds'[i] = Quiet(fds[i])
    BY <2>1 DEF PollInterrupted
  <2>3. /\ fds'[i].cl = fds[i].cl /\ fds'[i].armed = fds[i].armed
        /\ ~fds'[i].rin
    BY <2>1, <2>2 DEF Quiet, Slot
  <2>4. fds[i].cl = c /\ (fds[i].armed => Dead(c))
    BY <1>1, <1>4, <2>1, <2>3 DEF Abandoned
  <2> QED
    BY <1>3, <2>3, <2>4
<1>5. npc' = "accept"
  BY DEF PollInterrupted
<1> QED
  BY <1>2, <1>4, <1>5 DEF Abandoned

(* A client found again under its address belongs to a connection that was *)
(* reset.                                                                  *)
LEMMA ClientGetOrCreateOrphan ==
    ASSUME TypeInv, SafetyInv, OrphanInv, ClientGetOrCreate
    PROVE  OrphanInv'
<1> SUFFICES ASSUME NEW c \in Sock, orphan'[c] PROVE Abandoned(c)'
  BY DEF OrphanInv
<1> DEFINE s == nacc + 1
           found == client_table[key[s]]
<1>1. Abandoned(c)
  BY DEF OrphanInv, ClientGetOrCreate
<1>2. /\ nacc \in Nat /\ nacc' = s /\ s <= nconn /\ s \in Sock /\ key[s] \in Key
      /\ found \in Sock0 /\ found <= nacc
  BY ConstAssumption
  DEF ClientGetOrCreate, TypeInv, TypeOK, KernelTypes, ClientTypes, Control,
      NetAt, Sock
<1>3. c <= nacc' /\ Idle(c)'
  BY <1>1, <1>2
  DEF Abandoned, Idle, ClientGetOrCreate, thrVars, Busy, Sock
<1>4. Dead(c)' <=> Dead(c)
  BY DEF Dead, ClientGetOrCreate
<1>5. \A i \in Used' : fds'[i].cl = c =>
          (fds'[i].armed => Dead(c)') /\ (fds'[i].rin => fds'[i].rhup)
  BY <1>1, <1>4 DEF Abandoned, ClientGetOrCreate, pollVars, Used
<1>6. npc' = "aload" /\ ncl' \in {s, found} /\ (found = 0 => ncl' = s)
  BY DEF ClientGetOrCreate
<1>7. ncl' = c => Dead(c)'
  <2> SUFFICES ASSUME ncl' = c PROVE Dead(c)
    BY <1>4
  <2>1. c # s
    BY <1>1, <1>2 DEF Abandoned
  <2>2. c = found /\ found # 0
    BY <1>6, <2>1
  <2>3. key[found] = key[s]
    BY <1>2, <2>2 DEF SafetyInv, KernelInv
  <2>4. link[found] = "rst"
    BY <1>2, <2>2, <2>3 DEF SafetyInv, KernelInv, Sock
  <2> QED
    BY <2>2, <2>4 DEF Dead
<1> QED
  BY <1>3, <1>5, <1>6, <1>7 DEF Abandoned

(* The new slot is armed, of a client that is dead if it was abandoned.    *)
LEMMA AddNewClientToFdsOrphan ==
    ASSUME TypeInv, OrphanInv, AddNewClientToFds
    PROVE  OrphanInv'
<1> SUFFICES ASSUME NEW c \in Sock, orphan'[c] PROVE Abandoned(c)'
  BY DEF OrphanInv
<1>1. Abandoned(c)
  BY DEF OrphanInv, AddNewClientToFds
<1>2. c <= nacc' /\ Idle(c)'
  BY <1>1
  DEF Abandoned, Idle, AddNewClientToFds, kernelVars, thrVars, Busy
<1>3. Dead(c)' <=> Dead(c)
  BY DEF Dead, AddNewClientToFds, kernelVars
<1>4. /\ nfds \in Nat /\ nfds' = nfds + 1 /\ nfds \in Sock
      /\ fds \in [Sock -> Slot]
      /\ fds' = [fds EXCEPT ![nfds] = NewSlot(ncl)]
  BY ConstAssumption
  DEF AddNewClientToFds, NetAt, TypeInv, TypeOK, KernelTypes, PollTypes,
      Control, Sock
<1>5. ASSUME NEW i \in Used', fds'[i].cl = c
      PROVE  (fds'[i].armed => Dead(c)') /\ (fds'[i].rin => fds'[i].rhup)
  <2>1. CASE i = nfds
    <3>1. fds'[i] = NewSlot(ncl)
      BY <1>4, <2>1
    <3>2. ncl = c /\ ~fds'[i].rin
      BY <3>1, <1>5 DEF NewSlot
    <3> QED
      BY <3>2, <1>1, <1>3 DEF Abandoned, AddNewClientToFds, NetAt
  <2>2. CASE i # nfds
    <3>1. i \in Used /\ fds'[i] = fds[i]
      BY <1>4, <2>2 DEF Used, Sock
    <3> QED
      BY <3>1, <1>1, <1>3, <1>5 DEF Abandoned
  <2> QED
    BY <2>1, <2>2
<1>6. npc' = "scan"
  BY DEF AddNewClientToFds
<1> QED
  BY <1>2, <1>5, <1>6 DEF Abandoned

(* The scan starts no handler for it and does not rearm it.                *)
LEMMA ScanOrphan ==
    ASSUME TypeInv, OrphanInv, ScanQuiet \/ ScanHup \/ ScanIn
    PROVE  OrphanInv'
<1> SUFFICES ASSUME NEW c \in Sock, orphan'[c] PROVE Abandoned(c)'
  BY DEF OrphanInv
<1>1. Abandoned(c)
  BY DEF OrphanInv, ScanQuiet, ScanHup, ScanIn
<1>2. /\ ni \in Used /\ ni \in Sock /\ fds \in [Sock -> Slot]
      /\ fds[ni].cl \in Sock /\ nfds' = nfds
  BY DomainsHold
  DEF ScanQuiet, ScanHup, ScanIn, Scanning, NetAt, TypeInv, TypeOK, PollTypes,
      NetTypes, KernelTypes, Control, Domains, Used
<1>3. c <= nacc' /\ Idle(c)'
  <2>1. \A d \in Sock : can_rehear'[d] => can_rehear[d]
    BY <1>2
    DEF ScanQuiet, ScanHup, ScanIn, Rearm, TypeInv, TypeOK, FlagTypes
  <2> QED
    BY <1>1, <2>1
    DEF Abandoned, Idle, ScanQuiet, ScanHup, ScanIn, kernelVars, thrVars, Busy
<1>4. Dead(c)' <=> Dead(c)
  BY DEF Dead, ScanQuiet, ScanHup, ScanIn, kernelVars
<1>5. \A i \in Used' : i # ni => fds'[i] = fds[i]
  <2>1. Used' = Used /\ \A i \in Used : i \in Sock
    BY <1>2, DomainsHold DEF Used, Domains
  <2> QED
    BY <1>2, <2>1 DEF ScanQuiet, ScanHup, ScanIn
<1>6. ASSUME fds[ni].cl = c
      PROVE  /\ (fds'[ni].armed => Dead(c)) /\ (fds'[ni].rin => fds'[ni].rhup)
             /\ ~ScanIn
  <2>1. /\ ~can_rehear[c] /\ (fds[ni].armed => Dead(c))
        /\ fds[ni].rin => fds[ni].rhup
    BY <1>1, <1>2, <1>6 DEF Abandoned, Idle
  <2>2. ~ScanIn
    BY <2>1 DEF ScanIn
  <2>3. fds'[ni] \in {fds[ni], Rearmed(ni)}
    BY <1>2, <2>2 DEF ScanQuiet, ScanHup
  <2>4. Rearmed(ni) = fds[ni]
    BY <2>1, <1>6 DEF Rearmed
  <2> QED
    BY <2>1, <2>2, <2>3, <2>4
<1>7. fds'[ni].cl = fds[ni].cl
  BY <1>2, ScanFlags DEF ScanQuiet, ScanHup, ScanIn
<1>8. \A i \in Used' : fds'[i].cl = c =>
          (fds'[i].armed => Dead(c)') /\ (fds'[i].rin => fds'[i].rhup)
  BY <1>1, <1>2, <1>4, <1>5, <1>6, <1>7 DEF Abandoned, Used
<1>9. npc' \in {"scan", "iload", "dload"}
  BY DEF ScanQuiet, ScanHup, ScanIn, Scanning, NetAt
<1>10. npc' = "iload" => ncl' # c
  BY <1>6 DEF ScanQuiet, ScanHup, ScanIn, Scanning, NetAt
<1> QED
  BY <1>3, <1>8, <1>9, <1>10 DEF Abandoned

(* A client becomes abandoned: StartingIsIdle says that its slot is not    *)
(* armed and that nothing else is pending for it.                          *)
LEMMA PthreadCreateFailsOrphan ==
    ASSUME TypeInv, SafetyInv, OrphanInv, PthreadCreateFails
    PROVE  OrphanInv'
<1> SUFFICES ASSUME NEW c \in Sock, orphan'[c] PROVE Abandoned(c)'
  BY DEF OrphanInv
<1>1. orphan[c] \/ c = ncl
  BY DEF PthreadCreateFails, TypeInv, TypeOK, FlagTypes
<1>2. c <= nacc /\ Idle(c) /\ \A i \in Used : fds[i].cl = c =>
          (fds[i].armed => Dead(c)) /\ (fds[i].rin => fds[i].rhup)
  <2>1. CASE orphan[c]
    BY <2>1 DEF OrphanInv, Abandoned
  <2>2. CASE c = ncl
    <3>1. npc = "istore" /\ c # 0 /\ c <= nacc
      BY <2>2
      DEF PthreadCreateFails, NetAt, TypeInv, Control, Sock
    <3>2. Idle(c) /\ \A i \in Used : fds[i].cl = c =>
             ~Pending(i) /\ (fds[i].armed => Dead(c))
      BY <2>2, <3>1 DEF SafetyInv, ReaderInv, StartingIsIdle
    <3> QED
      BY <3>1, <3>2 DEF Pending
  <2> QED
    BY <1>1, <2>1, <2>2
<1>3. UNCHANGED <<nacc, can_rehear, hpc, hcl, link, fds, nfds>> /\ npc' = "scan"
  BY DEF PthreadCreateFails, kernelVars, pollVars, thrVars
<1>4. Idle(c)' /\ (Dead(c)' <=> Dead(c)) /\ Used' = Used
  BY <1>2, <1>3 DEF Idle, Busy, Dead, Used
<1> QED
  BY <1>2, <1>3, <1>4 DEF Abandoned

(* Filling a hole moves a slot as it is.                                   *)
LEMMA CleanFillOrphan ==
    ASSUME TypeInv, OrphanInv, CleanFill
    PROVE  OrphanInv'
<1> SUFFICES ASSUME NEW c \in Sock, orphan'[c] PROVE Abandoned(c)'
  BY DEF OrphanInv
<1>1. Abandoned(c)
  BY DEF OrphanInv, CleanFill
<1>2. c <= nacc' /\ Idle(c)'
  BY <1>1
  DEF Abandoned, Idle, CleanFill, kernelVars, clientVars, thrVars, Busy
<1>3. Dead(c)' <=> Dead(c)
  BY DEF Dead, CleanFill, kernelVars
<1>4. /\ nfds \in Nat /\ nfds' = nfds - 1 /\ ni \in Used /\ nfds - 1 \in Used
      /\ ni \in Sock /\ nfds - 1 \in Sock /\ fds \in [Sock -> Slot]
  BY DomainsHold
  DEF CleanFill, NetAt, TypeInv, TypeOK, PollTypes, NetTypes, KernelTypes,
      Control, Domains, Used
<1>5. ASSUME NEW i \in Used'
      PROVE  i \in Used /\ \E j \in Used : fds'[i] = fds[j]
  <2>1. i \in Used /\ i \in Sock /\ i # nfds - 1
    BY <1>4, DomainsHold DEF Used, Domains
  <2>2. fds'[i] \in {fds[i], fds[nfds - 1]}
    BY <1>4, <2>1 DEF CleanFill
  <2> QED
    BY <1>4, <2>1, <2>2
<1>6. \A i \in Used' : fds'[i].cl = c =>
          (fds'[i].armed => Dead(c)') /\ (fds'[i].rin => fds'[i].rhup)
  BY <1>1, <1>3, <1>5 DEF Abandoned
<1>7. npc' = "clean"
  BY DEF CleanFill, NetAt, netVars
<1> QED
  BY <1>2, <1>6, <1>7 DEF Abandoned

(* A step of one thread starts at most that thread.                        *)
LEMMA OneMoreWorker ==
    ASSUME FiniteWorkers, NEW t \in Thread,
           \A u \in Thread : hpc'[u] # "idle" => hpc[u] # "idle" \/ u = t
    PROVE  FiniteWorkers'
<1> DEFINE W == {u \in Thread : hpc[u] # "idle"}
<1>1. IsFiniteSet(W \cup {t})
  BY FS_AddElement DEF FiniteWorkers
<1>2. {u \in Thread : hpc'[u] # "idle"} \in SUBSET (W \cup {t})
  OBVIOUS
<1> QED
  BY <1>1, <1>2, FS_Subset DEF FiniteWorkers

(* client_get_or_create: a new object has no reference yet, and an object  *)
(* that is found is live; the network thread is inside its counting.       *)
LEMMA ClientGetOrCreateCount ==
    ASSUME TypeInv, CountInv, OrphanInv, ClientGetOrCreate
    PROVE  CountInv'
<1> DEFINE s == nacc + 1
           found == client_table[key[s]]
<1>0. FiniteWorkers /\ UnusedInv /\ TableInv /\ \A c \in Sock : Sound(c)
  BY DEF CountInv
<1>1. /\ nacc \in Nat /\ nacc' = s /\ s <= nconn /\ s \in Sock /\ key[s] \in Key
      /\ found \in Sock0 /\ found <= nacc
  BY ConstAssumption
  DEF ClientGetOrCreate, TypeInv, TypeOK, KernelTypes, ClientTypes, Control,
      NetAt, Sock
<1>2. /\ UNCHANGED <<ref_count, nfds, fds, hpc, hcl, hreg, orphan, nreg>>
      /\ npc = "accept" /\ npc' = "aload"
  BY DEF ClientGetOrCreate, NetAt, pollVars, thrVars
<1>3. /\ found = 0 => /\ heap' = [heap EXCEPT ![s] = "live"] /\ ncl' = s
                      /\ client_table' = [client_table EXCEPT ![key[s]] = s]
      /\ found # 0 => UNCHANGED <<heap, client_table>> /\ ncl' = found
  BY DEF ClientGetOrCreate
<1>4. raced' = [raced EXCEPT ![ncl'] =
                   @ \/ \E t \in Thread : HandlerInside(t, ncl')]
  BY DEF ClientGetOrCreate, NetEnters
<1>5. /\ heap \in [Sock -> {"none", "live", "freed"}]
      /\ client_table \in [Key -> Sock0]
      /\ raced \in [Sock -> BOOLEAN] /\ ref_count \in [Sock -> Int]
      /\ orphan \in [Sock -> BOOLEAN]
  BY DEF TypeInv, TypeOK, ClientTypes, FlagTypes
<1>6. ncl' \in Sock
  BY <1>1, <1>3 DEF Sock, Sock0
<1>7. ASSUME NEW c \in Sock
      PROVE  /\ SlotRefs(c)' = SlotRefs(c) /\ HandlerRefs(c)' = HandlerRefs(c)
             /\ RefsTo(c)' = RefsTo(c)
             /\ \A t \in Thread : HandlerInside(t, c)' <=> HandlerInside(t, c)
             /\ \A t \in Thread : HandlerHolds(t, c)' <=> HandlerHolds(t, c)
             /\ ~NetHolds(c)' /\ ~NetInside(c)
  <2>1. SlotRefs(c)' = SlotRefs(c)
    BY <1>2 DEF SlotRefs, Used
  <2>2. HandlerRefs(c)' = HandlerRefs(c)
    BY <1>2 DEF HandlerRefs
  <2>3. \A t \in Thread : /\ HandlerInside(t, c)' <=> HandlerInside(t, c)
                          /\ HandlerHolds(t, c)' <=> HandlerHolds(t, c)
    BY <1>2 DEF HandlerInside, HandlerHolds
  <2>4. ~NetHolds(c)' /\ ~NetInside(c)
    BY <1>2 DEF NetHolds, NetInside
  <2> QED
    BY <1>2, <2>1, <2>2, <2>3, <2>4 DEF RefsTo
<1>8. ASSUME NEW c \in Sock, c # ncl' PROVE Sound(c)'
  <2>1. heap'[c] = heap[c] /\ raced'[c] = raced[c]
    BY <1>3, <1>4, <1>5, <1>8
  <2>2. ~NetInside(c)'
    BY <1>8 DEF NetInside
  <2>3. SameClient(c)
    BY <1>2, <1>7, <2>1, <2>2 DEF SameClient
  <2> QED
    BY <1>0, <2>3, SameClientSound
<1>9. Sound(ncl)'
  <2> DEFINE c == ncl'
  <2> SUFFICES ASSUME ~raced'[c]
               PROVE  /\ Exact(ncl)' /\ Freed(ncl)' /\ Collected(ncl)'
                      /\ Alone(ncl)' /\ Held(ncl)'
    BY DEF Sound
  <2>1. ~raced[c] /\ \A t \in Thread : ~HandlerInside(t, c)
    BY <1>4, <1>5, <1>6
  <2>2. Exact(c) /\ Held(c)
    BY <1>0, <1>6, <2>1 DEF Sound
  <2>3. heap'[c] = "live"
    BY <1>0, <1>1, <1>3, <1>5 DEF TableInv
  <2>4. ref_count[c] = RefsTo(c)
    <3>1. CASE found # 0
      BY <1>0, <1>1, <1>3, <2>2, <3>1 DEF TableInv, Exact
    <3>2. CASE found = 0
      <4>1. c = s /\ c > nacc
        BY <1>1, <1>3, <3>2
      <4>2. ref_count[c] = 0
        BY <1>0, <1>6, <4>1 DEF UnusedInv
      <4>3. ~orphan[c]
        BY <1>1, <1>6, <4>1 DEF OrphanInv, Abandoned
      <4>4. SlotRefs(c) = {}
        BY <1>1, <4>1
        DEF SlotRefs, TypeInv, TypeOK, Control, PollTypes, Used, Slot, Sock,
            Sock0
      <4>5. HandlerRefs(c) = {}
        BY <1>1, <4>1 DEF HandlerRefs, TypeInv, Control
      <4> QED
        BY <1>0, <1>6, <4>2, <4>3, <4>4, <4>5, RefsFinite
    <3> QED
      BY <3>1, <3>2
  <2>5. /\ RefsTo(ncl)' = RefsTo(c)
        /\ \A t \in Thread : ~HandlerInside(t, ncl)'
        /\ \A t \in Thread : ~HandlerHolds(t, ncl)'
        /\ ~NetHolds(ncl)'
    <3>1. /\ RefsTo(ncl)' = RefsTo(c)
          /\ ~NetHolds(ncl)'
      BY <1>2
      DEF RefsTo, SlotRefs, HandlerRefs, Used, NetHolds
    <3>2. \A t \in Thread : ~HandlerInside(t, ncl)' /\ ~HandlerHolds(t, ncl)'
      BY <1>2, <2>1 DEF HandlerInside, HandlerHolds
    <3> QED
      BY <3>1, <3>2
  <2>6. Exact(ncl)' /\ Freed(ncl)'
    BY <1>2, <2>3, <2>4, <2>5 DEF Exact, Freed
  <2>7. Collected(ncl)' /\ Alone(ncl)' /\ Held(ncl)'
    BY <1>2, <2>5 DEF Collected, Alone, Held, NetInside
  <2> QED
    BY <2>6, <2>7
<1>10. FiniteWorkers'
  BY <1>0, <1>2 DEF FiniteWorkers
<1>11. UnusedInv'
  <2> SUFFICES ASSUME NEW c \in Sock, c > nacc'
               PROVE  heap'[c] = "none" /\ ref_count'[c] = 0
    BY DEF UnusedInv
  <2>1. c > nacc /\ c # s
    BY <1>1 DEF Sock
  <2>2. heap'[c] = heap[c]
    BY <1>3, <1>5, <2>1
  <2> QED
    BY <1>0, <1>2, <2>1, <2>2 DEF UnusedInv
<1>12. TableInv'
  <2> SUFFICES ASSUME NEW k \in Key, client_table'[k] # 0
               PROVE  heap'[client_table'[k]] = "live"
    BY DEF TableInv
  <2>1. \A c \in Sock : heap[c] = "live" => heap'[c] = "live"
    BY <1>3, <1>5
  <2>2. client_table'[k] = client_table[k] \/ (client_table'[k] = s /\ found = 0)
    BY <1>3, <1>5
  <2>3. CASE client_table'[k] = client_table[k]
    BY <1>0, <1>5, <2>1, <2>3 DEF TableInv, Sock, Sock0
  <2>4. CASE client_table'[k] = s /\ found = 0
    BY <1>1, <1>3, <1>5, <2>4
  <2> QED
    BY <2>2, <2>3, <2>4
<1>13. \A c \in Sock : Sound(c)'
  BY <1>8, <1>9
<1> QED
  BY <1>10, <1>11, <1>12, <1>13 DEF CountInv

(* A step that only writes counts and registers keeps the table and the    *)
(* unused objects as they are, if it writes the count of a live one.       *)
LEMMA CountStoreFrame ==
    ASSUME UnusedInv, TableInv, NEW c \in Sock, heap[c] = "live",
           UNCHANGED <<nacc, client_table, heap>>,
           \A d \in Sock : d # c => ref_count'[d] = ref_count[d]
    PROVE  UnusedInv' /\ TableInv'
<1>1. TableInv'
  BY DEF TableInv
<1>2. UnusedInv'
  BY DEF UnusedInv
<1> QED
  BY <1>1, <1>2

(* The load of client_inc_ref or client_dec_ref in the network thread: if  *)
(* nobody else is inside, the register holds the count until the store.    *)
LEMMA NetLoadRefCount ==
    ASSUME TypeInv, CountInv,
           NEW from \in {"aload", "iload", "dload"},
           NEW to \in {"astore", "istore", "dstore"}, NetLoadRef(from, to)
    PROVE  CountInv'
<1>0. FiniteWorkers /\ UnusedInv /\ TableInv /\ \A c \in Sock : Sound(c)
  BY DEF CountInv
<1>1. /\ UNCHANGED <<nacc, heap, client_table, ref_count, nfds, fds, hpc, hcl,
                     hreg, orphan, ncl, ni>>
      /\ npc = from /\ npc' = to /\ heap[ncl] = "live" /\ nreg' = ref_count[ncl]
      /\ raced' = [raced EXCEPT ![ncl] =
                      @ \/ \E t \in Thread : HandlerInside(t, ncl)]
  BY DEF NetLoadRef, NetAt, NetEnters, kernelVars, clientVars, pollVars,
         thrVars
<1>2. raced \in [Sock -> BOOLEAN] /\ ncl \in Sock
  BY <1>1, DomainsHold DEF TypeInv, TypeOK, FlagTypes, Domains
<1>3. \A c \in Sock : SlotRefs(c)' = SlotRefs(c)
  BY <1>1 DEF SlotRefs, Used
<1>4. \A c \in Sock : HandlerRefs(c)' = HandlerRefs(c)
  BY <1>1 DEF HandlerRefs
<1>5. \A c \in Sock, t \in Thread :
          /\ HandlerInside(t, c)' <=> HandlerInside(t, c)
          /\ HandlerHolds(t, c)' <=> HandlerHolds(t, c)
  BY <1>1 DEF HandlerInside, HandlerHolds
<1>6. ASSUME NEW c \in Sock, c # ncl PROVE Sound(c)'
  <2>1. raced'[c] = raced[c]
    BY <1>1, <1>2, <1>6
  <2>2. ~NetInside(c)' /\ ~NetInside(c) /\ ~NetHolds(c)'
    BY <1>1, <1>6 DEF NetInside, NetHolds
  <2>3. SameClient(c)
    BY <1>1, <1>3, <1>4, <1>5, <2>1, <2>2 DEF SameClient
  <2> QED
    BY <1>0, <2>3, SameClientSound
<1>7. Sound(ncl)'
  <2> SUFFICES ASSUME ~raced'[ncl']
               PROVE  /\ Exact(ncl)' /\ Freed(ncl)' /\ Collected(ncl)'
                      /\ Alone(ncl)' /\ Held(ncl)'
    BY DEF Sound
  <2>1. ~raced[ncl] /\ \A t \in Thread : ~HandlerInside(t, ncl)
    BY <1>1, <1>2
  <2>2. ref_count[ncl] = RefsTo(ncl)
    BY <1>0, <1>1, <1>2, <2>1 DEF Sound, Exact
  <2>3. RefsTo(ncl)' = RefsTo(ncl)
    <3>1. SlotRefs(ncl)' = SlotRefs(ncl) /\ HandlerRefs(ncl)' = HandlerRefs(ncl)
      BY <1>1 DEF SlotRefs, HandlerRefs, Used
    <3> QED
      BY <1>1, <3>1 DEF RefsTo
  <2>4. NetInside(ncl)' /\ \A t \in Thread : ~HandlerInside(t, ncl)'
    BY <1>1, <2>1 DEF NetInside, HandlerInside
  <2>5. \A t \in Thread : ~HandlerHolds(t, ncl)'
    BY <2>4 DEF HandlerInside, HandlerHolds
  <2>6. Exact(ncl)' /\ Freed(ncl)'
    BY <1>1, <2>2, <2>3 DEF Exact, Freed
  <2>7. Collected(ncl)' /\ Alone(ncl)' /\ Held(ncl)'
    BY <1>1, <2>4, <2>5 DEF Collected, Alone, Held
  <2> QED
    BY <2>6, <2>7
<1>8. FiniteWorkers'
  BY <1>0, <1>1 DEF FiniteWorkers
<1>9. UnusedInv' /\ TableInv'
  BY <1>0, <1>1, <1>2, CountStoreFrame
<1>10. \A c \in Sock : Sound(c)'
  BY <1>1, <1>6, <1>7
<1> QED
  BY <1>8, <1>9, <1>10 DEF CountInv

(* The store of the network thread: its register still holds the count, so *)
(* what it writes is the new number of references.                         *)
LEMMA NetStoreSound ==
    ASSUME NEW c \in Sock, Sound(c), heap[c] = "live", heap'[c] = "live",
           NetHolds(c), ~NetHolds(c)', raced'[c] = raced[c],
           nreg = RefsTo(c) => ref_count'[c] = RefsTo(c)',
           RefsTo(c)' # 0 \/ NetInside(c)',
           \A t \in Thread : HandlerInside(t, c)' => HandlerInside(t, c)
    PROVE  Sound(c)'
<1> SUFFICES ASSUME ~raced'[c]
             PROVE  /\ Exact(c)' /\ Freed(c)' /\ Collected(c)'
                    /\ Alone(c)' /\ Held(c)'
  BY DEF Sound
<1>1. Exact(c) /\ Alone(c) /\ Held(c)
  BY DEF Sound
<1>2. nreg = RefsTo(c)
  BY <1>1 DEF Exact, Held
<1>3. \A t \in Thread : ~HandlerInside(t, c)
  BY <1>1 DEF Alone, NetHolds, NetInside
<1>4. \A t \in Thread : ~HandlerInside(t, c)' /\ ~HandlerHolds(t, c)'
  BY <1>3 DEF HandlerInside, HandlerHolds
<1>5. Exact(c)' /\ Freed(c)' /\ Collected(c)'
  BY <1>2 DEF Exact, Freed, Collected
<1>6. Alone(c)' /\ Held(c)'
  BY <1>4 DEF Alone, Held
<1> QED
  BY <1>5, <1>6

(* add_new_client_to_fds: the new slot is one more reference.              *)
LEMMA AddNewClientToFdsCount ==
    ASSUME TypeInv, CountInv, NEW c \in Sock, ncl = c, AddNewClientToFds
    PROVE  CountInv'
<1>0. FiniteWorkers /\ UnusedInv /\ TableInv /\ \A d \in Sock : Sound(d)
  BY DEF CountInv
<1>1. /\ UNCHANGED <<nacc, heap, client_table, hpc, hcl, hreg, orphan, raced>>
      /\ npc = "astore" /\ npc' = "scan" /\ heap[c] = "live"
      /\ ref_count' = [ref_count EXCEPT ![c] = nreg + 1]
      /\ fds' = [fds EXCEPT ![nfds] = NewSlot(c)] /\ nfds' = nfds + 1
      /\ ncl' = 0 /\ nreg' = 0
  BY DEF AddNewClientToFds, NetAt, kernelVars, thrVars
<1>2. /\ nfds \in Nat /\ nfds \in Sock /\ ref_count \in [Sock -> Int]
      /\ fds \in [Sock -> Slot] /\ Used \subseteq Sock
  BY <1>1, ConstAssumption, DomainsHold
  DEF TypeInv, TypeOK, KernelTypes, ClientTypes, PollTypes, Control, Sock,
      Domains
<1>3. Used' = Used \cup {nfds} /\ nfds \notin Used
  BY <1>1, <1>2 DEF Used, Sock
<1>4. fds'[nfds].cl = c /\ \A i \in Used : fds'[i] = fds[i]
  BY <1>1, <1>2, <1>3 DEF NewSlot
<1>5. \A d \in Sock : HandlerRefs(d)' = HandlerRefs(d)
  BY <1>1 DEF HandlerRefs
<1>6. \A d \in Sock, t \in Thread :
          /\ HandlerInside(t, d)' <=> HandlerInside(t, d)
          /\ HandlerHolds(t, d)' <=> HandlerHolds(t, d)
  BY <1>1 DEF HandlerInside, HandlerHolds
<1>7. \A d \in Sock : ~NetInside(d)' /\ ~NetHolds(d)'
  BY <1>1 DEF NetInside, NetHolds
<1>8. ASSUME NEW d \in Sock, d # c PROVE Sound(d)'
  <2>1. SlotRefs(d)' = SlotRefs(d)
    BY <1>1, <1>3, <1>4, <1>8 DEF SlotRefs
  <2>2. ref_count'[d] = ref_count[d]
    BY <1>1, <1>2, <1>8
  <2>3. ~NetInside(d)
    BY <1>8 DEF NetInside
  <2>4. SameClient(d)
    BY <1>1, <1>5, <1>6, <1>7, <2>1, <2>2, <2>3 DEF SameClient
  <2> QED
    BY <1>0, <2>4, SameClientSound
<1>9. Sound(c)'
  <2>1. SlotRefs(c)' = SlotRefs(c) \cup {nfds} /\ nfds \notin SlotRefs(c)
    BY <1>1, <1>3, <1>4 DEF SlotRefs
  <2>2. Cardinality(SlotRefs(c)') = Cardinality(SlotRefs(c)) + 1
    <3>1. IsFiniteSet(SlotRefs(c))
      BY <1>0, RefsFinite
    <3>2. Cardinality(SlotRefs(c) \cup {nfds}) = Cardinality(SlotRefs(c)) + 1
      BY <2>1, <3>1, FS_AddElement
    <3> QED
      BY <2>1, <3>2
  <2>3. RefsTo(c)' = RefsTo(c) + 1
    BY <1>0, <1>1, <1>5, <2>2, RefsFinite DEF RefsTo
  <2>4. RefsTo(c) \in Nat /\ ref_count'[c] = nreg + 1
    BY <1>0, <1>1, <1>2, RefsFinite
  <2>5. NetHolds(c) /\ heap'[c] = "live" /\ raced'[c] = raced[c]
    BY <1>1 DEF NetHolds
  <2> QED
    BY <1>0, <1>1, <1>6, <1>7, <2>3, <2>4, <2>5, NetStoreSound
<1>10. FiniteWorkers'
  BY <1>0, <1>1 DEF FiniteWorkers
<1>11. UnusedInv' /\ TableInv'
  BY <1>0, <1>1, <1>2, CountStoreFrame
<1> QED
  BY <1>8, <1>9, <1>10, <1>11 DEF CountInv

(* start_server_reqhandler_thread: the new thread is one more reference.   *)
LEMMA StartHandlerCount ==
    ASSUME TypeInv, CountInv, NEW c \in Sock, ncl = c, NEW t \in Thread,
           StartHandler(t)
    PROVE  CountInv'
<1>0. FiniteWorkers /\ UnusedInv /\ TableInv /\ \A d \in Sock : Sound(d)
  BY DEF CountInv
<1>1. /\ UNCHANGED <<nacc, heap, client_table, nfds, fds, hreg, orphan, raced>>
      /\ npc = "istore" /\ npc' = "scan" /\ heap[c] = "live"
      /\ ref_count' = [ref_count EXCEPT ![c] = nreg + 1]
      /\ hpc[t] = "idle" /\ hpc' = [hpc EXCEPT ![t] = "start"]
      /\ hcl' = [hcl EXCEPT ![t] = c] /\ ncl' = 0 /\ nreg' = 0
  BY DEF StartHandler, NetAt, kernelVars, pollVars
<1>2. /\ ref_count \in [Sock -> Int]
      /\ hpc \in [Thread -> HandlerPc] /\ hcl \in [Thread -> Sock0]
  BY DEF TypeInv, TypeOK, ClientTypes, HandlerTypes
<1>3. /\ hpc'[t] = "start" /\ hcl'[t] = c
      /\ \A u \in Thread : u # t => hpc'[u] = hpc[u] /\ hcl'[u] = hcl[u]
  BY <1>1, <1>2
<1>4. \A d \in Sock : SlotRefs(d)' = SlotRefs(d)
  BY <1>1 DEF SlotRefs, Used
<1>5. \A d \in Sock, u \in Thread :
          /\ HandlerInside(u, d)' <=> HandlerInside(u, d)
          /\ HandlerHolds(u, d)' <=> HandlerHolds(u, d)
  BY <1>1, <1>3 DEF HandlerInside, HandlerHolds
<1>6. \A d \in Sock : ~NetInside(d)' /\ ~NetHolds(d)'
  BY <1>1 DEF NetInside, NetHolds
<1>7. ASSUME NEW d \in Sock, d # c PROVE Sound(d)'
  <2>1. HandlerRefs(d)' = HandlerRefs(d)
    BY <1>1, <1>3, <1>7 DEF HandlerRefs
  <2>2. ref_count'[d] = ref_count[d]
    BY <1>1, <1>2, <1>7
  <2>3. ~NetInside(d)
    BY <1>7 DEF NetInside
  <2>4. SameClient(d)
    BY <1>1, <1>4, <1>5, <1>6, <2>1, <2>2, <2>3 DEF SameClient
  <2> QED
    BY <1>0, <2>4, SameClientSound
<1>8. Sound(c)'
  <2>1. HandlerRefs(c)' = HandlerRefs(c) \cup {t} /\ t \notin HandlerRefs(c)
    BY <1>1, <1>3 DEF HandlerRefs
  <2>2. Cardinality(HandlerRefs(c)') = Cardinality(HandlerRefs(c)) + 1
    <3>1. IsFiniteSet(HandlerRefs(c))
      BY <1>0, RefsFinite
    <3>2. Cardinality(HandlerRefs(c) \cup {t}) = Cardinality(HandlerRefs(c)) + 1
      BY <2>1, <3>1, FS_AddElement
    <3> QED
      BY <2>1, <3>2
  <2>3. RefsTo(c)' = RefsTo(c) + 1
    BY <1>0, <1>1, <1>4, <2>2, RefsFinite DEF RefsTo
  <2>4. RefsTo(c) \in Nat /\ ref_count'[c] = nreg + 1
    BY <1>0, <1>1, <1>2, RefsFinite
  <2>5. NetHolds(c) /\ heap'[c] = "live" /\ raced'[c] = raced[c]
    BY <1>1 DEF NetHolds
  <2> QED
    BY <1>0, <1>1, <1>5, <1>6, <2>3, <2>4, <2>5, NetStoreSound
<1>9. FiniteWorkers'
  BY <1>0, <1>3, OneMoreWorker
<1>10. UnusedInv' /\ TableInv'
  BY <1>0, <1>1, <1>2, CountStoreFrame
<1> QED
  BY <1>7, <1>8, <1>9, <1>10 DEF CountInv

(* A thread that could not be created keeps a reference for ever.  It is   *)
(* the first one lost: an abandoned client gets no other handler.          *)
LEMMA PthreadCreateFailsCount ==
    ASSUME TypeInv, CountInv, OrphanInv, NEW c \in Sock, ncl = c,
           PthreadCreateFails
    PROVE  CountInv'
<1>0. FiniteWorkers /\ UnusedInv /\ TableInv /\ \A d \in Sock : Sound(d)
  BY DEF CountInv
<1>1. /\ UNCHANGED <<nacc, heap, client_table, nfds, fds, hpc, hcl, hreg,
                     raced>>
      /\ npc = "istore" /\ npc' = "scan" /\ heap[c] = "live"
      /\ ref_count' = [ref_count EXCEPT ![c] = nreg + 1]
      /\ orphan' = [orphan EXCEPT ![c] = TRUE] /\ ncl' = 0 /\ nreg' = 0
  BY DEF PthreadCreateFails, NetAt, kernelVars, pollVars, thrVars
<1>2. ref_count \in [Sock -> Int] /\ orphan \in [Sock -> BOOLEAN]
  BY DEF TypeInv, TypeOK, ClientTypes, FlagTypes
<1>3. ~orphan[c]
  BY <1>1 DEF OrphanInv, Abandoned
<1>4. \A d \in Sock : /\ SlotRefs(d)' = SlotRefs(d)
                      /\ HandlerRefs(d)' = HandlerRefs(d)
  BY <1>1 DEF SlotRefs, HandlerRefs, Used
<1>5. \A d \in Sock, u \in Thread :
          /\ HandlerInside(u, d)' <=> HandlerInside(u, d)
          /\ HandlerHolds(u, d)' <=> HandlerHolds(u, d)
  BY <1>1 DEF HandlerInside, HandlerHolds
<1>6. \A d \in Sock : ~NetInside(d)' /\ ~NetHolds(d)'
  BY <1>1 DEF NetInside, NetHolds
<1>7. ASSUME NEW d \in Sock, d # c PROVE Sound(d)'
  <2>1. ref_count'[d] = ref_count[d] /\ orphan'[d] = orphan[d]
    BY <1>1, <1>2, <1>7
  <2>2. ~NetInside(d)
    BY <1>7 DEF NetInside
  <2>3. SameClient(d)
    BY <1>1, <1>4, <1>5, <1>6, <2>1, <2>2 DEF SameClient
  <2> QED
    BY <1>0, <2>3, SameClientSound
<1>8. Sound(c)'
  <2>1. RefsTo(c)' = RefsTo(c) + 1
    BY <1>0, <1>1, <1>2, <1>3, <1>4, RefsFinite DEF RefsTo
  <2>2. RefsTo(c) \in Nat /\ ref_count'[c] = nreg + 1
    BY <1>0, <1>1, <1>2, RefsFinite
  <2>3. NetHolds(c) /\ heap'[c] = "live" /\ raced'[c] = raced[c]
    BY <1>1 DEF NetHolds
  <2> QED
    BY <1>0, <1>1, <1>5, <1>6, <2>1, <2>2, <2>3, NetStoreSound
<1>9. FiniteWorkers'
  BY <1>0, <1>1 DEF FiniteWorkers
<1>10. UnusedInv' /\ TableInv'
  BY <1>0, <1>1, <1>2, CountStoreFrame
<1> QED
  BY <1>7, <1>8, <1>9, <1>10 DEF CountInv

(* The hung-up slot gives its reference back.                              *)
LEMMA NetDecRefCount ==
    ASSUME TypeInv, CountInv, NEW c \in Sock, ncl = c, NetDecRef
    PROVE  CountInv'
<1>0. FiniteWorkers /\ UnusedInv /\ TableInv /\ \A d \in Sock : Sound(d)
  BY DEF CountInv
<1>1. /\ UNCHANGED <<nacc, heap, client_table, nfds, fds, hpc, hcl, hreg, ni,
                     ncl, orphan, raced>>
      /\ npc = "dstore" /\ npc' = "dcheck" /\ heap[c] = "live"
      /\ ref_count' = [ref_count EXCEPT ![c] = nreg - 1] /\ nreg' = 0
  BY DEF NetDecRef, NetAt, kernelVars, pollVars, thrVars
<1>2. ref_count \in [Sock -> Int] /\ ni \in Used /\ fds[ni].cl = c
  BY <1>1 DEF TypeInv, TypeOK, ClientTypes, Control
<1>3. \A d \in Sock : HandlerRefs(d)' = HandlerRefs(d)
  BY <1>1 DEF HandlerRefs
<1>4. \A d \in Sock, u \in Thread :
          /\ HandlerInside(u, d)' <=> HandlerInside(u, d)
          /\ HandlerHolds(u, d)' <=> HandlerHolds(u, d)
  BY <1>1 DEF HandlerInside, HandlerHolds
<1>5. \A d \in Sock : /\ NetInside(d)' <=> NetInside(d)
                      /\ ~NetHolds(d)'
  BY <1>1 DEF NetInside, NetHolds
<1>6. ASSUME NEW d \in Sock, d # c PROVE Sound(d)'
  <2>1. SlotRefs(d)' = SlotRefs(d)
    BY <1>1, <1>2, <1>6 DEF SlotRefs, Used
  <2>2. ref_count'[d] = ref_count[d]
    BY <1>1, <1>2, <1>6
  <2>3. SameClient(d)
    BY <1>1, <1>3, <1>4, <1>5, <2>1, <2>2 DEF SameClient
  <2> QED
    BY <1>0, <2>3, SameClientSound
<1>7. Sound(c)'
  <2>1. SlotRefs(c)' = SlotRefs(c) \ {ni} /\ ni \in SlotRefs(c)
    BY <1>1, <1>2 DEF SlotRefs, Used
  <2>2. Cardinality(SlotRefs(c)') = Cardinality(SlotRefs(c)) - 1
    BY <2>1, <1>0, RefsFinite, FS_RemoveElement
  <2>3. RefsTo(c)' = RefsTo(c) - 1
    BY <1>0, <1>1, <1>3, <2>2, RefsFinite DEF RefsTo
  <2>4. RefsTo(c) \in Nat /\ ref_count'[c] = nreg - 1
    BY <1>0, <1>1, <1>2, RefsFinite
  <2>5. NetHolds(c) /\ heap'[c] = "live" /\ raced'[c] = raced[c]
    BY <1>1 DEF NetHolds
  <2>6. NetInside(c)'
    BY <1>1 DEF NetInside
  <2> QED
    BY <1>0, <1>1, <1>4, <1>5, <2>3, <2>4, <2>5, <2>6, NetStoreSound
<1>8. FiniteWorkers'
  BY <1>0, <1>1 DEF FiniteWorkers
<1>9. UnusedInv' /\ TableInv'
  BY <1>0, <1>1, <1>2, CountStoreFrame
<1> QED
  BY <1>6, <1>7, <1>8, <1>9 DEF CountInv

(* delete_client keeps the table of live objects: the entry it removes is  *)
(* the only one that can lead to the object.                               *)
LEMMA DeleteFrame ==
    ASSUME TypeInv, KernelInv, UnusedInv, TableInv, NEW c \in Sock,
           heap[c] = "live", key[c] \in Key, DeleteIfUnreferenced(c),
           UNCHANGED <<nacc, ref_count>>
    PROVE  /\ UnusedInv' /\ TableInv'
           /\ \A d \in Sock : d # c => heap'[d] = heap[d]
           /\ ref_count[c] <= 0 => heap'[c] = "freed"
           /\ ~(ref_count[c] <= 0) => heap'[c] = "live"
<1>1. /\ heap \in [Sock -> {"none", "live", "freed"}]
      /\ client_table \in [Key -> Sock0]
  BY DEF TypeInv, TypeOK, ClientTypes
<1>2. /\ \A d \in Sock : d # c => heap'[d] = heap[d]
      /\ ref_count[c] <= 0 => heap'[c] = "freed"
      /\ ~(ref_count[c] <= 0) => heap'[c] = "live"
  BY <1>1 DEF DeleteIfUnreferenced, DeleteClient
<1>3. UnusedInv'
  BY <1>2 DEF UnusedInv
<1>4. TableInv'
  <2> SUFFICES ASSUME NEW k \in Key, client_table'[k] # 0
               PROVE  heap'[client_table'[k]] = "live"
    BY DEF TableInv
  <2>1. client_table'[k] = client_table[k] /\ client_table[k] \in Sock
    BY <1>1 DEF DeleteIfUnreferenced, DeleteClient, Sock, Sock0
  <2>2. heap[client_table[k]] = "live" /\ key[client_table[k]] = k
    BY <2>1 DEF TableInv, KernelInv
  <2>3. CASE ref_count[c] <= 0
    <3>1. k # key[c]
      BY <1>1, <2>3 DEF DeleteIfUnreferenced, DeleteClient
    <3> QED
      BY <1>2, <2>1, <2>2, <3>1
  <2>4. CASE ~(ref_count[c] <= 0)
    BY <1>2, <2>1, <2>2, <2>4
  <2> QED
    BY <2>3, <2>4
<1> QED
  BY <1>2, <1>3, <1>4

(* The test after the decrement: whoever made it is alone inside, so the   *)
(* count is the number of references and 0 means that there is none.       *)
LEMMA CheckSound ==
    ASSUME TypeInv, FiniteWorkers,
           NEW c \in Sock, Sound(c), heap[c] = "live",
           ref_count'[c] = ref_count[c], raced'[c] = raced[c],
           RefsTo(c)' = RefsTo(c),
           ref_count[c] <= 0 => heap'[c] = "freed",
           ~(ref_count[c] <= 0) => heap'[c] = "live",
           ~raced[c] =>
              ~NetInside(c)' /\ \A t \in Thread : ~HandlerInside(t, c)'
    PROVE  Sound(c)'
<1> SUFFICES ASSUME ~raced'[c]
             PROVE  /\ Exact(c)' /\ Freed(c)' /\ Collected(c)'
                    /\ Alone(c)' /\ Held(c)'
  BY DEF Sound
<1>1. ref_count[c] = RefsTo(c)
  BY DEF Sound, Exact
<1>2. RefsTo(c) \in Nat
  BY RefsFinite
<1>3. /\ RefsTo(c) = 0 => heap'[c] = "freed"
      /\ RefsTo(c) # 0 => heap'[c] = "live"
  BY <1>1, <1>2
<1>4. /\ ~NetInside(c)' /\ ~NetHolds(c)'
      /\ \A t \in Thread : ~HandlerInside(t, c)' /\ ~HandlerHolds(t, c)'
  BY DEF NetInside, NetHolds, HandlerInside, HandlerHolds
<1>5. Exact(c)' /\ Freed(c)' /\ Collected(c)'
  BY <1>1, <1>3, <1>4 DEF Exact, Freed, Collected
<1>6. Alone(c)' /\ Held(c)'
  BY <1>4 DEF Alone, Held
<1> QED
  BY <1>5, <1>6

(* The network thread drops the slot and frees the client if it was the    *)
(* last reference.                                                         *)
LEMMA DropSlotCount ==
    ASSUME TypeInv, KernelInv, CountInv, NEW c \in Sock, ncl = c, DropSlot
    PROVE  CountInv'
<1>0. FiniteWorkers /\ UnusedInv /\ TableInv /\ \A d \in Sock : Sound(d)
  BY DEF CountInv
<1>1. /\ UNCHANGED <<nacc, ref_count, nfds, hpc, hcl, hreg, orphan, raced,
                     nreg>>
      /\ npc = "dcheck" /\ npc' = "scan" /\ heap[c] = "live"
      /\ fds' = [fds EXCEPT ![ni] = NoSlot] /\ ncl' = 0
      /\ DeleteIfUnreferenced(c)
  BY DEF DropSlot, NetAt, kernelVars, thrVars
<1>2. /\ ni \in Used /\ ni \in Sock /\ fds[ni].cl = c /\ key[c] \in Key
      /\ fds \in [Sock -> Slot] /\ \A i \in Used : i \in Sock
  BY <1>1, DomainsHold DEF TypeInv, TypeOK, PollTypes, Control, Domains
<1>3. /\ UnusedInv' /\ TableInv'
      /\ \A d \in Sock : d # c => heap'[d] = heap[d]
      /\ ref_count[c] <= 0 => heap'[c] = "freed"
      /\ ~(ref_count[c] <= 0) => heap'[c] = "live"
  BY <1>0, <1>1, <1>2, DeleteFrame
<1>4. Used' = Used /\ fds'[ni].cl = 0
      /\ \A i \in Used : i # ni => fds'[i] = fds[i]
  BY <1>1, <1>2 DEF Used, NoSlot
<1>5. ASSUME NEW d \in Sock
      PROVE  SlotRefs(d)' = SlotRefs(d) /\ HandlerRefs(d)' = HandlerRefs(d)
  <2>1. d # 0
    BY ConstAssumption DEF Sock
  <2>2. CASE d = c
    BY <1>1, <1>4, <2>1, <2>2 DEF SlotRefs, HandlerRefs
  <2>3. CASE d # c
    BY <1>1, <1>2, <1>4, <2>1, <2>3 DEF SlotRefs, HandlerRefs
  <2> QED
    BY <2>2, <2>3
<1>6. \A d \in Sock, u \in Thread :
          /\ HandlerInside(u, d)' <=> HandlerInside(u, d)
          /\ HandlerHolds(u, d)' <=> HandlerHolds(u, d)
  BY <1>1 DEF HandlerInside, HandlerHolds
<1>7. \A d \in Sock : ~NetInside(d)' /\ ~NetHolds(d)'
  BY <1>1 DEF NetInside, NetHolds
<1>8. ASSUME NEW d \in Sock, d # c PROVE Sound(d)'
  <2>1. heap'[d] = heap[d] /\ ~NetInside(d)
    BY <1>3, <1>8 DEF NetInside
  <2>2. SameClient(d)
    BY <1>1, <1>5, <1>6, <1>7, <2>1 DEF SameClient
  <2> QED
    BY <1>0, <2>2, SameClientSound
<1>9. Sound(c)'
  <2>1. RefsTo(c)' = RefsTo(c)
    BY <1>1, <1>5 DEF RefsTo
  <2>2. ASSUME ~raced[c] PROVE \A t \in Thread : ~HandlerInside(t, c)'
    BY <1>0, <1>1, <1>6, <2>2 DEF Sound, Alone, NetInside
  <2>3. ref_count'[c] = ref_count[c] /\ raced'[c] = raced[c]
    BY <1>1
  <2> QED
    BY <1>0, <1>1, <1>3, <1>7, <2>1, <2>2, <2>3, CheckSound
<1>10. FiniteWorkers'
  BY <1>0, <1>1 DEF FiniteWorkers
<1> QED
  BY <1>3, <1>8, <1>9, <1>10 DEF CountInv

(* The load of client_dec_ref in a handler: inside alone unless raced.     *)
LEMMA HandlerLoadRefCount ==
    ASSUME TypeInv, CountInv, NEW t \in Thread, NEW c \in Sock, hcl[t] = c,
           HandlerLoadRef(t)
    PROVE  CountInv'
<1>0. FiniteWorkers /\ UnusedInv /\ TableInv /\ \A d \in Sock : Sound(d)
  BY DEF CountInv
<1>1. /\ UNCHANGED <<nacc, heap, client_table, ref_count, nfds, fds, npc, ni,
                     ncl, nreg, hcl, orphan>>
      /\ hpc[t] = "dload" /\ hpc' = [hpc EXCEPT ![t] = "dstore"]
      /\ heap[c] = "live" /\ hreg' = [hreg EXCEPT ![t] = ref_count[c]]
  BY DEF HandlerLoadRef, At, kernelVars, clientVars, pollVars, netVars
<1>2. raced' = [raced EXCEPT ![c] =
                   \/ @ \/ NetInside(c)
                   \/ \E u \in Thread : HandlerInside(u, c)]
  BY DEF HandlerLoadRef
<1>3. /\ raced \in [Sock -> BOOLEAN] /\ hpc \in [Thread -> HandlerPc]
      /\ hreg \in [Thread -> Int]
  BY DEF TypeInv, TypeOK, FlagTypes, HandlerTypes
<1>4. /\ hpc'[t] = "dstore" /\ hreg'[t] = ref_count[c]
      /\ \A u \in Thread : u # t => hpc'[u] = hpc[u] /\ hreg'[u] = hreg[u]
  BY <1>1, <1>3
<1>5. \A d \in Sock : /\ SlotRefs(d)' = SlotRefs(d)
                      /\ HandlerRefs(d)' = HandlerRefs(d)
  BY <1>1, <1>4 DEF SlotRefs, HandlerRefs, Used
<1>6. \A d \in Sock : /\ NetInside(d)' <=> NetInside(d)
                      /\ NetHolds(d)' <=> NetHolds(d)
  BY <1>1 DEF NetInside, NetHolds
<1>7. ASSUME NEW d \in Sock, d # c PROVE Sound(d)'
  <2>1. \A u \in Thread :
          /\ HandlerInside(u, d)' <=> HandlerInside(u, d)
          /\ HandlerHolds(u, d)' => HandlerHolds(u, d) /\ hreg'[u] = hreg[u]
    BY <1>1, <1>4, <1>7 DEF HandlerInside, HandlerHolds
  <2>2. raced'[d] = raced[d]
    BY <1>2, <1>3, <1>7
  <2>3. SameClient(d)
    BY <1>1, <1>5, <1>6, <2>1, <2>2 DEF SameClient
  <2> QED
    BY <1>0, <2>3, SameClientSound
<1>8. Sound(c)'
  <2> SUFFICES ASSUME ~raced'[c]
               PROVE  /\ Exact(c)' /\ Freed(c)' /\ Collected(c)'
                      /\ Alone(c)' /\ Held(c)'
    BY DEF Sound
  <2>1. ~raced[c] /\ ~NetInside(c) /\ \A u \in Thread : ~HandlerInside(u, c)
    BY <1>2, <1>3
  <2>2. Exact(c) /\ RefsTo(c)' = RefsTo(c)
    BY <1>0, <1>1, <1>5, <2>1 DEF Sound, RefsTo
  <2>3. HandlerInside(t, c)' /\ ~NetInside(c)'
    BY <1>1, <1>4, <1>6, <2>1 DEF HandlerInside
  <2>4. \A u \in Thread :
          HandlerInside(u, c)' \/ HandlerHolds(u, c)' => u = t
    BY <1>1, <1>4, <2>1 DEF HandlerInside, HandlerHolds
  <2>5. Exact(c)' /\ Freed(c)' /\ Collected(c)'
    BY <1>1, <2>2, <2>3 DEF Exact, Freed, Collected
  <2>6. Alone(c)'
    BY <2>3, <2>4 DEF Alone
  <2>7. Held(c)'
    BY <1>1, <1>4, <2>3, <2>4 DEF Held, NetHolds, NetInside
  <2> QED
    BY <2>5, <2>6, <2>7
<1>9. FiniteWorkers'
  BY <1>0, <1>4, OneMoreWorker
<1>10. UnusedInv' /\ TableInv'
  BY <1>0, <1>1, CountStoreFrame
<1> QED
  BY <1>7, <1>8, <1>9, <1>10 DEF CountInv

(* The handler gives its reference back and is still inside.               *)
LEMMA HandlerDecRefCount ==
    ASSUME TypeInv, CountInv, NEW t \in Thread, NEW c \in Sock, hcl[t] = c,
           HandlerDecRef(t)
    PROVE  CountInv'
<1>0. FiniteWorkers /\ UnusedInv /\ TableInv /\ \A d \in Sock : Sound(d)
  BY DEF CountInv
<1>1. /\ UNCHANGED <<nacc, heap, client_table, nfds, fds, npc, ni, ncl, nreg,
                     hcl, orphan, raced>>
      /\ hpc[t] = "dstore" /\ hpc' = [hpc EXCEPT ![t] = "dcheck"]
      /\ heap[c] = "live" /\ hreg' = [hreg EXCEPT ![t] = 0]
      /\ ref_count' = [ref_count EXCEPT ![c] = hreg[t] - 1]
  BY DEF HandlerDecRef, At, kernelVars, pollVars, netVars
<1>2. /\ ref_count \in [Sock -> Int] /\ hpc \in [Thread -> HandlerPc]
      /\ hreg \in [Thread -> Int]
  BY DEF TypeInv, TypeOK, ClientTypes, HandlerTypes
<1>3. /\ hpc'[t] = "dcheck" /\ ref_count'[c] = hreg[t] - 1
      /\ \A u \in Thread : u # t => hpc'[u] = hpc[u] /\ hreg'[u] = hreg[u]
      /\ \A d \in Sock : d # c => ref_count'[d] = ref_count[d]
  BY <1>1, <1>2
<1>4. \A d \in Sock : SlotRefs(d)' = SlotRefs(d)
  BY <1>1 DEF SlotRefs, Used
<1>5. \A d \in Sock : /\ NetInside(d)' <=> NetInside(d)
                      /\ NetHolds(d)' <=> NetHolds(d)
  BY <1>1 DEF NetInside, NetHolds
<1>6. \A d \in Sock, u \in Thread :
          /\ HandlerInside(u, d)' <=> HandlerInside(u, d)
          /\ HandlerHolds(u, d)' =>
                u # t /\ HandlerHolds(u, d) /\ hreg'[u] = hreg[u]
  BY <1>1, <1>3 DEF HandlerInside, HandlerHolds
<1>7. ASSUME NEW d \in Sock, d # c PROVE Sound(d)'
  <2>1. HandlerRefs(d)' = HandlerRefs(d)
    BY <1>1, <1>3, <1>7 DEF HandlerRefs
  <2>2. SameClient(d)
    BY <1>1, <1>3, <1>4, <1>5, <1>6, <1>7, <2>1 DEF SameClient
  <2> QED
    BY <1>0, <2>2, SameClientSound
<1>8. Sound(c)'
  <2> SUFFICES ASSUME ~raced'[c]
               PROVE  /\ Exact(c)' /\ Freed(c)' /\ Collected(c)'
                      /\ Alone(c)' /\ Held(c)'
    BY DEF Sound
  <2>1. Exact(c) /\ Alone(c) /\ Held(c)
    BY <1>0, <1>1 DEF Sound
  <2>2. HandlerInside(t, c) /\ HandlerHolds(t, c)
    BY <1>1 DEF HandlerInside, HandlerHolds
  <2>3. hreg[t] = RefsTo(c)
    BY <1>1, <2>1, <2>2 DEF Exact, Held
  <2>4. RefsTo(c)' = RefsTo(c) - 1
    <3>1. HandlerRefs(c)' = HandlerRefs(c) \ {t} /\ t \in HandlerRefs(c)
      BY <1>1, <1>3 DEF HandlerRefs
    <3>2. Cardinality(HandlerRefs(c)') = Cardinality(HandlerRefs(c)) - 1
      BY <3>1, <1>0, RefsFinite, FS_RemoveElement
    <3> QED
      BY <1>0, <1>1, <1>4, <3>2, RefsFinite DEF RefsTo
  <2>5. ref_count'[c] = RefsTo(c)'
    BY <1>3, <2>3, <2>4
  <2>6. Exact(c)' /\ Freed(c)' /\ Collected(c)'
    BY <1>1, <1>6, <2>2, <2>5 DEF Exact, Freed, Collected
  <2>7. Alone(c)'
    BY <1>5, <1>6, <2>1 DEF Alone
  <2>8. \A u \in Thread : ~HandlerHolds(u, c)'
    BY <1>6, <2>1, <2>2 DEF Alone, HandlerHolds, HandlerInside
  <2>9. ~NetHolds(c)'
    BY <1>5, <2>1, <2>2 DEF Alone, NetHolds, NetInside
  <2>10. Held(c)'
    BY <2>8, <2>9 DEF Held
  <2> QED
    BY <2>6, <2>7, <2>10
<1>9. FiniteWorkers'
  BY <1>0, <1>3, OneMoreWorker
<1>10. UnusedInv' /\ TableInv'
  BY <1>0, <1>1, <1>3, CountStoreFrame
<1> QED
  BY <1>7, <1>8, <1>9, <1>10 DEF CountInv

(* The handler frees the client if its reference was the last.             *)
LEMMA HandlerCheckRefCount ==
    ASSUME TypeInv, KernelInv, CountInv, NEW t \in Thread, NEW c \in Sock,
           hcl[t] = c, HandlerCheckRef(t)
    PROVE  CountInv'
<1>0. FiniteWorkers /\ UnusedInv /\ TableInv /\ \A d \in Sock : Sound(d)
  BY DEF CountInv
<1>1. /\ UNCHANGED <<nacc, ref_count, nfds, fds, npc, ni, ncl, nreg, hreg,
                     orphan, raced>>
      /\ hpc[t] = "dcheck" /\ hpc' = [hpc EXCEPT ![t] = "kill"]
      /\ heap[c] = "live" /\ hcl' = [hcl EXCEPT ![t] = 0]
      /\ DeleteIfUnreferenced(c)
  BY DEF HandlerCheckRef, At, kernelVars, pollVars, netVars
<1>2. /\ hpc \in [Thread -> HandlerPc] /\ hcl \in [Thread -> Sock0]
      /\ key[c] \in Key
  BY <1>1, DomainsHold DEF TypeInv, TypeOK, HandlerTypes, Domains
<1>3. /\ hpc'[t] = "kill"
      /\ \A u \in Thread : u # t => hpc'[u] = hpc[u] /\ hcl'[u] = hcl[u]
  BY <1>1, <1>2
<1>4. /\ UnusedInv' /\ TableInv'
      /\ \A d \in Sock : d # c => heap'[d] = heap[d]
      /\ ref_count[c] <= 0 => heap'[c] = "freed"
      /\ ~(ref_count[c] <= 0) => heap'[c] = "live"
  BY <1>0, <1>1, <1>2, DeleteFrame
<1>5. \A d \in Sock : /\ SlotRefs(d)' = SlotRefs(d)
                      /\ HandlerRefs(d)' = HandlerRefs(d)
  BY <1>1, <1>3 DEF SlotRefs, HandlerRefs, Used
<1>6. \A d \in Sock : /\ NetInside(d)' <=> NetInside(d)
                      /\ NetHolds(d)' <=> NetHolds(d)
  BY <1>1 DEF NetInside, NetHolds
<1>7. \A d \in Sock, u \in Thread :
          /\ HandlerInside(u, d)' <=> HandlerInside(u, d) /\ u # t
          /\ HandlerHolds(u, d)' => HandlerHolds(u, d)
  BY <1>1, <1>3 DEF HandlerInside, HandlerHolds
<1>8. ASSUME NEW d \in Sock, d # c PROVE Sound(d)'
  <2>1. ~HandlerInside(t, d)
    BY <1>8 DEF HandlerInside
  <2>2. SameClient(d)
    BY <1>1, <1>4, <1>5, <1>6, <1>7, <1>8, <2>1 DEF SameClient
  <2> QED
    BY <1>0, <2>2, SameClientSound
<1>9. Sound(c)'
  <2>1. RefsTo(c)' = RefsTo(c)
    BY <1>1, <1>5 DEF RefsTo
  <2>2. HandlerInside(t, c)
    BY <1>1 DEF HandlerInside
  <2>3. ASSUME ~raced[c]
        PROVE  ~NetInside(c)' /\ \A u \in Thread : ~HandlerInside(u, c)'
    BY <1>0, <1>6, <1>7, <2>2, <2>3 DEF Sound, Alone
  <2>4. ref_count'[c] = ref_count[c] /\ raced'[c] = raced[c]
    BY <1>1
  <2> QED
    BY <1>0, <1>1, <1>4, <2>1, <2>3, <2>4, CheckSound
<1>10. FiniteWorkers'
  BY <1>0, <1>3, OneMoreWorker
<1> QED
  BY <1>4, <1>8, <1>9, <1>10 DEF CountInv

(* clean_fds: the slot that fills a hole replaces itself in the set of its *)
(* client's slots.                                                         *)
LEMMA CleanFillCount ==
    ASSUME TypeInv, CountInv, CleanFill
    PROVE  CountInv'
<1>0. FiniteWorkers /\ UnusedInv /\ TableInv /\ \A d \in Sock : Sound(d)
  BY DEF CountInv
<1>1. /\ UNCHANGED <<nacc, heap, client_table, ref_count, npc, ni, ncl, nreg,
                     hpc, hcl, hreg, orphan, raced>>
      /\ npc = "clean" /\ ni < nfds /\ fds[ni].cl = 0 /\ nfds' = nfds - 1
      /\ fds' = [fds EXCEPT ![ni] = fds[nfds - 1], ![nfds - 1] = NoSlot]
  BY DEF CleanFill, NetAt, kernelVars, clientVars, netVars, thrVars
<1>2. /\ nfds \in Nat /\ ni \in Used /\ nfds - 1 \in Used
      /\ ni \in Sock /\ nfds - 1 \in Sock /\ fds \in [Sock -> Slot]
      /\ \A i \in Used : i \in Sock
  BY <1>1, DomainsHold
  DEF TypeInv, TypeOK, PollTypes, NetTypes, KernelTypes, Control, Domains,
      Used
<1>3. Used' = Used \ {nfds - 1}
  BY <1>1, <1>2 DEF Used
<1>4. /\ \A i \in Used' : i # ni => fds'[i] = fds[i]
      /\ ni \in Used' => fds'[ni] = fds[nfds - 1]
  BY <1>1, <1>2, <1>3
<1>5. ASSUME NEW c \in Sock PROVE Sound(c)'
  <2>1. c # 0
    BY ConstAssumption DEF Sock
  <2>2. IsFiniteSet(SlotRefs(c)) /\ ni \notin SlotRefs(c)
    BY <1>0, <1>1, <2>1, RefsFinite DEF SlotRefs
  <2>3. Cardinality(SlotRefs(c)') = Cardinality(SlotRefs(c))
    <3>1. CASE fds[nfds - 1].cl = c
      <4>1. /\ SlotRefs(c)' = (SlotRefs(c) \ {nfds - 1}) \cup {ni}
            /\ nfds - 1 \in SlotRefs(c)
        BY <1>1, <1>2, <1>3, <1>4, <2>1, <3>1 DEF SlotRefs
      <4> DEFINE R == SlotRefs(c) \ {nfds - 1}
      <4>2. IsFiniteSet(R) /\ Cardinality(R) = Cardinality(SlotRefs(c)) - 1
        BY <2>2, <4>1, FS_RemoveElement
      <4>3. ni \notin R /\ Cardinality(SlotRefs(c)) \in Nat
        BY <1>0, <2>2, RefsFinite
      <4>4. Cardinality(R \cup {ni}) = Cardinality(R) + 1
        <5> HIDE DEF R
        <5> QED
          BY <4>2, <4>3, FS_AddElement
      <4> QED
        BY <4>1, <4>2, <4>3, <4>4
    <3>2. CASE fds[nfds - 1].cl # c
      <4>1. SlotRefs(c)' = SlotRefs(c)
        BY <1>1, <1>2, <1>3, <1>4, <2>1, <3>2 DEF SlotRefs
      <4> QED
        BY <4>1
    <3> QED
      BY <3>1, <3>2
  <2>4. HandlerRefs(c)' = HandlerRefs(c)
    BY <1>1 DEF HandlerRefs
  <2>5. RefsTo(c)' = RefsTo(c)
    BY <1>1, <2>3, <2>4 DEF RefsTo
  <2>6. /\ NetInside(c)' <=> NetInside(c)
        /\ NetHolds(c)' <=> NetHolds(c)
        /\ \A t \in Thread : /\ HandlerInside(t, c)' <=> HandlerInside(t, c)
                             /\ HandlerHolds(t, c)' <=> HandlerHolds(t, c)
    BY <1>1 DEF NetInside, NetHolds, HandlerInside, HandlerHolds
  <2>7. SUFFICES ASSUME ~raced'[c]
                 PROVE  /\ Exact(c)' /\ Freed(c)' /\ Collected(c)'
                        /\ Alone(c)' /\ Held(c)'
    BY DEF Sound
  <2>8. Exact(c) /\ Freed(c) /\ Collected(c) /\ Alone(c) /\ Held(c)
    BY <1>0, <1>1, <2>7 DEF Sound
  <2>9. Exact(c)' /\ Freed(c)' /\ Collected(c)'
    BY <1>1, <2>5, <2>6, <2>8 DEF Exact, Freed, Collected
  <2>10. Alone(c)' /\ Held(c)'
    BY <1>1, <2>6, <2>8 DEF Alone, Held
  <2> QED
    BY <2>9, <2>10
<1>6. FiniteWorkers' /\ UnusedInv' /\ TableInv'
  BY <1>0, <1>1 DEF FiniteWorkers, UnusedInv, TableInv
<1> QED
  BY <1>5, <1>6 DEF CountInv

(* No handler is started for an abandoned client.                          *)
LEMMA StartHandlerOrphan ==
    ASSUME TypeInv, OrphanInv, NEW t \in Thread, StartHandler(t)
    PROVE  OrphanInv'
<1> SUFFICES ASSUME NEW c \in Sock, orphan'[c] PROVE Abandoned(c)'
  BY DEF OrphanInv
<1>1. Abandoned(c)
  BY DEF OrphanInv, StartHandler
<1>2. /\ UNCHANGED <<nacc, can_rehear, link, fds, nfds>>
      /\ npc = "istore" /\ npc' = "scan" /\ ncl # c
      /\ hpc' = [hpc EXCEPT ![t] = "start"] /\ hcl' = [hcl EXCEPT ![t] = ncl]
  BY <1>1 DEF StartHandler, NetAt, Abandoned, kernelVars, pollVars
<1>3. hpc \in [Thread -> HandlerPc] /\ hcl \in [Thread -> Sock0]
  BY DEF TypeInv, TypeOK, HandlerTypes
<1>4. Idle(c)'
  <2> SUFFICES ASSUME NEW u \in Thread, Busy(u)' PROVE hcl'[u] # c
    BY <1>1, <1>2 DEF Idle, Abandoned
  <2>1. CASE u = t
    BY <1>2, <1>3, <2>1
  <2>2. CASE u # t
    BY <1>1, <1>2, <1>3, <2>2 DEF Abandoned, Idle, Busy
  <2> QED
    BY <2>1, <2>2
<1>5. (Dead(c)' <=> Dead(c)) /\ Used' = Used
  BY <1>2 DEF Dead, Used
<1> QED
  BY <1>1, <1>2, <1>4, <1>5 DEF Abandoned

(* can_rehear is set only by a handler at work on the client.              *)
LEMMA SetCanRehearOrphan ==
    ASSUME TypeInv, OrphanInv, NEW t \in Thread, SetCanRehear(t)
    PROVE  OrphanInv'
<1> SUFFICES ASSUME NEW c \in Sock, orphan'[c] PROVE Abandoned(c)'
  BY DEF OrphanInv
<1>1. Abandoned(c)
  BY DEF OrphanInv, SetCanRehear
<1>2. /\ UNCHANGED <<nacc, link, fds, nfds, hcl, npc, ncl>>
      /\ hpc[t] = "rehear" /\ hpc' = [hpc EXCEPT ![t] = "dload"]
      /\ can_rehear' = [can_rehear EXCEPT ![hcl[t]] = TRUE]
  BY DEF SetCanRehear, At, kernelVars, pollVars, netVars
<1>3. /\ hpc \in [Thread -> HandlerPc] /\ can_rehear \in [Sock -> BOOLEAN]
      /\ hcl[t] # c
  BY <1>1, <1>2
  DEF TypeInv, TypeOK, HandlerTypes, FlagTypes, Abandoned, Idle, Busy
<1>4. Idle(c)'
  BY <1>1, <1>2, <1>3 DEF Abandoned, Idle, Busy
<1>5. (Dead(c)' <=> Dead(c)) /\ Used' = Used
  BY <1>2 DEF Dead, Used
<1> QED
  BY <1>1, <1>2, <1>4, <1>5 DEF Abandoned

(* Every other step leaves what OrphanInv speaks of as OrphanFrame allows. *)
LEMMA PeerOrphan ==
    ASSUME TypeInv, SafetyInv, OrphanInv, PeerStep
    PROVE  OrphanInv'
<1>1. /\ UNCHANGED <<nacc, orphan, can_rehear, hpc, hcl, fds, nfds, npc, ncl>>
      /\ Used' = Used
  BY DEF PeerStep, Connect, Send, Close, clientVars, pollVars, netVars,
         thrVars, Used
<1>2. \A c \in Sock : Dead(c) => Dead(c)'
  <2>1. ASSUME NEW k \in Key, Connect(k) PROVE \A c \in Sock : Dead(c) => Dead(c)'
    <3>1. link' = [link EXCEPT ![nconn + 1] = "up"]
      BY <2>1 DEF Connect
    <3>2. link \in [Sock -> {"none", "up", "fin", "rst"}] /\ nconn \in Nat
      BY DEF TypeInv, TypeOK, KernelTypes
    <3>3. \A c \in Sock : c = nconn + 1 => link[c] = "none"
      BY <3>2 DEF SafetyInv, KernelInv, Sock
    <3> QED
      BY <3>1, <3>2, <3>3 DEF Dead
  <2>2. ASSUME NEW s \in Sock, NEW how \in {"fin", "rst"}, Close(s, how)
        PROVE  \A c \in Sock : Dead(c) => Dead(c)'
    BY <2>2 DEF Close, Dead, TypeInv, TypeOK, KernelTypes
  <2>3. ASSUME NEW s \in Sock, NEW b \in {"part", "line"}, Send(s, b)
        PROVE  \A c \in Sock : Dead(c) => Dead(c)'
    BY <2>3 DEF Send, Dead
  <2> QED
    BY <2>1, <2>2, <2>3 DEF PeerStep
<1>3. OrphanFrame
  BY <1>1, <1>2 DEF OrphanFrame, Busy
<1> QED
  BY <1>3, OrphanFrameStep

LEMMA DropSlotOrphan ==
    ASSUME TypeInv, OrphanInv, DropSlot
    PROVE  OrphanInv'
<1> SUFFICES ASSUME NEW c \in Sock, orphan'[c] PROVE Abandoned(c)'
  BY DEF OrphanInv
<1>1. Abandoned(c)
  BY DEF OrphanInv, DropSlot
<1>2. /\ UNCHANGED <<nacc, link, nfds, hcl, hpc, can_rehear>> /\ npc' = "scan"
      /\ fds' = [fds EXCEPT ![ni] = NoSlot]
  BY DEF DropSlot, kernelVars, thrVars
<1>3. fds \in [Sock -> Slot] /\ \A i \in Used : i \in Sock
  BY DomainsHold DEF TypeInv, TypeOK, PollTypes, Domains
<1>4. /\ Idle(c)' /\ (Dead(c)' <=> Dead(c)) /\ Used' = Used
  BY <1>1, <1>2 DEF Dead, Used, Idle, Busy, Abandoned
<1>5. \A i \in Used : fds'[i] \in {fds[i], NoSlot}
  BY <1>2, <1>3
<1>6. \A i \in Used' : fds'[i].cl = c =>
          (fds'[i].armed => Dead(c)') /\ (fds'[i].rin => fds'[i].rhup)
  BY <1>1, <1>4, <1>5 DEF Abandoned, NoSlot
<1> QED
  BY <1>1, <1>2, <1>4, <1>6 DEF Abandoned

(* No other step changes what the counting looks at.  Peers and polling.   *)
LEMMA PeerCount ==
    ASSUME TypeInv, CountInv, PeerStep
    PROVE  CountInv'
<1>1. CountFrame
  BY DEF PeerStep, Connect, Send, Close, CountFrame, kernelVars, clientVars,
         pollVars, netVars, thrVars
<1> QED
  BY <1>1, CountFrameRefs

LEMMA PollCount ==
    ASSUME TypeInv, CountInv, PollReturn \/ PollInterrupted
    PROVE  CountInv'
<1>1. \A i \in Used : fds'[i].cl = fds[i].cl
  BY DomainsHold, SlotFlags
  DEF PollReturn, PollInterrupted, Domains, TypeInv, TypeOK, PollTypes
<1>2. CountFrame
  BY <1>1
  DEF PollReturn, PollInterrupted, CountFrame, NetAt, InsidePc, kernelVars,
      clientVars, thrVars
<1> QED
  BY <1>2, CountFrameRefs

(* The scan itself: only the steps after it touch a count.                 *)
LEMMA ScanCount ==
    ASSUME TypeInv, CountInv, ScanQuiet \/ ScanHup \/ ScanIn
    PROVE  CountInv'
<1>1. /\ ni \in Sock /\ fds \in [Sock -> Slot] /\ \A i \in Used : i \in Sock
  BY DomainsHold
  DEF ScanQuiet, ScanHup, ScanIn, Scanning, NetAt, TypeInv, TypeOK, PollTypes,
      NetTypes, KernelTypes, Control, Domains, Used
<1>2. fds' = [fds EXCEPT ![ni] = Rearmed(ni)] \/
      fds' = [fds EXCEPT ![ni] = Disarmed(ni)]
  BY DEF ScanQuiet, ScanHup, ScanIn
<1>3. \A i \in Used : fds'[i].cl = fds[i].cl
  BY <1>1, <1>2, ScanFlags
<1>4. CountFrame
  BY <1>3
  DEF ScanQuiet, ScanHup, ScanIn, Scanning, NetAt, CountFrame, InsidePc,
      kernelVars, thrVars
<1> QED
  BY <1>4, CountFrameRefs

(* The other steps of the network thread that count nothing and rearm      *)
(* nothing.                                                                *)
QuietNetStep ==
    \/ PollSleep \/ NoNewConnection \/ GetpeernameFails \/ ScanEnd
    \/ CleanSkip \/ CleanEnd \/ NetUsesFreed

LEMMA QuietNetCount ==
    ASSUME TypeInv, CountInv, OrphanInv, QuietNetStep
    PROVE  CountInv' /\ OrphanInv'
<1>1. /\ UNCHANGED <<heap, ref_count, raced, orphan, nfds, fds, nreg, hcl, hreg,
                     hpc, client_table, can_rehear, link, ncl>>
      /\ nacc \in Nat /\ (nacc' = nacc \/ nacc' = nacc + 1) /\ Used' = Used
  BY DEF QuietNetStep, PollSleep, NoNewConnection, GetpeernameFails, ScanEnd,
         CleanSkip, CleanEnd, NetUsesFreed, kernelVars, clientVars, pollVars,
         netVars, thrVars, Used, TypeInv, TypeOK, KernelTypes
<1>2. \/ UNCHANGED <<npc, ni>>
      \/ /\ npc \in {"loop", "accept", "scan", "clean"}
         /\ npc' \in {"loop", "poll", "scan", "clean"}
  BY DEF QuietNetStep, PollSleep, NoNewConnection, GetpeernameFails, ScanEnd,
         CleanSkip, CleanEnd, NetUsesFreed, NetAt, netVars
<1>3. CountFrame
  BY <1>1, <1>2 DEF CountFrame, InsidePc, Sock
<1>4. OrphanFrame
  BY <1>1, <1>2 DEF OrphanFrame, Busy, Dead, Sock
<1> QED
  BY <1>3, <1>4, CountFrameRefs, OrphanFrameStep

(* The steps of a handler before its decrement.                            *)
QuietHandlerStep(t) ==
    \/ HandlerBegin(t) \/ ReadPart(t) \/ (\E blank \in BOOLEAN : ReadLine(t, blank))
    \/ ReadFails(t) \/ CallHandler(t) \/ AnswerBrokenPipe(t)
    \/ KillNetworkThread(t) \/ HandlerUsesFreed(t)

LEMMA QuietHandlerCount ==
    ASSUME TypeInv, CountInv, OrphanInv, NEW t \in Thread,
           QuietHandlerStep(t) \/ SetCanRehear(t)
    PROVE  CountInv'
<1>1. hpc \in [Thread -> HandlerPc]
  BY DEF TypeInv, TypeOK, HandlerTypes
<1>2. /\ UNCHANGED <<heap, ref_count, raced, orphan, nfds, fds, nreg, hcl, hreg,
                     client_table, nacc, npc, ncl, ni>>
  BY DEF QuietHandlerStep, SetCanRehear, HandlerBegin, ReadPart, ReadLine,
         ReadFails, CallHandler, AnswerBrokenPipe, KillNetworkThread,
         HandlerUsesFreed, kernelVars, clientVars, pollVars, netVars, thrVars
<1>3. \/ hpc' = hpc
      \/ \E p \in WorkPc, q \in WorkPc :
            hpc[t] = p /\ hpc' = [hpc EXCEPT ![t] = q]
      \/ hpc[t] = "kill" /\ hpc' = [hpc EXCEPT ![t] = "idle"]
  BY DEF QuietHandlerStep, SetCanRehear, HandlerBegin, ReadPart, ReadLine,
         ReadFails, CallHandler, AnswerBrokenPipe, KillNetworkThread,
         HandlerUsesFreed, At, WorkPc, thrVars
<1>4. \A u \in Thread :
          \/ hpc'[u] = hpc[u]
          \/ hpc[u] \in WorkPc /\ hpc'[u] \in WorkPc
          \/ hpc[u] = "kill" /\ hpc'[u] = "idle"
  BY <1>1, <1>3
<1>5. CountFrame
  BY <1>2, <1>4 DEF CountFrame
<1> QED
  BY <1>5, CountFrameRefs

(* The steps of a handler other than SetCanRehear, and the counting steps  *)
(* of the network thread, arm nothing and start nothing.                   *)
LEMMA HandlerOrphan ==
    ASSUME TypeInv, OrphanInv, NEW t \in Thread,
           \/ QuietHandlerStep(t) \/ HandlerLoadRef(t) \/ HandlerDecRef(t)
           \/ HandlerCheckRef(t)
    PROVE  OrphanInv'
<1>1. hpc \in [Thread -> HandlerPc] /\ hcl \in [Thread -> Sock0]
  BY DEF TypeInv, TypeOK, HandlerTypes
<1>2. UNCHANGED <<orphan, nfds, fds, link, can_rehear, nacc, npc, ncl>>
  BY DEF QuietHandlerStep, HandlerBegin, ReadPart, ReadLine, ReadFails,
         CallHandler, AnswerBrokenPipe, KillNetworkThread, HandlerUsesFreed,
         HandlerLoadRef, HandlerDecRef, HandlerCheckRef, kernelVars,
         clientVars, pollVars, netVars
<1>3. ASSUME NEW u \in Thread, Busy(u)' PROVE Busy(u) /\ hcl'[u] = hcl[u]
  <2>1. CASE QuietHandlerStep(t)
    BY <1>1, <1>3, <2>1
    DEF QuietHandlerStep, HandlerBegin, ReadPart, ReadLine, ReadFails,
        CallHandler, AnswerBrokenPipe, KillNetworkThread, HandlerUsesFreed,
        At, Busy, thrVars
  <2>2. CASE HandlerLoadRef(t) \/ HandlerDecRef(t) \/ HandlerCheckRef(t)
    BY <1>1, <1>3, <2>2
    DEF HandlerLoadRef, HandlerDecRef, HandlerCheckRef, At, Busy
  <2> QED
    BY <2>1, <2>2
<1>4. OrphanFrame
  BY <1>2, <1>3 DEF OrphanFrame, Dead, Used
<1> QED
  BY <1>4, OrphanFrameStep

LEMMA NetCountOrphan ==
    ASSUME OrphanInv,
           \/ NetLoadRef("aload", "astore") \/ NetLoadRef("iload", "istore")
           \/ NetLoadRef("dload", "dstore") \/ NetDecRef
    PROVE  OrphanInv'
<1>1. UNCHANGED <<orphan, nfds, fds, link, can_rehear, nacc, hpc, hcl, ncl>>
  BY DEF NetLoadRef, NetDecRef, kernelVars, clientVars, pollVars, thrVars
<1>2. /\ npc' \in {"iload", "istore"} => npc \in {"iload", "istore"}
      /\ npc' \in {"aload", "astore"} => npc \in {"aload", "astore"}
  BY DEF NetLoadRef, NetDecRef, NetAt
<1>3. OrphanFrame
  BY <1>1, <1>2 DEF OrphanFrame, Dead, Used, Busy
<1> QED
  BY <1>3, OrphanFrameStep

(* Every step keeps the counting sound and the abandoned clients alone.    *)
LEMMA CountNext ==
    ASSUME TypeInv, SafetyInv, CountInv, OrphanInv, Next
    PROVE  CountInv' /\ OrphanInv'
<1>0. KernelInv
  BY DEF SafetyInv
<1>1. CASE PeerStep
  BY <1>1, PeerCount, PeerOrphan
<1>2. CASE PollReturn \/ PollInterrupted
  BY <1>2, PollCount, PollReturnOrphan, PollInterruptedOrphan
<1>3. CASE ClientGetOrCreate
  BY <1>3, ClientGetOrCreateCount, ClientGetOrCreateOrphan
<1>4. CASE QuietNetStep
  BY <1>4, QuietNetCount
<1>5. CASE ScanQuiet \/ ScanHup \/ ScanIn
  BY <1>5, ScanCount, ScanOrphan
<1>6. CASE \/ NetLoadRef("aload", "astore") \/ NetLoadRef("iload", "istore")
           \/ NetLoadRef("dload", "dstore")
  BY <1>6, NetLoadRefCount, NetCountOrphan
<1>7. CASE AddNewClientToFds
  <2>1. ncl \in Sock
    BY <1>7, DomainsHold DEF AddNewClientToFds, NetAt, Domains
  <2> QED
    BY <1>7, <2>1, AddNewClientToFdsCount, AddNewClientToFdsOrphan
<1>8. ASSUME NEW t \in Thread, StartHandler(t) PROVE CountInv' /\ OrphanInv'
  <2>1. ncl \in Sock
    BY <1>8, DomainsHold DEF StartHandler, NetAt, Domains
  <2> QED
    BY <1>8, <2>1, StartHandlerCount, StartHandlerOrphan
<1>9. CASE PthreadCreateFails
  <2>1. ncl \in Sock
    BY <1>9, DomainsHold DEF PthreadCreateFails, NetAt, Domains
  <2> QED
    BY <1>9, <2>1, PthreadCreateFailsCount, PthreadCreateFailsOrphan
<1>10. CASE NetDecRef
  <2>1. ncl \in Sock
    BY <1>10, DomainsHold DEF NetDecRef, NetAt, Domains
  <2> QED
    BY <1>10, <2>1, NetDecRefCount, NetCountOrphan
<1>11. CASE DropSlot
  <2>1. ncl \in Sock
    BY <1>11, DomainsHold DEF DropSlot, NetAt, Domains
  <2> QED
    BY <1>0, <1>11, <2>1, DropSlotCount, DropSlotOrphan
<1>12. CASE CleanFill
  BY <1>12, CleanFillCount, CleanFillOrphan
<1>13. ASSUME NEW t \in Thread, QuietHandlerStep(t)
       PROVE  CountInv' /\ OrphanInv'
  BY <1>13, QuietHandlerCount, HandlerOrphan
<1>14. ASSUME NEW t \in Thread, SetCanRehear(t)
       PROVE  CountInv' /\ OrphanInv'
  BY <1>14, QuietHandlerCount, SetCanRehearOrphan
<1>15. ASSUME NEW t \in Thread, HandlerLoadRef(t)
       PROVE  CountInv' /\ OrphanInv'
  <2>1. hcl[t] \in Sock
    BY <1>15, DomainsHold DEF HandlerLoadRef, At, Domains
  <2> QED
    BY <1>15, <2>1, HandlerLoadRefCount, HandlerOrphan
<1>16. ASSUME NEW t \in Thread, HandlerDecRef(t)
       PROVE  CountInv' /\ OrphanInv'
  <2>1. hcl[t] \in Sock
    BY <1>16, DomainsHold DEF HandlerDecRef, At, Domains
  <2> QED
    BY <1>16, <2>1, HandlerDecRefCount, HandlerOrphan
<1>17. ASSUME NEW t \in Thread, HandlerCheckRef(t)
       PROVE  CountInv' /\ OrphanInv'
  <2>1. hcl[t] \in Sock
    BY <1>17, DomainsHold DEF HandlerCheckRef, At, Domains
  <2> QED
    BY <1>0, <1>17, <2>1, HandlerCheckRefCount, HandlerOrphan
<1> QED
  BY <1>1, <1>2, <1>3, <1>4, <1>5, <1>6, <1>7, <1>8, <1>9, <1>10, <1>11,
      <1>12, <1>13, <1>14, <1>15, <1>16, <1>17
  DEF Next, NetStep, HandlerStep, QuietNetStep, QuietHandlerStep

(* A freed client that nobody raced on has no reference and nobody inside  *)
(* its counting: no thread can use it.                                     *)
LEMMA FreedIsUnused ==
    ASSUME TypeInv, CountInv, NEW c \in Sock, heap[c] = "freed", ~raced[c]
    PROVE  ~NetUses(c) /\ \A t \in Thread : ~HandlerUses(t, c)
<1>1. Sound(c) /\ FiniteWorkers
  BY DEF CountInv
<1>2. RefsTo(c) = 0 /\ ~NetInside(c) /\ \A t \in Thread : ~HandlerInside(t, c)
  BY <1>1 DEF Sound, Freed
<1>3. SlotRefs(c) = {} /\ HandlerRefs(c) = {}
  BY <1>1, <1>2, RefsFinite
<1>4. ~NetUses(c)
  <2> SUFFICES ASSUME NetUses(c) PROVE FALSE
    OBVIOUS
  <2>1. CASE npc \in {"iload", "dload"} /\ ncl = c
    <3>1. ni \in SlotRefs(c)
      BY <2>1 DEF SlotRefs, TypeInv, Control
    <3> QED
      BY <1>3, <3>1
  <2>2. CASE Scanning /\ fds[ni].cl = c
    <3>1. ni \in Used /\ npc = "scan"
      BY <2>2
      DEF Scanning, NetAt, Used, TypeInv, TypeOK, Control, NetTypes, PollTypes,
          KernelTypes
    <3>2. ni \in SlotRefs(c)
      BY <2>2, <3>1 DEF SlotRefs
    <3> QED
      BY <1>3, <3>2
  <2> QED
    BY <1>2, <2>1, <2>2 DEF NetUses, NetInside
<1>5. ASSUME NEW t \in Thread PROVE ~HandlerUses(t, c)
  BY <1>2, <1>3 DEF HandlerUses, HandlerRefs, HandlerInside
<1> QED
  BY <1>4, <1>5

(* What has raced stays so, and nothing else makes a freed object used.    *)
LEMMA UseAfterFreeNext ==
    ASSUME TypeInv, CountInv, UseAfterFreeNeedsRace, Next
    PROVE  UseAfterFreeNeedsRace'
<1>1. \A c \in Sock : raced[c] => raced'[c]
  <2>1. raced \in [Sock -> BOOLEAN]
    BY DEF TypeInv, TypeOK, FlagTypes
  <2>2. CASE PeerStep
    BY <2>2 DEF PeerStep, Connect, Send, Close
  <2>3. CASE NetStep
    BY <2>1, <2>3
    DEF NetStep, NetEnters, PollReturn, PollSleep, PollInterrupted,
        NoNewConnection, ClientGetOrCreate, GetpeernameFails, NetLoadRef,
        AddNewClientToFds, ScanQuiet, ScanHup, ScanIn, StartHandler,
        PthreadCreateFails, NetDecRef, DropSlot, ScanEnd, CleanSkip,
        CleanFill, CleanEnd, NetUsesFreed
  <2>4. ASSUME NEW t \in Thread, HandlerStep(t)
        PROVE  \A c \in Sock : raced[c] => raced'[c]
    BY <2>1, <2>4
    DEF HandlerStep, HandlerBegin, ReadPart, ReadLine, ReadFails, CallHandler,
        AnswerBrokenPipe, SetCanRehear, HandlerLoadRef, HandlerDecRef,
        HandlerCheckRef, KillNetworkThread, HandlerUsesFreed
  <2> QED
    BY <2>2, <2>3, <2>4 DEF Next
<1>2. CASE NetUsesFreed
  <2>1. PICK c \in Sock : NetUses(c) /\ heap[c] = "freed"
    BY <1>2 DEF NetUsesFreed
  <2> QED
    BY <1>1, <2>1, FreedIsUnused DEF UseAfterFreeNeedsRace
<1>3. ASSUME NEW t \in Thread, HandlerUsesFreed(t)
      PROVE  UseAfterFreeNeedsRace'
  <2>1. PICK c \in Sock : HandlerUses(t, c) /\ heap[c] = "freed"
    BY <1>3 DEF HandlerUsesFreed
  <2> QED
    BY <1>1, <2>1, FreedIsUnused DEF UseAfterFreeNeedsRace
<1>4. ASSUME fault' # "ub" \/ fault' = fault PROVE UseAfterFreeNeedsRace'
  BY <1>1, <1>4 DEF UseAfterFreeNeedsRace
<1>5. CASE PeerStep
  BY <1>4, <1>5 DEF PeerStep, Connect, Send, Close
<1>6. CASE NetStep
  BY <1>2, <1>4, <1>6
  DEF NetStep, PollReturn, PollSleep, PollInterrupted, NoNewConnection,
      ClientGetOrCreate, GetpeernameFails, NetLoadRef, AddNewClientToFds,
      ScanQuiet, ScanHup, ScanIn, StartHandler, PthreadCreateFails, NetDecRef,
      DropSlot, ScanEnd, CleanSkip, CleanFill, CleanEnd
<1>7. ASSUME NEW t \in Thread, HandlerStep(t) PROVE UseAfterFreeNeedsRace'
  BY <1>3, <1>4, <1>7
  DEF HandlerStep, HandlerBegin, ReadPart, ReadLine, ReadFails, CallHandler,
      AnswerBrokenPipe, SetCanRehear, HandlerLoadRef, HandlerDecRef,
      HandlerCheckRef, KillNetworkThread
<1> QED
  BY <1>5, <1>6, <1>7 DEF Next

(* Before the first poll there is no client and no reference.              *)
LEMMA RefsInit == Init => RefsInv
<1> SUFFICES ASSUME Init PROVE RefsInv
  OBVIOUS
<1>1. FiniteWorkers
  <2>1. {t \in Thread : hpc[t] # "idle"} = {}
    BY DEF Init
  <2> QED
    BY <2>1, FS_EmptySet DEF FiniteWorkers
<1>2. UnusedInv /\ TableInv /\ OrphanInv /\ UseAfterFreeNeedsRace
  BY DEF Init, UnusedInv, TableInv, OrphanInv, UseAfterFreeNeedsRace
<1>3. ASSUME NEW c \in Sock PROVE Sound(c)
  <2>1. heap[c] = "none" /\ npc = "loop" /\ \A t \in Thread : hpc[t] = "idle"
    BY DEF Init
  <2>2. Exact(c) /\ Freed(c) /\ Collected(c)
    BY <2>1 DEF Exact, Freed, Collected
  <2>3. Alone(c) /\ Held(c)
    BY <2>1
    DEF Alone, Held, NetInside, HandlerInside, NetHolds, HandlerHolds
  <2> QED
    BY <2>2, <2>3 DEF Sound
<1> QED
  BY <1>1, <1>2, <1>3 DEF RefsInv, CountInv

LEMMA RefsStutter ==
    ASSUME TypeInv, RefsInv, UNCHANGED vars
    PROVE  RefsInv'
<1>1. CountFrame /\ OrphanFrame
  BY DEF CountFrame, OrphanFrame, Used, Dead, Busy, vars, kernelVars,
         clientVars, pollVars, netVars, thrVars
<1>2. UseAfterFreeNeedsRace'
  BY DEF RefsInv, UseAfterFreeNeedsRace, vars
<1> QED
  BY <1>1, <1>2, CountFrameRefs, OrphanFrameStep DEF RefsInv

(* The inductive invariant holds in every reachable state.                 *)
THEOREM RefsInvariant == Spec => []RefsInv
<1>1. TypeInv /\ SafetyInv /\ RefsInv /\ [Next]_vars => RefsInv'
  BY CountNext, UseAfterFreeNext, RefsStutter DEF RefsInv
<1> QED
  BY RefsInit, TypeInvariant, SafetyInvariant, <1>1, PTL DEF Spec

(* client_inc_ref and client_dec_ref: for any number of connections and    *)
(* threads, a count nobody raced on is the number of references, and an    *)
(* object is freed only without any.                                       *)
THEOREM RefsCountedHolds == Spec => []RefsCounted
<1>1. RefsInv => RefsCounted
  BY DEF RefsInv, CountInv, Sound, Exact, Freed, RefsCounted
<1> QED
  BY RefsInvariant, <1>1, PTL

(* Only a race on some count makes a thread use a freed client.            *)
THEOREM UseAfterFreeNeedsRaceHolds == Spec => []UseAfterFreeNeedsRace
<1>1. RefsInv => UseAfterFreeNeedsRace
  BY DEF RefsInv
<1> QED
  BY RefsInvariant, <1>1, PTL

(* delete_client is never forgotten: a client nobody refers to is about to *)
(* be freed, or raced.                                                     *)
THEOREM NoLeakHolds == Spec => []NoLeak
<1>1. RefsInv => NoLeak
  BY DEF RefsInv, CountInv, Sound, Collected, NoLeak
<1> QED
  BY RefsInvariant, <1>1, PTL

=============================================================================
