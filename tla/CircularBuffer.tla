--------------------------- MODULE CircularBuffer ---------------------------
(***************************************************************************)
(* CircularBuffer of the C++ tracker, in the three uses the tracker makes  *)
(* of it: the input of a Peer ("in": write, resize, haveLine, readUntil),  *)
(* its output ("out": write, resize, writeToFd) and the descriptors the    *)
(* listener has accepted ("accept": write, read).  A write is never larger *)
(* than the room left: ClientSocket resizes the buffer first, and the      *)
(* listener's buffer aborts the process.                                   *)
(*                                                                         *)
(* An element is a byte, or a whole descriptor in the listener's buffer.   *)
(* A definition named Op_Something is a faulty variant of Op, no part of   *)
(* the specification.                                                      *)
(***************************************************************************)
EXTENDS Integers, Sequences

CONSTANTS Byte,
          NL,        \* the newline, one of Byte
          Junk,      \* what new[] leaves in memory
          InitCap,   \* capacity at the start (32768 in the code)
          MaxCap,    \* bound: largest capacity
          MaxLen     \* bound: elements written at once

ASSUME BufferAssumption ==
    /\ NL \in Byte /\ Junk \notin Byte
    /\ InitCap \in Nat /\ InitCap > 1 /\ MaxCap \in Nat /\ InitCap <= MaxCap
    /\ MaxLen \in Nat \ {0}

VARIABLES use,               \* "in" | "out" | "accept"
          cap, size, r, w,   \* _capacity, _size, _r, _w
          buf,               \* _buf, at its first _capacity indices
          got,               \* what the last operation took out
          exact,             \* history: no operation has mixed the bytes up
          aborted

vars == <<use, cap, size, r, w, buf, got, exact, aborted>>

Index == 0..(MaxCap - 1)
remainingSpace == cap - size

Init ==
    /\ use \in {"in", "out", "accept"}
    /\ cap = InitCap /\ size = 0 /\ r = 0 /\ w = 0
    /\ buf = [i \in Index |-> Junk]
    /\ got = <<>> /\ exact = TRUE /\ aborted = FALSE

(* The counters no longer describe the buffer once an operation has mixed  *)
(* the bytes up: what follows is not modelled.                             *)
Running == ~aborted /\ exact

(* The elements of the buffer in the order they will come out.             *)
At(i) == buf[IF r + i <= cap THEN r + i - 1 ELSE r + i - 1 - cap]
Content == [i \in 1..size |-> At(i)]
Span(lo, hi) == [i \in 1..(hi - lo) |-> buf[lo + i - 1]]
-----------------------------------------------------------------------------
(* memcpy to _w in one or two parts: which element of the data goes to     *)
(* index j, if there are as many; _w after n elements.                     *)
Offset(j) == IF j >= w THEN j - w + 1 ELSE j - w + 1 + cap
NextW(n) == IF w + n <= cap THEN w + n ELSE n - (cap - w)

Data == UNION {[1..n -> Byte] : n \in 1..MaxLen}

write(data) ==
    LET n == Len(data)
    IN  /\ Running /\ n <= remainingSpace
        /\ use = "accept" => n = 1
        /\ buf' = [j \in Index |->
                     IF j < cap /\ Offset(j) <= n
                     THEN data[Offset(j)] ELSE buf[j]]
        /\ w' = NextW(n)
        /\ size' = size + n
        /\ got' = <<>>
        /\ UNCHANGED <<use, cap, r, exact, aborted>>

(* ServerSocket::eventHandler writes without resizing.                     *)
writeAborts ==
    /\ Running /\ use = "accept" /\ remainingSpace = 0
    /\ aborted' = TRUE
    /\ UNCHANGED <<use, cap, size, r, w, buf, got, exact>>

(* resize(1.5), called while some data does not fit.                       *)
ResizedW_Kept == w
ResizedW == size
resize ==
    /\ Running /\ use # "accept" /\ remainingSpace < MaxLen
    /\ (3 * cap) \div 2 <= MaxCap
    /\ cap' = (3 * cap) \div 2
    /\ buf' = [j \in Index |-> IF j < size THEN At(j + 1) ELSE Junk]
    /\ r' = 0 /\ w' = ResizedW
    /\ got' = <<>>
    /\ UNCHANGED <<use, size, exact, aborted>>

(* read of one descriptor, by the listener.                                *)
read ==
    /\ Running /\ use = "accept" /\ size > 0
    /\ got' = <<IF r + 1 <= cap THEN buf[r] ELSE buf[0]>>
    /\ r' = IF r + 1 <= cap THEN r + 1 ELSE 1
    /\ size' = size - 1
    /\ UNCHANGED <<use, cap, w, buf, exact, aborted>>
-----------------------------------------------------------------------------
Has(lo, hi, c) == \E i \in lo..(hi - 1) : buf[i] = c

contains_TailOnly(c) ==
    IF r < w THEN Has(r, w, c) ELSE r > w /\ Has(r, cap, c)

contains(c) ==
    \/ r < w /\ Has(r, w, c)
    \/ r > w /\ (Has(r, cap, c) \/ Has(0, w, c))

haveLine == contains(NL)

(* A scan from lo for a newline stops at i: there, or at hi without one.   *)
StopsAt(lo, hi, i) ==
    /\ i \in lo..hi /\ (i < hi => buf[i] = NL)
    /\ \A j \in lo..(i - 1) : buf[j] # NL

(* readUntil.  When the content wraps, the reading goes on from index 0    *)
(* also when the newline was found before the end of the buffer: what is   *)
(* between that newline and the end is skipped, but stays counted in _size.*)
readUntil(stop, end) ==
    LET wrapped == r > w
        from == IF wrapped THEN 0 ELSE r
        left == size - (stop - r) - (end - from)
    IN  /\ Running /\ use = "in" /\ size > 0 /\ haveLine
        /\ IF wrapped THEN StopsAt(r, cap, stop) ELSE stop = r
        /\ StopsAt(from, w, end)
        /\ got' = Span(r, stop) \o Span(from, end)
        /\ r' = IF left > 0 THEN end + 1 ELSE end
        /\ size' = IF left > 0 THEN left - 1 ELSE left
        /\ exact' = ~(wrapped /\ stop < cap)
        /\ UNCHANGED <<use, cap, w, buf, aborted>>
-----------------------------------------------------------------------------
(* writeToFd.  One write when the content does not wrap, two when it does; *)
(* the kernel takes any part of what it is given.                          *)
Writing == Running /\ use = "out" /\ size > 0
Wraps == r + size > cap
FirstPart == IF Wraps THEN cap - r ELSE size

(* All of it is taken.                                                     *)
writeAll ==
    /\ Writing
    /\ got' = Content
    /\ size' = 0 /\ r' = 0 /\ w' = 0
    /\ UNCHANGED <<use, cap, buf, exact, aborted>>

(* The first write takes n elements, fewer than it was given.              *)
writeFirst(n) ==
    /\ Writing /\ n < FirstPart
    /\ got' = Span(r, r + n)
    /\ r' = r + n /\ size' = size - n
    /\ UNCHANGED <<use, cap, w, buf, exact, aborted>>

(* The first write takes all, the second one n elements only: the first    *)
(* part stays counted in _size.                                            *)
writeSecond(n) ==
    /\ Writing /\ Wraps /\ n < size - FirstPart
    /\ got' = Span(r, cap) \o Span(0, n)
    /\ r' = n /\ size' = size - n
    /\ exact' = FALSE
    /\ UNCHANGED <<use, cap, w, buf, aborted>>

(* The second write fails (EAGAIN, or an error): the first part stays in   *)
(* the buffer and is written again later.                                  *)
writeRefused ==
    /\ Writing /\ Wraps
    /\ got' = Span(r, cap)
    /\ exact' = FALSE
    /\ UNCHANGED <<use, cap, size, r, w, buf, aborted>>
-----------------------------------------------------------------------------
Next ==
    \/ \E data \in Data : write(data)
    \/ writeAborts \/ resize \/ read
    \/ \E stop, end \in 0..MaxCap : readUntil(stop, end)
    \/ writeAll \/ writeRefused
    \/ \E n \in 1..MaxCap : writeFirst(n) \/ writeSecond(n)

Spec == Init /\ [][Next]_vars
-----------------------------------------------------------------------------
(* Type invariant: the indices and the size stay within the capacity, so   *)
(* that no memcpy of write, read or resize leaves the array.               *)
TypeOK ==
    /\ use \in {"in", "out", "accept"}
    /\ cap \in InitCap..MaxCap
    /\ size \in 0..cap /\ r \in 0..cap /\ w \in 0..cap
    /\ buf \in [Index -> Byte \cup {Junk}]
    /\ got \in Seq(Byte \cup {Junk})
    /\ exact \in BOOLEAN /\ aborted \in BOOLEAN

(* haveLine sees a newline wherever it is in the buffer, but sees none in  *)
(* a full buffer that wraps, where _r = _w: the line there is not handled  *)
(* until more is read and the buffer has grown.                            *)
HaveLineExact ==
    exact => (haveLine <=> /\ \E i \in 1..size : Content[i] = NL
                           /\ ~(size = cap /\ r = w))

(* The buffer implements a queue of bytes: across wrapping and resizing    *)
(* nothing is lost, repeated or reordered, until readUntil meets a newline *)
(* before the end of a wrapped buffer or the second write of writeToFd     *)
(* takes less than all.                                                    *)
Queue == INSTANCE ByteQueue WITH q <- Content
ImplementsQueue == Queue!Spec
=============================================================================
