------------------------ MODULE ClientExchangeProofs ------------------------
(***************************************************************************)
(* The properties of ClientExchange, for any clients, strategies, number   *)
(* of pieces and length of a piece.                                        *)
(*                                                                         *)
(* They rest on one invariant.  Half of it is about a stream on its way:   *)
(* an index is followed by the whole piece it announces and a "have" by a  *)
(* map, where the last token of an unfinished answer says what the thread  *)
(* that writes it is about to do.  The other half ties the reader to the   *)
(* stream: what the main thread expects next is what the stream, or the    *)
(* thread at its other end, holds for it.  A peer that answers "error" in  *)
(* place of a piece (spoiled has "absent") breaks the framing and with it  *)
(* everything the reader concludes from it.                                *)
(*                                                                         *)
(* The parts of the invariant are operators of values, not of the state:   *)
(* of a stream s, the thread v that writes it, the connection o, the       *)
(* requests q, the peer's pieces M and the history sp.  So each is shown   *)
(* to survive a change once, and a step only says which values change.     *)
(***************************************************************************)
EXTENDS ClientExchange, SequenceTheorems, TLAPS

-----------------------------------------------------------------------------
(* What a stream, and who reads and writes it, look like.                  *)

LastIs(s, x) == s # <<>> /\ s[Len(s)] = x

\* A "have" is followed by a map, if by anything.
HaveFramed(s) ==
    \A j \in 1..(Len(s) - 1) : s[j] = Word("have") =>
        \E m \in SUBSET Piece : s[j + 1] = Map(m)

\* After the first j tokens come all the bytes of piece i.
Whole(s, j, i) ==
    /\ j + PieceLen <= Len(s)
    /\ \A k \in 1..PieceLen : \E g \in BOOLEAN : s[j + k] = Byte(i, k, g)

\* An index is followed by its piece, if by anything.
PieceFramed(s) ==
    \A j \in 1..(Len(s) - 1), i \in Piece :
        s[j] = Index(i) => Whole(s, j, i)

AllGood(s) == \A j \in 1..Len(s) : s[j].t = "byte" => s[j].good = TRUE
MapsIn(s, M) == \A j \in 1..Len(s) : s[j].t = "map" => s[j].m \subseteq M

\* The end of the stream says what its writer is about to send.
PieceEnd(s, v) ==
    /\ LastIs(s, Word("data")) => v.pc = "next"
    /\ \A i \in Piece : LastIs(s, Index(i)) => v.pc = "read" /\ Head(v.todo) = i
    /\ \A i \in Piece, g \in BOOLEAN :
           LastIs(s, Byte(i, PieceLen, g)) => v.pc = "next"

StreamOK(s, v, o, M, sp) ==
    /\ HaveFramed(s)
    /\ o = "open" => /\ MapsIn(s, M)
                     /\ LastIs(s, Word("have")) => v.pc = "map"
    /\ "absent" \notin sp => /\ PieceFramed(s)
                             /\ o = "open" => PieceEnd(s, v)
    /\ sp = {} => AllGood(s)

\* A connection and the two processes at its ends.
ConOK(o, s, v, upc, upd) ==
    /\ o = "none" => s = <<>>
    /\ o = "open" => upc /\ upd /\ v.pc # "none"
    /\ v.pc # "none" => upd

\* A thread reads a piece only if it was there.
ServeOK(v, M) == v.pc = "read" => v.todo # <<>> /\ Head(v.todo) \in M

\* What c believes of a peer with pieces M.
PeerOK(k, o, B, M) ==
    k # "seed" => /\ o = "open" => B \subseteq M
                  /\ o = "none" => B = {}

\* The main thread, in state m, against the stream it reads.
ExpectsMap(m, s, v, o) ==
    m.pc = "map" => \/ s = <<>> /\ (o = "open" => v.pc = "map")
                    \/ s # <<>> /\ \E p \in SUBSET Piece : s[1] = Map(p)
ExpectsPiece(m, s, v, o) ==
    m.pc = "bytes" =>
        \/ s = <<>> /\ (o = "open" => v.pc = "read" /\ Head(v.todo) = m.index)
        \/ Whole(s, 0, m.index)
ExpectsIndex(m, s, v, o) ==
    m.pc \in {"seek", "write", "cut", "mark", "index"} /\ s = <<>>
            /\ o = "open" =>
        v.pc = "next"
ExpectsAnswer(m, s, v, o, q) ==
    m.pc = "key" /\ s = <<>> /\ o = "open" /\ v.pc # "dead" =>
        q # <<>> /\ q[Len(q)].op # "error"
ReaderOK(m, s, v, o, q, sp) ==
    /\ ExpectsMap(m, s, v, o)
    /\ "absent" \notin sp =>
          ExpectsPiece(m, s, v, o) /\ ExpectsIndex(m, s, v, o)
    /\ ExpectsAnswer(m, s, v, o, q)

\* The main thread and the disk D, the pieces M marked and S saved.
DiskOK(m, M, S, D, sp) ==
    /\ "seek" \notin sp => /\ \A p \in M \cup S : D[p] # "hole"
                           /\ m.pc \in {"cut", "mark"} => D[m.index] # "hole"
    /\ sp = {} => /\ \A p \in M \cup S : D[p] = "right"
                  /\ m.pc \in {"cut", "mark"} => D[m.index] = "right"
                  /\ m.pc \in {"seek", "write"} => m.good = TRUE

\* A name that stands for another file has no good saved state.
KeyOK(k, S) == k = "other" => S.known \notin {"part", "seed"}
-----------------------------------------------------------------------------
(* The invariant.                                                          *)

Thread == [pc : {"none", "wait", "map", "next", "read", "dead"},
           todo : Seq(Piece)]
MainState == [pc : {"idle", "key", "map", "index", "bytes", "seek", "write",
                    "cut", "mark", "dead"},
              peer : Client \cup {"none"}, want : {"none", "data", "have"},
              index : Piece, good : BOOLEAN]
Save == [known : {"none", "torn", "part", "seed", "other"},
         marked : SUBSET Piece]
Busy(m) == m.pc \notin {"idle", "dead"}

DiskTypes ==
    /\ known \in [Client -> {"none", "part", "seed", "other"}]
    /\ disk \in [Client -> [Offset -> {"right", "wrong", "hole"}]]
    /\ ser \in [Client -> Save]
ProcTypes ==
    /\ up \in [Client -> BOOLEAN]
    /\ marked \in [Client -> SUBSET Piece]
    /\ pos \in [Client -> Offset]
    /\ peerMap \in [Client -> [Client -> SUBSET Piece]]
MainTypes ==
    /\ main \in [Client -> MainState]
    /\ \A c \in Client : Busy(main[c]) => main[c].peer \in Client
ConTypes ==
    /\ con \in [Client -> [Client -> {"none", "open", "closed"}]]
    /\ req \in [Client -> [Client -> Seq(Request)]]
    /\ ans \in [Client -> [Client -> Seq(Token)]]
    /\ srv \in [Client -> [Client -> Thread]]
BoundTypes ==
    /\ nask \in 0..MaxAsk /\ ncrash \in 0..MaxCrash
    /\ spoiled \subseteq {"short", "absent", "seek"}
Types == DiskTypes /\ ProcTypes /\ MainTypes /\ ConTypes /\ BoundTypes

DiskAt(c) == /\ DiskOK(main[c], marked[c], ser[c].marked, disk[c], spoiled)
             /\ KeyOK(known[c], ser[c])
StreamAt(c, d) ==
    /\ ConOK(con[c][d], ans[c][d], srv[d][c], up[c], up[d])
    /\ ServeOK(srv[d][c], marked[d])
    /\ StreamOK(ans[c][d], srv[d][c], con[c][d], marked[d], spoiled)
PeerAt(c, d) == PeerOK(known[c], con[c][d], peerMap[c][d], marked[d])
ReaderOf(c, d) ==
    Busy(main[c]) /\ main[c].peer = d =>
        ReaderOK(main[c], ans[c][d], srv[d][c], con[c][d], req[c][d], spoiled)
IInv ==
    /\ Types
    /\ \A c \in Client : DiskAt(c)
    /\ \A c, d \in Client : StreamAt(c, d)
    /\ \A c, d \in Client : PeerAt(c, d)
    /\ \A c, d \in Client : ReaderOf(c, d)
-----------------------------------------------------------------------------
(* Tokens: what each constructor gives, after which their definitions are  *)
(* no longer needed.                                                       *)

LEMMA Words ==
    /\ \A w : Word(w).t = w
    /\ \A w, x : Word(w) = Word(x) => w = x
    /\ \A w \in {"data", "have", "error", "end"} : Word(w) \in Token
  BY DEF Word, Token

LEMMA Indexes ==
    /\ \A i : Index(i).t = "index" /\ Index(i).i = i
    /\ \A i \in Piece : Index(i) \in Token
  BY DEF Index, Token

LEMMA Maps ==
    /\ \A m : Map(m).t = "map" /\ Map(m).m = m
    /\ \A m \in SUBSET Piece : Map(m) \in Token
  BY DEF Map, Token

LEMMA Bytes ==
    /\ \A i, k, g : /\ Byte(i, k, g).t = "byte" /\ Byte(i, k, g).i = i
                    /\ Byte(i, k, g).k = k /\ Byte(i, k, g).good = g
    /\ \A i \in Piece, k \in 1..PieceLen, g \in BOOLEAN :
           Byte(i, k, g) \in Token
  BY DEF Byte, Token

LEMMA TokenCases ==
    ASSUME NEW x \in Token
    PROVE  \/ \E w \in {"data", "have", "error", "end"} : x = Word(w)
           \/ \E i \in Piece : x = Index(i)
           \/ \E m \in SUBSET Piece : x = Map(m)
           \/ \E i \in Piece, k \in 1..PieceLen, g \in BOOLEAN :
                  x = Byte(i, k, g)
  BY DEF Token
-----------------------------------------------------------------------------
(* Streams: what is left when the reader has taken n tokens, and what      *)
(* there is when the writer has sent t.                                    *)

Dropped(s, n) == SubSeq(s, n + 1, Len(s))

LEMMA DropSeq ==
    ASSUME NEW T, NEW s \in Seq(T), NEW n \in Nat, n <= Len(s)
    PROVE  /\ Dropped(s, n) \in Seq(T)
           /\ Len(Dropped(s, n)) = Len(s) - n
           /\ \A j \in 1..(Len(s) - n) : Dropped(s, n)[j] = s[j + n]
           /\ Dropped(s, n) = <<>> => n = Len(s)
           /\ n = Len(s) => Dropped(s, n) = <<>>
  <1>1. Len(s) \in Nat
    BY LenProperties
  <1>2. CASE n = Len(s)
    <2>1. Dropped(s, n) = <<>>
      BY <1>1, <1>2 DEF Dropped
    <2> QED
      BY <1>1, <1>2, <2>1
  <1>3. CASE n # Len(s)
    <2>1. n + 1 \in 1..Len(s) /\ Len(s) \in (n + 1)..Len(s)
      BY <1>1, <1>3
    <2>2. /\ Dropped(s, n) \in Seq(T)
          /\ Len(Dropped(s, n)) = Len(s) - (n + 1) + 1
          /\ \A j \in 1..(Len(s) - (n + 1) + 1) :
                 Dropped(s, n)[j] = s[n + 1 + j - 1]
      BY <2>1, <1>1, SubSeqProperties, SMT DEF Dropped
    <2> QED
      BY <1>1, <1>3, <2>2
  <1> QED
    BY <1>2, <1>3

\* What a stream satisfies, the rest of it does.
LEMMA DropStream ==
    ASSUME NEW s \in Seq(Token), NEW n \in Nat, n <= Len(s)
    PROVE  /\ HaveFramed(s) => HaveFramed(Dropped(s, n))
           /\ PieceFramed(s) => PieceFramed(Dropped(s, n))
           /\ AllGood(s) => AllGood(Dropped(s, n))
           /\ \A M : MapsIn(s, M) => MapsIn(Dropped(s, n), M)
           /\ \A x : LastIs(Dropped(s, n), x) => LastIs(s, x)
           /\ \A v : PieceEnd(s, v) => PieceEnd(Dropped(s, n), v)
           /\ \A i \in Piece, j \in Nat :
                  Whole(s, j + n, i) => Whole(Dropped(s, n), j, i)
  <1> DEFINE r == Dropped(s, n)
  <1>1. Len(s) \in Nat
    BY LenProperties
  <1>2. /\ r \in Seq(Token) /\ Len(r) = Len(s) - n
        /\ \A j \in 1..(Len(s) - n) : r[j] = s[j + n]
        /\ r = <<>> => n = Len(s)
        /\ n = Len(s) => r = <<>>
    BY DropSeq
  <1> HIDE DEF r
  <1>3. PieceLen \in Nat /\ PieceLen >= 1
    BY ExchangeAssumption
  <1>4. \A i \in Piece, j \in Nat : Whole(s, j + n, i) => Whole(r, j, i)
    BY <1>1, <1>2, <1>3, SMTT(30) DEF Whole
  <1>5. \A x : LastIs(r, x) => LastIs(s, x)
    <2>1. r # <<>> => n < Len(s)
      BY <1>1, <1>2
    <2>2. r # <<>> => r[Len(r)] = s[Len(s)]
      BY <2>1, <1>1, <1>2
    <2>3. s = <<>> => Len(s) = 0
      BY <1>1
    <2> QED
      BY <2>1, <2>2, <2>3, <1>1 DEF LastIs
  <1>6. HaveFramed(s) => HaveFramed(r)
    <2> SUFFICES ASSUME HaveFramed(s), NEW j \in 1..(Len(r) - 1),
                        r[j] = Word("have")
                 PROVE  \E m \in SUBSET Piece : r[j + 1] = Map(m)
      BY DEF HaveFramed
    <2>1. j + n \in 1..(Len(s) - 1) /\ r[j] = s[j + n]
            /\ r[j + 1] = s[j + n + 1]
      BY <1>1, <1>2
    <2> QED
      BY <2>1 DEF HaveFramed
  <1>7. PieceFramed(s) => PieceFramed(r)
    <2> SUFFICES ASSUME PieceFramed(s), NEW j \in 1..(Len(r) - 1),
                        NEW i \in Piece, r[j] = Index(i)
                 PROVE  Whole(r, j, i)
      BY DEF PieceFramed
    <2>1. j + n \in 1..(Len(s) - 1) /\ r[j] = s[j + n] /\ j \in Nat
      BY <1>1, <1>2
    <2>2. Whole(s, j + n, i)
      BY <2>1 DEF PieceFramed
    <2> QED
      BY <2>1, <2>2, <1>4
  <1>8. AllGood(s) => AllGood(r)
    BY <1>1, <1>2 DEF AllGood
  <1>9. \A M : MapsIn(s, M) => MapsIn(r, M)
    BY <1>1, <1>2, SMTT(30) DEF MapsIn
  <1>10. \A v : PieceEnd(s, v) => PieceEnd(r, v)
    BY <1>5 DEF PieceEnd
  <1> QED
    BY <1>4, <1>5, <1>6, <1>7, <1>8, <1>9, <1>10 DEF r

LEMMA SentSeq ==
    ASSUME NEW T, NEW s \in Seq(T), NEW t \in Seq(T), t # <<>>
    PROVE  /\ s \o t \in Seq(T)
           /\ Len(s \o t) = Len(s) + Len(t)
           /\ \A j \in 1..Len(s) : (s \o t)[j] = s[j]
           /\ \A j \in 1..Len(t) : (s \o t)[Len(s) + j] = t[j]
           /\ s \o t # <<>> /\ Len(t) >= 1
           /\ (s \o t)[1] = IF s = <<>> THEN t[1] ELSE s[1]
  <1>1. Len(s) \in Nat /\ Len(t) \in Nat
    BY LenProperties
  <1>2. Len(t) >= 1
    BY <1>1, EmptySeq
  <1>3. /\ s \o t \in Seq(T)
        /\ Len(s \o t) = Len(s) + Len(t)
        /\ \A j \in 1..(Len(s) + Len(t)) :
               (s \o t)[j] = IF j <= Len(s) THEN s[j] ELSE t[j - Len(s)]
    BY ConcatProperties
  <1>4. \A j \in 1..Len(s) : (s \o t)[j] = s[j]
    BY <1>1, <1>3
  <1>5. \A j \in 1..Len(t) : (s \o t)[Len(s) + j] = t[j]
    <2> SUFFICES ASSUME NEW j \in 1..Len(t)
                 PROVE  (s \o t)[Len(s) + j] = t[j]
      OBVIOUS
    <2>1. Len(s) + j \in 1..(Len(s) + Len(t)) /\ ~(Len(s) + j <= Len(s))
            /\ (Len(s) + j) - Len(s) = j
      BY <1>1
    <2> QED
      BY <2>1, <1>3
  <1>6. s \o t # <<>>
    BY <1>1, <1>2, <1>3, EmptySeq
  <1>7. s = <<>> => Len(s) = 0
    BY EmptySeq
  <1>8. s # <<>> => Len(s) >= 1
    BY EmptySeq, <1>1
  <1>9. (s \o t)[1] = IF s = <<>> THEN t[1] ELSE s[1]
    BY <1>1, <1>2, <1>3, <1>7, <1>8
  <1> QED
    BY <1>2, <1>3, <1>4, <1>5, <1>6, <1>9

LEMMA SentWhole ==
    ASSUME NEW s \in Seq(Token), NEW t \in Seq(Token), t # <<>>
    PROVE  /\ \A i \in Piece, j \in Nat : Whole(s, j, i) => Whole(s \o t, j, i)
           /\ \A i \in Piece, j \in Nat :
                  Whole(t, j, i) => Whole(s \o t, Len(s) + j, i)
  <1> DEFINE r == s \o t
  <1>1. Len(s) \in Nat /\ Len(t) \in Nat
    BY LenProperties
  <1>2. /\ Len(r) = Len(s) + Len(t)
        /\ \A j \in 1..Len(s) : r[j] = s[j]
        /\ \A j \in 1..Len(t) : r[Len(s) + j] = t[j]
    BY SentSeq
  <1>3. PieceLen \in Nat /\ PieceLen >= 1
    BY ExchangeAssumption
  <1> HIDE DEF r
  <1>4. ASSUME NEW i \in Piece, NEW j \in Nat, Whole(s, j, i)
        PROVE  Whole(r, j, i)
    <2>1. j + PieceLen <= Len(r)
      BY <1>1, <1>2, <1>3, <1>4 DEF Whole
    <2>2. \A k \in 1..PieceLen : r[j + k] = s[j + k]
      BY <1>1, <1>2, <1>3, <1>4 DEF Whole
    <2> QED
      BY <1>4, <2>1, <2>2 DEF Whole
  <1>5. ASSUME NEW i \in Piece, NEW j \in Nat, Whole(t, j, i)
        PROVE  Whole(r, Len(s) + j, i)
    <2>1. (Len(s) + j) + PieceLen <= Len(r)
      BY <1>1, <1>2, <1>3, <1>5 DEF Whole
    <2>2. \A k \in 1..PieceLen : r[(Len(s) + j) + k] = t[j + k]
      <3> SUFFICES ASSUME NEW k \in 1..PieceLen
                   PROVE  r[(Len(s) + j) + k] = t[j + k]
        OBVIOUS
      <3>1. j + k \in 1..Len(t) /\ (Len(s) + j) + k = Len(s) + (j + k)
        BY <1>1, <1>3, <1>5 DEF Whole
      <3> QED
        BY <3>1, <1>2
    <2> QED
      BY <1>5, <2>1, <2>2 DEF Whole
  <1> QED
    BY <1>4, <1>5 DEF r

\* What holds of both parts of a stream holds of it, when the second starts
\* as the end of the first announces.
LEMMA SentStream ==
    ASSUME NEW s \in Seq(Token), NEW t \in Seq(Token), t # <<>>
    PROVE  /\ /\ HaveFramed(s) /\ HaveFramed(t)
              /\ LastIs(s, Word("have")) => \E m \in SUBSET Piece : t[1] = Map(m)
              => HaveFramed(s \o t)
           /\ /\ PieceFramed(s) /\ PieceFramed(t)
              /\ \A i \in Piece : LastIs(s, Index(i)) => Whole(t, 0, i)
              => PieceFramed(s \o t)
           /\ AllGood(s) /\ AllGood(t) => AllGood(s \o t)
           /\ \A M : MapsIn(s, M) /\ MapsIn(t, M) => MapsIn(s \o t, M)
           /\ \A x : LastIs(s \o t, x) => LastIs(t, x)
           /\ \A v : PieceEnd(t, v) => PieceEnd(s \o t, v)
  <1> DEFINE r == s \o t
  <1>1. Len(s) \in Nat /\ Len(t) \in Nat
    BY LenProperties
  <1>2. /\ Len(r) = Len(s) + Len(t) /\ Len(t) >= 1
        /\ \A j \in 1..Len(s) : r[j] = s[j]
        /\ \A j \in 1..Len(t) : r[Len(s) + j] = t[j]
    BY SentSeq
  <1>3. s = <<>> => Len(s) = 0
    BY EmptySeq
  <1>4. \A i \in Piece, j \in Nat : Whole(s, j, i) => Whole(r, j, i)
    BY SentWhole
  <1>5. \A i \in Piece, j \in Nat : Whole(t, j, i) => Whole(r, Len(s) + j, i)
    BY SentWhole
  <1> HIDE DEF r
  \* a token of r is inside s, the last of s, or inside t
  <1>6. ASSUME NEW j \in 1..(Len(r) - 1)
        PROVE  \/ j \in 1..(Len(s) - 1) /\ r[j] = s[j] /\ r[j + 1] = s[j + 1]
               \/ /\ j = Len(s) /\ s # <<>> /\ r[j] = s[Len(s)]
                  /\ r[j + 1] = t[1]
               \/ \E k \in 1..(Len(t) - 1) :
                      j = Len(s) + k /\ r[j] = t[k] /\ r[j + 1] = t[k + 1]
    <2>1. CASE j < Len(s)
      BY <2>1, <1>1, <1>2
    <2>2. CASE j = Len(s)
      BY <2>2, <1>1, <1>2, <1>3
    <2>3. CASE j > Len(s)
      <3>1. /\ j - Len(s) \in 1..(Len(t) - 1)
            /\ j = Len(s) + (j - Len(s)) /\ j + 1 = Len(s) + ((j - Len(s)) + 1)
            /\ j - Len(s) \in 1..Len(t) /\ (j - Len(s)) + 1 \in 1..Len(t)
        BY <2>3, <1>1, <1>2
      <3>2. r[j] = t[j - Len(s)] /\ r[j + 1] = t[(j - Len(s)) + 1]
        BY <3>1, <1>2, SMTT(30)
      <3> QED
        BY <3>1, <3>2
    <2> QED
      BY <2>1, <2>2, <2>3, <1>1, <1>2
  <1>7. ASSUME HaveFramed(s), HaveFramed(t),
               LastIs(s, Word("have")) => \E m \in SUBSET Piece : t[1] = Map(m)
        PROVE  HaveFramed(r)
    <2> SUFFICES ASSUME NEW j \in 1..(Len(r) - 1), r[j] = Word("have")
                 PROVE  \E m \in SUBSET Piece : r[j + 1] = Map(m)
      BY DEF HaveFramed
    <2> QED
      BY <1>6, <1>7 DEF HaveFramed, LastIs
  <1>8. ASSUME PieceFramed(s), PieceFramed(t),
               \A i \in Piece : LastIs(s, Index(i)) => Whole(t, 0, i)
        PROVE  PieceFramed(r)
    <2> SUFFICES ASSUME NEW j \in 1..(Len(r) - 1), NEW i \in Piece,
                        r[j] = Index(i)
                 PROVE  Whole(r, j, i)
      BY DEF PieceFramed
    <2>1. CASE j \in 1..(Len(s) - 1) /\ r[j] = s[j]
      <3>1. j \in Nat
        BY <1>1, <2>1
      <3>2. Whole(s, j, i)
        BY <1>8, <2>1 DEF PieceFramed
      <3> QED
        BY <3>1, <3>2, <1>4
    <2>2. CASE j = Len(s) /\ s # <<>> /\ r[j] = s[Len(s)]
      <3>1. Whole(t, 0, i)
        BY <1>8, <2>2 DEF LastIs
      <3>2. Whole(r, Len(s) + 0, i)
        BY <3>1, <1>5
      <3> QED
        BY <2>2, <3>2, <1>1
    <2>3. CASE \E k \in 1..(Len(t) - 1) : j = Len(s) + k /\ r[j] = t[k]
      <3>1. PICK k \in 1..(Len(t) - 1) : j = Len(s) + k /\ r[j] = t[k]
        BY <2>3
      <3>2. Whole(t, k, i) /\ k \in Nat
        BY <1>1, <1>8, <3>1 DEF PieceFramed
      <3> QED
        BY <3>1, <3>2, <1>5
    <2> QED
      BY <1>6, <2>1, <2>2, <2>3
  <1>9. ASSUME NEW j \in 1..Len(r)
        PROVE  \/ j \in 1..Len(s) /\ r[j] = s[j]
               \/ \E k \in 1..Len(t) : r[j] = t[k]
    <2>1. CASE j <= Len(s)
      BY <2>1, <1>1, <1>2
    <2>2. CASE j > Len(s)
      <3>1. j - Len(s) \in 1..Len(t) /\ j = Len(s) + (j - Len(s))
        BY <2>2, <1>1, <1>2
      <3> QED
        BY <3>1, <1>2
    <2> QED
      BY <2>1, <2>2, <1>1, <1>2
  <1>10. AllGood(s) /\ AllGood(t) => AllGood(r)
    BY <1>9 DEF AllGood
  <1>11. \A M : MapsIn(s, M) /\ MapsIn(t, M) => MapsIn(r, M)
    BY <1>9 DEF MapsIn
  <1>12. r[Len(r)] = t[Len(t)]
    BY <1>1, <1>2
  <1>13. \A x : LastIs(r, x) => LastIs(t, x)
    BY <1>12 DEF LastIs
  <1>14. \A v : PieceEnd(t, v) => PieceEnd(r, v)
    BY <1>13 DEF PieceEnd
  <1> QED
    BY <1>7, <1>8, <1>10, <1>11, <1>13, <1>14 DEF r
-----------------------------------------------------------------------------
(* How the parts of the invariant survive a change of their values.        *)

LEMMA StreamMono ==
    ASSUME NEW s, NEW v, NEW o, NEW o2, NEW M, NEW M2, NEW sp, NEW sp2,
           StreamOK(s, v, o, M, sp), M \subseteq M2, sp \subseteq sp2,
           o2 = o \/ o2 # "open"
    PROVE  StreamOK(s, v, o2, M2, sp2)
  <1>1. MapsIn(s, M) => MapsIn(s, M2)
    BY DEF MapsIn
  <1> QED
    BY <1>1 DEF StreamOK

LEMMA StreamDrop ==
    ASSUME NEW s \in Seq(Token), NEW n \in Nat, n <= Len(s),
           NEW v, NEW o, NEW M, NEW sp, NEW sp2,
           StreamOK(s, v, o, M, sp), sp \subseteq sp2
    PROVE  StreamOK(Dropped(s, n), v, o, M, sp2)
  <1> HIDE DEF Dropped
  <1> QED
    BY DropStream DEF StreamOK

\* Nothing is expected of a connection that is not open.
LEMMA StreamClosed ==
    ASSUME NEW s, NEW v, NEW v2, NEW o, NEW M, NEW M2, NEW sp,
           StreamOK(s, v, o, M, sp), o # "open"
    PROVE  StreamOK(s, v2, o, M2, sp)
  BY DEF StreamOK

LEMMA ReaderMono ==
    ASSUME NEW m, NEW s, NEW v, NEW o, NEW o2, NEW q, NEW q2, NEW sp, NEW sp2,
           ReaderOK(m, s, v, o, q, sp), sp \subseteq sp2,
           (o2 = o /\ q2 = q) \/ o2 # "open"
    PROVE  ReaderOK(m, s, v, o2, q2, sp2)
  BY DEF ReaderOK, ExpectsMap, ExpectsPiece, ExpectsIndex, ExpectsAnswer

LEMMA ReaderClosed ==
    ASSUME NEW m, NEW s, NEW v, NEW v2, NEW o, NEW q, NEW q2, NEW sp,
           ReaderOK(m, s, v, o, q, sp), o # "open"
    PROVE  ReaderOK(m, s, v2, o, q2, sp)
  BY DEF ReaderOK, ExpectsMap, ExpectsPiece, ExpectsIndex, ExpectsAnswer

LEMMA DiskMono ==
    ASSUME NEW m, NEW m2, NEW M, NEW M2, NEW S, NEW S2, NEW D, NEW sp, NEW sp2,
           DiskOK(m, M, S, D, sp), sp \subseteq sp2,
           M2 \cup S2 \subseteq M \cup S,
           m2 = m \/ m2.pc \notin {"seek", "write", "cut", "mark"}
    PROVE  DiskOK(m2, M2, S2, D, sp2)
  BY DEF DiskOK

LEMMA PeerMono ==
    ASSUME NEW k, NEW k2, NEW o, NEW o2, NEW B, NEW M, NEW M2,
           PeerOK(k, o, B, M), M \subseteq M2, k2 = k \/ k # "seed",
           o2 = o \/ o2 = "closed" \/ (o = "none" /\ o2 = "open")
    PROVE  PeerOK(k2, o2, B, M2)
  BY DEF PeerOK

\* A thread in state v sends t and is then in state v2.
AnswerOK(t, v, v2, M, sp) ==
    /\ t \in Seq(Token) /\ t # <<>>
    /\ HaveFramed(t) /\ MapsIn(t, M)
    /\ LastIs(t, Word("have")) => v2.pc = "map"
    /\ v.pc = "map" => \E p \in SUBSET Piece : t[1] = Map(p)
    /\ "absent" \notin sp => /\ PieceFramed(t) /\ PieceEnd(t, v2)
                             /\ v.pc = "read" => Whole(t, 0, Head(v.todo))
    /\ sp = {} => AllGood(t)

Sent(s, t, o) == IF o = "open" THEN s \o t ELSE s

LEMMA AnswerStream ==
    ASSUME NEW s \in Seq(Token), NEW t, NEW v, NEW v2, NEW o, NEW M,
           NEW sp, NEW sp2,
           StreamOK(s, v, o, M, sp), AnswerOK(t, v, v2, M, sp2),
           sp \subseteq sp2
    PROVE  StreamOK(Sent(s, t, o), v2, o, M, sp2)
  <1>1. CASE o # "open"
    BY <1>1 DEF StreamOK, Sent
  <1>2. CASE o = "open"
    <2>1. t \in Seq(Token) /\ t # <<>>
      BY DEF AnswerOK
    <2>2. HaveFramed(s) /\ HaveFramed(t)
      BY DEF StreamOK, AnswerOK
    <2>3. LastIs(s, Word("have")) => \E p \in SUBSET Piece : t[1] = Map(p)
      BY <1>2 DEF StreamOK, AnswerOK
    <2>4. HaveFramed(s \o t)
      BY <2>1, <2>2, <2>3, SentStream
    <2>5. MapsIn(s, M) /\ MapsIn(t, M)
      BY <1>2 DEF StreamOK, AnswerOK
    <2>6. MapsIn(s \o t, M)
      BY <2>1, <2>5, SentStream
    <2>7. LastIs(s \o t, Word("have")) => v2.pc = "map"
      <3>1. LastIs(s \o t, Word("have")) => LastIs(t, Word("have"))
        BY <2>1, SentStream
      <3> QED
        BY <3>1 DEF AnswerOK
    <2>8. ASSUME "absent" \notin sp2
          PROVE  PieceFramed(s \o t) /\ PieceEnd(s \o t, v2)
      <3>1. PieceFramed(s) /\ PieceEnd(s, v)
        BY <1>2, <2>8 DEF StreamOK
      <3>2. PieceFramed(t) /\ PieceEnd(t, v2)
        BY <2>8 DEF AnswerOK
      <3>3. \A i \in Piece : LastIs(s, Index(i)) => Whole(t, 0, i)
        BY <3>1, <2>8 DEF PieceEnd, AnswerOK
      <3>4. PieceFramed(s \o t)
        BY <2>1, <3>1, <3>2, <3>3, SentStream
      <3>5. PieceEnd(s \o t, v2)
        BY <2>1, <3>2, SentStream
      <3> QED
        BY <3>4, <3>5
    <2>9. ASSUME sp2 = {}
          PROVE  AllGood(s \o t)
      <3>1. AllGood(s) /\ AllGood(t)
        BY <2>9 DEF StreamOK, AnswerOK
      <3> QED
        BY <2>1, <3>1, SentStream
    <2> QED
      BY <1>2, <2>4, <2>6, <2>7, <2>8, <2>9 DEF StreamOK, Sent
  <1> QED
    BY <1>1, <1>2

LEMMA AnswerReader ==
    ASSUME NEW s \in Seq(Token), NEW t, NEW m, NEW v, NEW v2, NEW o, NEW M,
           NEW q, NEW q2, NEW sp, NEW sp2, m.index \in Piece,
           ReaderOK(m, s, v, o, q, sp), AnswerOK(t, v, v2, M, sp2),
           sp \subseteq sp2
    PROVE  ReaderOK(m, Sent(s, t, o), v2, o, q2, sp2)
  <1>1. CASE o # "open"
    BY <1>1 DEF Sent, ReaderOK, ExpectsMap, ExpectsPiece, ExpectsIndex,
                ExpectsAnswer
  <1>2. CASE o = "open"
    <2> DEFINE r == s \o t
    <2>1. t \in Seq(Token) /\ t # <<>>
      BY DEF AnswerOK
    <2>2. r # <<>> /\ r[1] = IF s = <<>> THEN t[1] ELSE s[1]
      BY <2>1, SentSeq
    <2>3. Whole(s, 0, m.index) => Whole(r, 0, m.index)
      BY <2>1, SentWhole
    <2>4. s = <<>> /\ Whole(t, 0, m.index) => Whole(r, 0, m.index)
      <3>1. s = <<>> => Len(s) = 0
        BY EmptySeq
      <3>2. Whole(t, 0, m.index) => Whole(r, Len(s) + 0, m.index)
        BY <2>1, SentWhole
      <3> QED
        BY <3>1, <3>2
    <2>5. Sent(s, t, o) = r
      BY <1>2 DEF Sent
    <2> HIDE DEF r
    <2>6. ExpectsMap(m, r, v2, o)
      BY <1>2, <2>2 DEF ExpectsMap, ReaderOK, AnswerOK
    <2>7. "absent" \notin sp2 => ExpectsPiece(m, r, v2, o)
      BY <1>2, <2>3, <2>4 DEF ExpectsPiece, ReaderOK, AnswerOK
    <2>8. ExpectsIndex(m, r, v2, o) /\ ExpectsAnswer(m, r, v2, o, q2)
      BY <2>2 DEF ExpectsIndex, ExpectsAnswer
    <2> QED
      BY <2>5, <2>6, <2>7, <2>8 DEF ReaderOK
  <1> QED
    BY <1>1, <1>2
-----------------------------------------------------------------------------
(* The answers of a ServerThread.                                          *)

LEMMA OneToken ==
    ASSUME NEW x \in Token
    PROVE  /\ <<x>> \in Seq(Token) /\ <<x>> # <<>>
           /\ Len(<<x>>) = 1 /\ <<x>>[1] = x
           /\ HaveFramed(<<x>>) /\ PieceFramed(<<x>>)
           /\ \A y : LastIs(<<x>>, y) <=> y = x
           /\ AllGood(<<x>>) <=> (x.t = "byte" => x.good = TRUE)
           /\ \A M : MapsIn(<<x>>, M) <=> (x.t = "map" => x.m \subseteq M)
  <1>1. <<x>> \in Seq(Token) /\ <<x>> # <<>> /\ Len(<<x>>) = 1 /\ <<x>>[1] = x
    OBVIOUS
  <1> DEFINE s == <<x>>
  <1>2. s # <<>> /\ Len(s) = 1 /\ s[1] = x
    BY <1>1
  <1> HIDE DEF s
  <1>3. 1..(Len(s) - 1) = {} /\ 1..Len(s) = {1}
    BY <1>2
  <1>4. HaveFramed(s) /\ PieceFramed(s)
    BY <1>3 DEF HaveFramed, PieceFramed
  <1>5. \A y : LastIs(s, y) <=> y = x
    BY <1>2 DEF LastIs
  <1>6. AllGood(s) <=> (x.t = "byte" => x.good = TRUE)
    BY <1>2, <1>3 DEF AllGood
  <1>7. \A M : MapsIn(s, M) <=> (x.t = "map" => x.m \subseteq M)
    BY <1>2, <1>3 DEF MapsIn
  <1> QED
    BY <1>1, <1>4, <1>5, <1>6, <1>7 DEF s

\* A word that does not announce a map, from a thread that is neither in the
\* middle of a "have" nor of a piece.
LEMMA WordAnswer ==
    ASSUME NEW w \in {"data", "have", "error", "end"}, NEW v, NEW v2, NEW M,
           NEW sp, v.pc \notin {"map", "read"},
           w = "data" => v2.pc = "next", w = "have" => v2.pc = "map"
    PROVE  AnswerOK(<<Word(w)>>, v, v2, M, sp)
  <1> DEFINE x == Word(w)
  <1>1. x \in Token /\ x.t = w
    BY Words
  <1>2. x = Word("data") => w = "data"
    BY Words
  <1>3. x = Word("have") => w = "have"
    BY Words
  <1>4. \A i \in Piece : x # Index(i)
    BY <1>1, Indexes
  <1>5. \A i \in Piece, g \in BOOLEAN : x # Byte(i, PieceLen, g)
    BY <1>1, Bytes
  <1> HIDE DEF x
  <1>6. PieceEnd(<<x>>, v2)
    BY <1>1, <1>2, <1>4, <1>5, OneToken DEF PieceEnd
  <1>7. AllGood(<<x>>) /\ MapsIn(<<x>>, M)
    BY <1>1, OneToken
  <1>8. LastIs(<<x>>, Word("have")) => v2.pc = "map"
    BY <1>1, <1>3, OneToken
  <1>9. AnswerOK(<<x>>, v, v2, M, sp)
    BY <1>1, <1>6, <1>7, <1>8, OneToken DEF AnswerOK
  <1> QED
    BY <1>9 DEF x

LEMMA MapAnswer ==
    ASSUME NEW M \in SUBSET Piece, NEW v, NEW v2, NEW sp, v.pc = "map"
    PROVE  AnswerOK(<<Map(M)>>, v, v2, M, sp)
  <1> DEFINE x == Map(M)
  <1>1. x \in Token /\ x.t = "map" /\ x.m = M
    BY Maps
  <1>2. x # Word("have") /\ x # Word("data")
    BY <1>1, Words
  <1>3. \A i \in Piece : x # Index(i)
    BY <1>1, Indexes
  <1>4. \A i \in Piece, g \in BOOLEAN : x # Byte(i, PieceLen, g)
    BY <1>1, Bytes
  <1>5. \E p \in SUBSET Piece : x = Map(p)
    OBVIOUS
  <1> HIDE DEF x
  <1>6. PieceEnd(<<x>>, v2)
    BY <1>1, <1>2, <1>3, <1>4, OneToken DEF PieceEnd
  <1>7. AllGood(<<x>>) /\ MapsIn(<<x>>, M)
    BY <1>1, OneToken
  <1>8. ~LastIs(<<x>>, Word("have"))
    BY <1>1, <1>2, OneToken
  <1>9. \E p \in SUBSET Piece : <<x>>[1] = Map(p)
    BY <1>1, <1>5, OneToken
  <1>10. AnswerOK(<<x>>, v, v2, M, sp)
    BY <1>1, <1>6, <1>7, <1>8, <1>9, OneToken DEF AnswerOK
  <1> QED
    BY <1>10 DEF x

LEMMA IndexAnswer ==
    ASSUME NEW i \in Piece, NEW v, NEW v2, NEW M, NEW sp,
           v.pc = "next", v2.pc = "read", Head(v2.todo) = i
    PROVE  AnswerOK(<<Index(i)>>, v, v2, M, sp)
  <1> DEFINE x == Index(i)
  <1>1. x \in Token /\ x.t = "index"
    BY Indexes
  <1>2. x # Word("have") /\ x # Word("data")
    BY <1>1, Words
  <1>3. \A j \in Piece : x = Index(j) => j = i
    BY Indexes
  <1>4. \A j \in Piece, g \in BOOLEAN : x # Byte(j, PieceLen, g)
    BY <1>1, Bytes
  <1> HIDE DEF x
  <1>5. PieceEnd(<<x>>, v2)
    BY <1>1, <1>2, <1>3, <1>4, OneToken DEF PieceEnd
  <1>6. AllGood(<<x>>) /\ MapsIn(<<x>>, M)
    BY <1>1, OneToken
  <1>7. ~LastIs(<<x>>, Word("have"))
    BY <1>1, <1>2, OneToken
  <1>8. AnswerOK(<<x>>, v, v2, M, sp)
    BY <1>1, <1>5, <1>6, <1>7, OneToken DEF AnswerOK
  <1> QED
    BY <1>8 DEF x

\* A piece the peer does not have: from here on sp has "absent".
LEMMA AbsentAnswer ==
    ASSUME NEW i \in Piece, NEW v, NEW v2, NEW M, NEW sp,
           v.pc = "next", "absent" \in sp
    PROVE  AnswerOK(<<Index(i), Word("error")>>, v, v2, M, sp)
  <1> DEFINE x == Index(i)
             y == Word("error")
             s == <<x, y>>
  <1>1. x \in Token /\ x.t = "index" /\ y \in Token /\ y.t = "error"
    BY Indexes, Words
  <1>2. x # Word("have") /\ y # Word("have")
    BY <1>1, Words
  <1> HIDE DEF x, y
  <1>3. s \in Seq(Token) /\ s # <<>> /\ Len(s) = 2 /\ s[1] = x /\ s[2] = y
    BY <1>1
  <1> HIDE DEF s
  <1>4. 1..(Len(s) - 1) = {1} /\ 1..Len(s) = {1, 2}
    BY <1>3
  <1>5. HaveFramed(s)
    BY <1>2, <1>3, <1>4 DEF HaveFramed
  <1>6. MapsIn(s, M)
    BY <1>1, <1>3, <1>4 DEF MapsIn
  <1>7. ~LastIs(s, Word("have"))
    BY <1>2, <1>3 DEF LastIs
  <1>8. AnswerOK(s, v, v2, M, sp)
    BY <1>3, <1>5, <1>6, <1>7 DEF AnswerOK
  <1> QED
    BY <1>8 DEF s, x, y

LEMMA PieceBytesSeq ==
    ASSUME NEW i \in Piece, NEW g \in BOOLEAN
    PROVE  /\ PieceBytes(i, g) \in Seq(Token)
           /\ Len(PieceBytes(i, g)) = PieceLen
           /\ \A k \in 1..PieceLen : PieceBytes(i, g)[k] = Byte(i, k, g)
  <1>1. PieceLen \in Nat
    BY ExchangeAssumption
  <1>2. PieceBytes(i, g) = [k \in 1..PieceLen |-> Byte(i, k, g)]
    BY DEF PieceBytes
  <1>3. \A k \in 1..PieceLen : Byte(i, k, g) \in Token
    BY Bytes
  <1> QED
    BY <1>1, <1>2, <1>3, IsASeq

\* A piece, read at once; it is good if the file was there and right.
LEMMA PieceAnswer ==
    ASSUME NEW i \in Piece, NEW g \in BOOLEAN, NEW v, NEW v2, NEW M, NEW sp,
           v.pc = "read", Head(v.todo) = i, v2.pc = "next",
           sp = {} => g = TRUE
    PROVE  AnswerOK(PieceBytes(i, g), v, v2, M, sp)
  <1> DEFINE s == PieceBytes(i, g)
  <1>1. PieceLen \in Nat /\ PieceLen >= 1
    BY ExchangeAssumption
  <1>2. s \in Seq(Token) /\ Len(s) = PieceLen
    BY PieceBytesSeq
  <1>3. \A k \in 1..PieceLen : s[k] = Byte(i, k, g)
    BY PieceBytesSeq
  <1>4. \A k \in 1..PieceLen : s[k].t = "byte" /\ s[k].good = g
    BY <1>3, Bytes
  <1> HIDE DEF s
  <1>5. s # <<>>
    BY <1>1, <1>2, EmptySeq
  <1>6. \A k \in 1..PieceLen : s[k] # Word("have") /\ s[k] # Word("data")
    BY <1>4, Words
  <1>7. \A k \in 1..PieceLen : \A j \in Piece : s[k] # Index(j)
    BY <1>4, Indexes
  <1>8. \A k \in 1..PieceLen : \A p \in SUBSET Piece : s[k] # Map(p)
    BY <1>4, Maps
  <1>9. PieceLen \in 1..PieceLen /\ 1..(Len(s) - 1) \subseteq 1..PieceLen
    BY <1>1, <1>2
  <1>10. HaveFramed(s)
    BY <1>6, <1>9 DEF HaveFramed
  <1>11. PieceFramed(s)
    BY <1>7, <1>9 DEF PieceFramed
  <1>12. MapsIn(s, M)
    BY <1>2, <1>4 DEF MapsIn
  <1>13. sp = {} => AllGood(s)
    BY <1>2, <1>4 DEF AllGood
  <1>14. ~LastIs(s, Word("have")) /\ ~LastIs(s, Word("data"))
    BY <1>2, <1>6, <1>9 DEF LastIs
  <1>15. \A j \in Piece : ~LastIs(s, Index(j))
    BY <1>2, <1>7, <1>9 DEF LastIs
  <1>16. PieceEnd(s, v2)
    BY <1>14, <1>15 DEF PieceEnd
  <1>17. Whole(s, 0, i)
    <2>1. 0 + PieceLen <= Len(s)
      BY <1>1, <1>2
    <2>2. \A k \in 1..PieceLen : s[0 + k] = Byte(i, k, g)
      BY <1>3
    <2> QED
      BY <2>1, <2>2 DEF Whole
  <1>18. v.pc # "map"
    OBVIOUS
  <1>19. AnswerOK(s, v, v2, M, sp)
    BY <1>2, <1>5, <1>10, <1>11, <1>12, <1>13, <1>14, <1>16, <1>17, <1>18
       DEF AnswerOK
  <1> QED
    BY <1>19 DEF s
-----------------------------------------------------------------------------
(* Updates of the state, and what they leave alone.                        *)

LEMMA Update1 ==
    ASSUME NEW T, NEW f \in [Client -> T], NEW c \in Client, NEW x \in T
    PROVE  /\ [f EXCEPT ![c] = x] \in [Client -> T]
           /\ [f EXCEPT ![c] = x][c] = x
           /\ \A a \in Client : a # c => [f EXCEPT ![c] = x][a] = f[a]
  OBVIOUS

LEMMA Update2 ==
    ASSUME NEW T, NEW f \in [Client -> [Client -> T]],
           NEW c \in Client, NEW d \in Client, NEW x \in T
    PROVE  /\ [f EXCEPT ![c][d] = x] \in [Client -> [Client -> T]]
           /\ [f EXCEPT ![c][d] = x][c][d] = x
           /\ \A a, b \in Client : a # c \/ b # d =>
                  [f EXCEPT ![c][d] = x][a][b] = f[a][b]
  OBVIOUS

LEMMA UpdateThread ==
    ASSUME NEW f \in [Client -> [Client -> Thread]],
           NEW c \in Client, NEW d \in Client, NEW x \in Thread,
           NEW p, x = [f[c][d] EXCEPT !.pc = p]
    PROVE  [f EXCEPT ![c][d].pc = p] = [f EXCEPT ![c][d] = x]
  OBVIOUS

LEMMA RequestFacts ==
    /\ \A r \in Request : r.op \in {"getpieces", "have", "error"}
                          /\ r.parts \in Seq(Piece)
    /\ \A s \in Parts : [op |-> "getpieces", parts |-> s] \in Request
                        /\ s \in Seq(Piece)
    /\ \A w \in {"have", "error"} : [op |-> w, parts |-> <<>>] \in Request
  <1>1. \A s \in Parts : s \in Seq(Piece)
    <2> SUFFICES ASSUME NEW s \in Parts
                 PROVE  s \in Seq(Piece)
      OBVIOUS
    <2>1. PICK n \in 1..MaxParts : s \in [1..n -> Piece]
      BY DEF Parts
    <2>2. n \in Nat
      BY <2>1, ExchangeAssumption
    <2> QED
      BY <2>1, <2>2
  <1>2. <<>> \in Seq(Piece)
    OBVIOUS
  <1> HIDE DEF Parts, Piece
  <1>3. ASSUME NEW r \in Request
        PROVE  r.op \in {"getpieces", "have", "error"} /\ r.parts \in Seq(Piece)
    <2>1. CASE r \in {[op |-> "getpieces", parts |-> s] : s \in Parts}
      <3>1. PICK s \in Parts : r = [op |-> "getpieces", parts |-> s]
        BY <2>1
      <3>2. r.op = "getpieces" /\ r.parts = s
        BY <3>1
      <3> QED
        BY <1>1, <3>2
    <2>2. CASE r \in {[op |-> w, parts |-> <<>>] : w \in {"have", "error"}}
      <3>1. PICK w \in {"have", "error"} : r = [op |-> w, parts |-> <<>>]
        BY <2>2
      <3>2. r.op = w /\ r.parts = <<>>
        BY <3>1
      <3> QED
        BY <1>2, <3>1, <3>2
    <2> QED
      BY <2>1, <2>2 DEF Request
  <1>4. \A s \in Parts : [op |-> "getpieces", parts |-> s] \in Request
    BY DEF Request
  <1>5. \A w \in {"have", "error"} : [op |-> w, parts |-> <<>>] \in Request
    BY DEF Request
  <1> QED
    BY <1>1, <1>3, <1>4, <1>5

LEMMA StreamFrame ==
    ASSUME IInv, NEW a \in Client, NEW b \in Client,
           ans'[a][b] = ans[a][b], srv'[b][a] = srv[b][a],
           con'[a][b] = con[a][b], up'[a] = up[a], up'[b] = up[b],
           marked[b] \subseteq marked'[b], spoiled \subseteq spoiled'
    PROVE  StreamAt(a, b)'
  <1>1. StreamAt(a, b)
    BY DEF IInv
  <1>2. StreamOK(ans[a][b], srv[b][a], con[a][b], marked'[b], spoiled')
    BY <1>1, StreamMono DEF StreamAt
  <1>3. ServeOK(srv[b][a], marked'[b])
    BY <1>1 DEF StreamAt, ServeOK
  <1> QED
    BY <1>1, <1>2, <1>3 DEF StreamAt, ConOK

LEMMA PeerFrame ==
    ASSUME IInv, NEW a \in Client, NEW b \in Client,
           known'[a] = known[a] \/ known[a] # "seed",
           con'[a][b] = con[a][b], peerMap'[a][b] = peerMap[a][b],
           marked[b] \subseteq marked'[b]
    PROVE  PeerAt(a, b)'
  <1>1. PeerAt(a, b)
    BY DEF IInv
  <1> QED
    BY <1>1 DEF PeerAt, PeerOK

LEMMA ReaderFrame ==
    ASSUME IInv, NEW a \in Client, NEW b \in Client,
           main'[a] = main[a],
           ans'[a][b] = ans[a][b], srv'[b][a] = srv[b][a],
           con'[a][b] = con[a][b], req'[a][b] = req[a][b],
           spoiled \subseteq spoiled'
    PROVE  ReaderOf(a, b)'
  <1>1. ReaderOf(a, b)
    BY DEF IInv
  <1>2. SUFFICES ASSUME Busy(main[a]), main[a].peer = b
                 PROVE  ReaderOK(main[a], ans[a][b], srv[b][a], con[a][b],
                                 req[a][b], spoiled')
    BY DEF ReaderOf, Busy
  <1>3. ReaderOK(main[a], ans[a][b], srv[b][a], con[a][b], req[a][b], spoiled)
    BY <1>1, <1>2 DEF ReaderOf
  <1> QED
    BY <1>3, ReaderMono

LEMMA DiskFrame ==
    ASSUME IInv, NEW a \in Client,
           \/ main'[a] = main[a]
           \/ main'[a].pc \notin {"seek", "write", "cut", "mark"},
           marked'[a] = marked[a], ser'[a] = ser[a], disk'[a] = disk[a],
           known'[a] = known[a], spoiled \subseteq spoiled'
    PROVE  DiskAt(a)'
  <1>1. DiskAt(a)
    BY DEF IInv
  <1>2. DiskOK(main'[a], marked[a], ser[a].marked, disk[a], spoiled')
    BY <1>1, DiskMono DEF DiskAt
  <1> QED
    BY <1>1, <1>2 DEF DiskAt

\* A thread of d sends t to c.
LEMMA AnswerSent ==
    ASSUME Types, NEW c \in Client, NEW d \in Client, NEW t \in Seq(Token),
           Answer(d, c, t)
    PROVE  /\ ans' \in [Client -> [Client -> Seq(Token)]]
           /\ ans'[c][d] = Sent(ans[c][d], t, con[c][d])
           /\ \A a, b \in Client : a # c \/ b # d => ans'[a][b] = ans[a][b]
  <1>1. ans \in [Client -> [Client -> Seq(Token)]]
    BY DEF Types, ConTypes
  <1>2. CASE con[c][d] = "open"
    <2>1. ans' = [ans EXCEPT ![c][d] = ans[c][d] \o t]
      BY <1>1, <1>2 DEF Answer
    <2>2. ans[c][d] \o t \in Seq(Token)
      BY <1>1, ConcatProperties
    <2> HIDE DEF Token
    <2> QED
      BY <1>1, <1>2, <2>1, <2>2, Update2 DEF Sent
  <1>3. CASE con[c][d] # "open"
    BY <1>1, <1>3 DEF Answer, Sent
  <1> QED
    BY <1>2, <1>3

\* Every step of a thread that answers, whatever it answers.
LEMMA AnswerStep ==
    ASSUME IInv, NEW c \in Client, NEW d \in Client, NEW t, NEW v2 \in Thread,
           up[d], AnswerOK(t, srv[d][c], v2, marked[d], spoiled'),
           v2.pc # "none", srv[d][c].pc # "none", ServeOK(v2, marked[d]),
           Answer(d, c, t), srv' = [srv EXCEPT ![d][c] = v2],
           req' \in [Client -> [Client -> Seq(Request)]],
           \A a, b \in Client : a # c \/ b # d => req'[a][b] = req[a][b],
           pos' \in [Client -> Offset],
           spoiled \subseteq spoiled',
           spoiled' \subseteq {"short", "absent", "seek"},
           UNCHANGED <<diskVars, up, marked, peerMap, main, con, bounds>>
    PROVE  IInv'
  <1>1. Types
    BY DEF IInv
  <1>2. t \in Seq(Token)
    BY DEF AnswerOK
  <1>3. /\ UNCHANGED <<known, disk, ser>> /\ UNCHANGED <<up, marked, peerMap>>
         /\ UNCHANGED <<main, con>>
    BY DEF diskVars
  <1>4. /\ ans' \in [Client -> [Client -> Seq(Token)]]
        /\ ans'[c][d] = Sent(ans[c][d], t, con[c][d])
        /\ \A a, b \in Client : a # c \/ b # d => ans'[a][b] = ans[a][b]
    BY <1>1, <1>2, AnswerSent
  <1>5. /\ srv' \in [Client -> [Client -> Thread]]
        /\ srv'[d][c] = v2
        /\ \A a, b \in Client : a # d \/ b # c => srv'[a][b] = srv[a][b]
    <2> HIDE DEF Thread
    <2>1. srv \in [Client -> [Client -> Thread]]
      BY <1>1 DEF Types, ConTypes
    <2> QED
      BY <2>1, Update2
  <1>6. Types'
    BY <1>1, <1>4, <1>5 DEF Types, DiskTypes, ProcTypes, MainTypes, ConTypes,
                            BoundTypes, diskVars, bounds, Busy
  <1>7. ASSUME NEW a \in Client
        PROVE  DiskAt(a)'
    BY DiskFrame DEF diskVars
  <1>8. ASSUME NEW a \in Client, NEW b \in Client
        PROVE  StreamAt(a, b)'
    <2>1. CASE a # c \/ b # d
      <3>1. ans'[a][b] = ans[a][b] /\ srv'[b][a] = srv[b][a]
        BY <1>4, <1>5, <2>1, ZenonT(40)
      <3> QED
        BY <1>3, <3>1, StreamFrame
    <2>2. CASE a = c /\ b = d
      <3>1. StreamAt(c, d)
        BY DEF IInv
      <3>2. ans[c][d] \in Seq(Token)
        BY <1>1 DEF Types, ConTypes
      <3>3. StreamOK(ans[c][d], srv[d][c], con[c][d], marked[d], spoiled)
        BY <3>1 DEF StreamAt
      <3>4. StreamOK(Sent(ans[c][d], t, con[c][d]), v2, con[c][d],
                     marked[d], spoiled')
        BY <3>3, <3>2, AnswerStream
      <3>5. StreamOK(ans'[c][d], v2, con[c][d], marked[d], spoiled')
        BY <1>4, <3>4
      <3>6. ConOK(con[c][d], ans'[c][d], v2, up[c], up[d])
        BY <1>4, <3>1 DEF StreamAt, ConOK, Sent
      <3>7. /\ srv'[d][c] = v2 /\ con'[c][d] = con[c][d] /\ up'[c] = up[c]
            /\ up'[d] = up[d] /\ marked'[d] = marked[d]
        BY <1>5, <1>3
      <3> QED
        BY <2>2, <3>5, <3>6, <3>7 DEF StreamAt
    <2> QED
      BY <2>1, <2>2
  <1>9. ASSUME NEW a \in Client, NEW b \in Client
        PROVE  PeerAt(a, b)'
    BY PeerFrame DEF diskVars
  <1>10. ASSUME NEW a \in Client, NEW b \in Client
        PROVE  ReaderOf(a, b)'
    <2>1. CASE a # c \/ b # d
      <3>1. ans'[a][b] = ans[a][b]
        BY <1>4, <2>1
      <3>2. srv'[b][a] = srv[b][a]
        BY <1>5, <2>1
      <3>3. req'[a][b] = req[a][b]
        BY <2>1
      <3>4. main'[a] = main[a] /\ con'[a][b] = con[a][b]
        BY <1>3
      <3> QED
        BY <3>1, <3>2, <3>3, <3>4, ReaderFrame
    <2>2. CASE a = c /\ b = d
      <3>1. ReaderOf(c, d)
        BY DEF IInv
      <3>2. ans[c][d] \in Seq(Token) /\ main[c].index \in Piece
        BY <1>1 DEF Types, ConTypes, MainTypes, MainState
      <3>3. SUFFICES ASSUME Busy(main[c]), main[c].peer = d
                     PROVE  ReaderOK(main[c], ans'[c][d], v2, con[c][d],
                                     req'[c][d], spoiled')
        BY <1>5, <2>2 DEF ReaderOf, Busy
      <3>4. ReaderOK(main[c], ans[c][d], srv[d][c], con[c][d], req[c][d],
                     spoiled)
        BY <3>1, <3>3 DEF ReaderOf
      <3>5. ReaderOK(main[c], Sent(ans[c][d], t, con[c][d]), v2, con[c][d],
                     req'[c][d], spoiled')
        BY <3>2, <3>4, AnswerReader
      <3> QED
        BY <1>4, <3>5
    <2> QED
      BY <2>1, <2>2
  <1> QED
    BY <1>6, <1>7, <1>8, <1>9, <1>10 DEF IInv
-----------------------------------------------------------------------------
(* The steps of a ServerThread.                                            *)

LEMMA SetPc ==
    ASSUME Types, NEW c \in Client, NEW d \in Client,
           NEW p \in {"none", "wait", "map", "next", "read", "dead"},
           srv' = [srv EXCEPT ![d][c].pc = p]
    PROVE  \E v2 \in Thread : /\ v2.pc = p /\ v2.todo = srv[d][c].todo
                              /\ srv' = [srv EXCEPT ![d][c] = v2]
  <1>1. srv \in [Client -> [Client -> Thread]] /\ srv[d][c] \in Thread
    BY DEF Types, ConTypes
  <1> DEFINE x == [srv[d][c] EXCEPT !.pc = p]
  <1>2. x \in Thread /\ x.pc = p /\ x.todo = srv[d][c].todo
    BY <1>1 DEF Thread
  <1>3. srv' = [srv EXCEPT ![d][c] = x]
    BY <1>1, <1>2, UpdateThread
  <1> QED
    BY <1>2, <1>3

LEMMA ThreadTodo ==
    ASSUME NEW x \in Thread, NEW t \in Seq(Piece)
    PROVE  [x EXCEPT !.todo = t] = [pc |-> x.pc, todo |-> t]
  BY DEF Thread

LEMMA SpoiledTypes ==
    ASSUME Types
    PROVE  /\ spoiled \subseteq {"short", "absent", "seek"}
           /\ pos \in [Client -> Offset]
           /\ req \in [Client -> [Client -> Seq(Request)]]
  BY DEF Types, BoundTypes, ProcTypes, ConTypes

LEMMA ServeMapInv ==
    ASSUME IInv, NEW c \in Client, NEW d \in Client, ServeMap(d, c)
    PROVE  IInv'
  <1>1. Types
    BY DEF IInv
  <1>2. PICK v2 \in Thread : /\ v2.pc = "wait" /\ v2.todo = srv[d][c].todo
                             /\ srv' = [srv EXCEPT ![d][c] = v2]
    <2>1. srv' = [srv EXCEPT ![d][c].pc = "wait"]
      BY DEF ServeMap
    <2> QED
      BY <1>1, <2>1, SetPc, ZenonT(40)
  <1>3. up[d] /\ srv[d][c].pc = "map" /\ marked[d] \in SUBSET Piece
    BY <1>1 DEF ServeMap, Serving, Types, ProcTypes
  <1>4. AnswerOK(<<Map(marked[d])>>, srv[d][c], v2, marked[d], spoiled)
    BY <1>3, MapAnswer
  <1>5. /\ UNCHANGED <<diskVars, up, marked, peerMap, main, con, bounds>>
        /\ UNCHANGED <<req, pos, spoiled>>
        /\ Answer(d, c, <<Map(marked[d])>>)
    BY DEF ServeMap, procVars
  <1>6. ServeOK(v2, marked[d])
    BY <1>2 DEF ServeOK
  <1> QED
    BY <1>1, <1>2, <1>3, <1>4, <1>5, <1>6, SpoiledTypes, AnswerStep

LEMMA ServeEndInv ==
    ASSUME IInv, NEW c \in Client, NEW d \in Client, ServeEnd(d, c)
    PROVE  IInv'
  <1>1. Types
    BY DEF IInv
  <1>2. PICK v2 \in Thread : /\ v2.pc = "wait" /\ v2.todo = srv[d][c].todo
                             /\ srv' = [srv EXCEPT ![d][c] = v2]
    <2>1. srv' = [srv EXCEPT ![d][c].pc = "wait"]
      BY DEF ServeEnd
    <2> QED
      BY <1>1, <2>1, SetPc, ZenonT(40)
  <1>3. up[d] /\ srv[d][c].pc = "next"
    BY DEF ServeEnd, Serving
  <1>4. AnswerOK(<<Word("end")>>, srv[d][c], v2, marked[d], spoiled)
    BY <1>3, WordAnswer
  <1>5. /\ UNCHANGED <<diskVars, up, marked, peerMap, main, con, bounds>>
        /\ UNCHANGED <<req, pos, spoiled>>
        /\ Answer(d, c, <<Word("end")>>)
    BY DEF ServeEnd, procVars
  <1>6. ServeOK(v2, marked[d])
    BY <1>2 DEF ServeOK
  <1> QED
    BY <1>1, <1>2, <1>3, <1>4, <1>5, <1>6, SpoiledTypes, AnswerStep

LEMMA ServeIndexInv ==
    ASSUME IInv, NEW c \in Client, NEW d \in Client, ServeIndex(d, c)
    PROVE  IInv'
  <1>1. Types
    BY DEF IInv
  <1> DEFINE i == Head(srv[d][c].todo)
  <1>2. /\ srv[d][c].todo \in Seq(Piece) /\ srv[d][c].todo # <<>>
        /\ up[d] /\ srv[d][c].pc = "next"
    BY <1>1 DEF ServeIndex, Serving, Types, ConTypes, Thread
  <1>3. i \in Piece
    BY <1>2, HeadTailProperties
  <1>4. i \in Offset
    BY <1>3, ExchangeAssumption DEF Piece, Offset
  <1>5. UNCHANGED <<diskVars, up, marked, peerMap, main, con, bounds>>
          /\ UNCHANGED req
    BY DEF ServeIndex
  <1>6. /\ spoiled \subseteq {"short", "absent", "seek"}
        /\ pos \in [Client -> Offset]
        /\ req \in [Client -> [Client -> Seq(Request)]]
    BY <1>1, SpoiledTypes
  <1>7. ASSUME i \in marked[d], Answer(d, c, <<Index(i)>>),
               pos' = [pos EXCEPT ![d] = i],
               srv' = [srv EXCEPT ![d][c].pc = "read"], UNCHANGED spoiled
        PROVE  IInv'
    <2>1. PICK v2 \in Thread : /\ v2.pc = "read" /\ v2.todo = srv[d][c].todo
                               /\ srv' = [srv EXCEPT ![d][c] = v2]
      BY <1>1, <1>7, SetPc, ZenonT(40)
    <2>2. AnswerOK(<<Index(i)>>, srv[d][c], v2, marked[d], spoiled)
      BY <1>2, <1>3, <2>1, IndexAnswer
    <2>3. ServeOK(v2, marked[d])
      BY <1>2, <1>7, <2>1 DEF ServeOK
    <2>4. pos' \in [Client -> Offset]
      BY <1>4, <1>6, <1>7
    <2> HIDE DEF i
    <2> QED
      BY <1>2, <1>5, <1>6, <1>7, <2>1, <2>2, <2>3, <2>4, AnswerStep
  <1>8. ASSUME Answer(d, c, <<Index(i), Word("error")>>),
               srv' = [srv EXCEPT ![d][c].todo = Tail(@)],
               spoiled' = spoiled \cup {"absent"}, UNCHANGED pos
        PROVE  IInv'
    <2> DEFINE v2 == [pc |-> "next", todo |-> Tail(srv[d][c].todo)]
    <2>1. srv[d][c] \in Thread /\ srv \in [Client -> [Client -> Thread]]
      BY <1>1 DEF Types, ConTypes
    <2>2. Tail(srv[d][c].todo) \in Seq(Piece)
      BY <1>2, HeadTailProperties
    <2>3. v2 \in Thread /\ v2.pc = "next"
      BY <2>2 DEF Thread
    <2>4. [srv[d][c] EXCEPT !.todo = Tail(srv[d][c].todo)] = v2
      BY <1>2, <2>1, <2>2, ThreadTodo
    <2>5. srv' = [srv EXCEPT ![d][c] = v2]
      BY <1>8, <2>1, <2>4
    <2>6. AnswerOK(<<Index(i), Word("error")>>, srv[d][c], v2, marked[d],
                   spoiled')
      BY <1>2, <1>3, <1>8, AbsentAnswer
    <2> HIDE DEF v2
    <2>7. ServeOK(v2, marked[d])
      BY <2>3 DEF ServeOK
    <2>8. spoiled \subseteq spoiled'
            /\ spoiled' \subseteq {"short", "absent", "seek"}
      BY <1>6, <1>8
    <2>9. /\ pos' \in [Client -> Offset]
          /\ req' \in [Client -> [Client -> Seq(Request)]]
          /\ \A a, b \in Client : a # c \/ b # d => req'[a][b] = req[a][b]
      BY <1>5, <1>6, <1>8
    <2>10. up[d] /\ v2.pc # "none" /\ srv[d][c].pc # "none"
      BY <1>2, <2>3
    <2> HIDE DEF i
    <2> QED
      BY <1>5, <1>8, <2>3, <2>5, <2>6, <2>7, <2>8, <2>9, <2>10, AnswerStep
  <1> QED
    BY <1>7, <1>8 DEF ServeIndex

LEMMA ServePieceInv ==
    ASSUME IInv, NEW c \in Client, NEW d \in Client, ServePiece(d, c)
    PROVE  IInv'
  <1>1. Types /\ DiskAt(d) /\ StreamAt(c, d)
    BY DEF IInv
  <1> DEFINE i == Head(srv[d][c].todo)
             o == pos[d]
             g == (o = i /\ disk[d][o] = "right")
             v2 == [pc |-> "next", todo |-> Tail(srv[d][c].todo)]
  <1>2. /\ srv[d][c].todo \in Seq(Piece) /\ srv[d][c] \in Thread
        /\ up[d] /\ srv[d][c].pc = "read"
    BY <1>1 DEF ServePiece, Serving, Types, ConTypes, Thread
  <1>3. srv[d][c].todo # <<>> /\ i \in marked[d]
    BY <1>1, <1>2 DEF StreamAt, ServeOK
  <1>4. i \in Piece /\ Tail(srv[d][c].todo) \in Seq(Piece)
    BY <1>2, <1>3, HeadTailProperties
  <1>5. UNCHANGED <<diskVars, up, marked, peerMap, main, con, bounds>>
          /\ UNCHANGED req
    BY DEF ServePiece
  <1>6. /\ spoiled \subseteq {"short", "absent", "seek"}
        /\ pos \in [Client -> Offset]
        /\ req \in [Client -> [Client -> Seq(Request)]]
    BY <1>1, SpoiledTypes
  <1>7. /\ Answer(d, c, PieceBytes(i, g))
        /\ spoiled' = IF o # i THEN spoiled \cup {"seek"} ELSE spoiled
        /\ pos' = [pos EXCEPT ![d] = Beyond(o)]
        /\ srv' = [srv EXCEPT ![d][c] =
                       [pc |-> "next", todo |-> Tail(srv[d][c].todo)]]
    <2>1. srv \in [Client -> [Client -> Thread]]
      BY <1>1 DEF Types, ConTypes
    <2> QED
      BY <2>1 DEF ServePiece
  <1>8. Beyond(o) \in Offset
    <2>1. o \in Offset
      BY <1>6
    <2> QED
      BY <2>1, ExchangeAssumption DEF Beyond, Piece, Offset
  <1>9. v2 \in Thread /\ v2.pc = "next"
    BY <1>4 DEF Thread
  <1>10. g \in BOOLEAN
    OBVIOUS
  <1>11. spoiled \subseteq spoiled'
            /\ spoiled' \subseteq {"short", "absent", "seek"}
    BY <1>6, <1>7
  <1>12. spoiled' = {} => g = TRUE
    <2>1. ASSUME spoiled' = {}
          PROVE  o = i /\ disk[d][o] = "right"
      <3>1. spoiled = {} /\ o = i
        BY <1>7, <2>1
      <3>2. \A p \in marked[d] : disk[d][p] = "right"
        BY <1>1, <3>1 DEF DiskAt, DiskOK
      <3> QED
        BY <1>3, <3>1, <3>2
    <2> QED
      BY <2>1
  <1>13. pos' \in [Client -> Offset]
    BY <1>6, <1>7, <1>8
  <1> HIDE DEF g
  <1>14. AnswerOK(PieceBytes(i, g), srv[d][c], v2, marked[d], spoiled')
    BY <1>2, <1>4, <1>9, <1>10, <1>12, PieceAnswer
  <1>15. srv' = [srv EXCEPT ![d][c] = v2]
    BY <1>7
  <1> HIDE DEF v2, i, o
  <1>16. ServeOK(v2, marked[d]) /\ v2.pc # "none" /\ srv[d][c].pc # "none"
    BY <1>2, <1>9 DEF ServeOK
  <1>17. /\ req' \in [Client -> [Client -> Seq(Request)]]
         /\ \A a, b \in Client : a # c \/ b # d => req'[a][b] = req[a][b]
    BY <1>5, <1>6
  <1>18. Answer(d, c, PieceBytes(i, g)) /\ up[d]
    BY <1>2, <1>7
  <1> QED
    BY <1>5, <1>9, <1>11, <1>13, <1>14, <1>15, <1>16, <1>17, <1>18, AnswerStep

\* A request that is only taken off the queue was not the last question.
LEMMA TailAsked ==
    ASSUME NEW q \in Seq(Request), q # <<>>, Head(q).op = "error",
           q[Len(q)].op # "error"
    PROVE  Tail(q) # <<>> /\ Tail(q)[Len(Tail(q))].op # "error"
  <1>1. Len(q) \in Nat /\ Len(q) # 0
    BY EmptySeq
  <1>2. Head(q) = q[1]
    BY HeadTailProperties
  <1>3. Len(q) # 1
    BY <1>2
  <1>4. /\ Tail(q) \in Seq(Request) /\ Len(Tail(q)) = Len(q) - 1
        /\ \A i \in 1..Len(Tail(q)) : Tail(q)[i] = q[i + 1]
    BY HeadTailProperties
  <1>5. Len(Tail(q)) \in 1..Len(Tail(q)) /\ Len(Tail(q)) + 1 = Len(q)
    BY <1>1, <1>3, <1>4
  <1>6. Tail(q) # <<>>
    <2>1. Len(Tail(q)) # 0
      BY <1>1, <1>3, <1>4
    <2> QED
      BY <1>4, <2>1, EmptySeq, Zenon
  <1> QED
    BY <1>4, <1>5, <1>6

LEMMA ServeRequestInv ==
    ASSUME IInv, NEW c \in Client, NEW d \in Client, ServeRequest(d, c)
    PROVE  IInv'
  <1>1. Types
    BY DEF IInv
  <1> DEFINE r == Head(req[c][d])
             v == srv[d][c]
  <1>2. /\ req \in [Client -> [Client -> Seq(Request)]]
        /\ srv \in [Client -> [Client -> Thread]]
        /\ spoiled \subseteq {"short", "absent", "seek"}
        /\ pos \in [Client -> Offset]
    BY <1>1 DEF Types, ConTypes, BoundTypes, ProcTypes
  <1>3. req[c][d] \in Seq(Request) /\ req[c][d] # <<>>
    BY <1>2 DEF ServeRequest
  <1>4. r \in Request /\ Tail(req[c][d]) \in Seq(Request)
    BY <1>3, HeadTailProperties
  <1>5. req' = [req EXCEPT ![c][d] = Tail(req[c][d])]
    BY <1>2 DEF ServeRequest
  <1>6. /\ req' \in [Client -> [Client -> Seq(Request)]]
        /\ req'[c][d] = Tail(req[c][d])
        /\ \A a, b \in Client : a # c \/ b # d => req'[a][b] = req[a][b]
    <2> HIDE DEF Request
    <2> QED
      BY <1>2, <1>4, <1>5, Update2
  <1>7. /\ UNCHANGED <<diskVars, up, marked, peerMap, main, con, bounds>>
        /\ UNCHANGED <<pos, spoiled>> /\ pos' \in [Client -> Offset]
    BY <1>2 DEF ServeRequest, procVars
  <1>8. up[d] /\ v.pc = "wait"
    BY DEF ServeRequest, Serving
  <1>9. r.parts \in Seq(Piece)
    BY <1>4, RequestFacts
  \* the three answers
  <1>10. ASSUME NEW w \in {"data", "have", "error", "end"}, NEW v2 \in Thread,
                w = "data" => v2.pc = "next", w = "have" => v2.pc = "map",
                v2.pc \notin {"none", "read"}, Answer(d, c, <<Word(w)>>),
                srv' = [srv EXCEPT ![d][c] = v2]
         PROVE  IInv'
    <2>1. AnswerOK(<<Word(w)>>, srv[d][c], v2, marked[d], spoiled')
      BY <1>8, <1>10, WordAnswer
    <2>2. ServeOK(v2, marked[d])
      BY <1>10 DEF ServeOK
    <2>3. up[d] /\ srv[d][c].pc # "none" /\ v2.pc # "none"
      BY <1>8, <1>10
    <2>4. spoiled \subseteq spoiled'
            /\ spoiled' \subseteq {"short", "absent", "seek"}
      BY <1>2, <1>7
    <2> HIDE DEF r, v
    <2> QED
      BY <1>6, <1>7, <1>10, <2>1, <2>2, <2>3, <2>4, AnswerStep
  <1>11. ASSUME r.op # "error", Answer(d, c, <<Word("error")>>),
                srv' = [srv EXCEPT ![d][c].pc = "dead"]
         PROVE  IInv'
    <2>1. PICK v2 \in Thread : /\ v2.pc = "dead" /\ v2.todo = srv[d][c].todo
                               /\ srv' = [srv EXCEPT ![d][c] = v2]
      BY <1>1, <1>11, SetPc, ZenonT(40)
    <2> QED
      BY <1>10, <1>11, <2>1
  <1>12. ASSUME Answer(d, c, <<Word("data")>>),
                srv' = [srv EXCEPT ![d][c] = [pc |-> "next", todo |-> r.parts]]
         PROVE  IInv'
    <2> DEFINE v2 == [pc |-> "next", todo |-> r.parts]
    <2>1. v2 \in Thread /\ v2.pc = "next"
      BY <1>9 DEF Thread
    <2>2. srv' = [srv EXCEPT ![d][c] = v2]
      BY <1>12
    <2> HIDE DEF v2
    <2> QED
      BY <1>10, <1>12, <2>1, <2>2
  <1>13. ASSUME Answer(d, c, <<Word("have")>>),
                srv' = [srv EXCEPT ![d][c].pc = "map"]
         PROVE  IInv'
    <2>1. PICK v2 \in Thread : /\ v2.pc = "map" /\ v2.todo = srv[d][c].todo
                               /\ srv' = [srv EXCEPT ![d][c] = v2]
      BY <1>1, <1>13, SetPc, ZenonT(40)
    <2> QED
      BY <1>10, <1>13, <2>1
  <1>14. ASSUME r.op = "error", UNCHANGED <<ans, srv>>
         PROVE  IInv'
    <2>1. /\ UNCHANGED <<known, disk, ser>> /\ UNCHANGED <<up, marked, peerMap>>
          /\ UNCHANGED <<main, con>>
      BY <1>7 DEF diskVars
    <2>2. Types'
      BY <1>1, <1>6, <1>7, <1>14, <2>1
         DEF Types, DiskTypes, ProcTypes, MainTypes, ConTypes, BoundTypes,
             bounds, Busy
    <2>3. ASSUME NEW a \in Client
          PROVE  DiskAt(a)'
      BY <1>7, <2>1, DiskFrame
    <2>4. ASSUME NEW a \in Client, NEW b \in Client
          PROVE  StreamAt(a, b)' /\ PeerAt(a, b)'
      BY <1>7, <1>14, <2>1, StreamFrame, PeerFrame
    <2>5. ASSUME NEW a \in Client, NEW b \in Client
          PROVE  ReaderOf(a, b)'
      <3>1. CASE a # c \/ b # d
        <4>1. req'[a][b] = req[a][b]
          BY <1>6, <3>1
        <4> QED
          BY <1>7, <1>14, <2>1, <4>1, ReaderFrame
      <3>2. CASE a = c /\ b = d
        <4>1. ReaderOf(c, d)
          BY DEF IInv
        <4>2. SUFFICES ASSUME Busy(main[c]), main[c].peer = d
                       PROVE  ReaderOK(main[c], ans[c][d], v, con[c][d],
                                       Tail(req[c][d]), spoiled)
          BY <1>6, <1>7, <1>14, <2>1, <3>2 DEF ReaderOf, Busy
        <4>3. ReaderOK(main[c], ans[c][d], v, con[c][d], req[c][d], spoiled)
          BY <4>1, <4>2 DEF ReaderOf
        <4>4. ExpectsAnswer(main[c], ans[c][d], v, con[c][d], req[c][d]) =>
                  ExpectsAnswer(main[c], ans[c][d], v, con[c][d],
                                Tail(req[c][d]))
          BY <1>3, <1>14, TailAsked DEF ExpectsAnswer
        <4> QED
          BY <4>3, <4>4 DEF ReaderOK
      <3> QED
        BY <3>1, <3>2
    <2> QED
      BY <2>2, <2>3, <2>4, <2>5 DEF IInv
  <1> QED
    BY <1>11, <1>12, <1>13, <1>14 DEF ServeRequest

LEMMA ServeEofInv ==
    ASSUME IInv, NEW c \in Client, NEW d \in Client, ServeEof(d, c)
    PROVE  IInv'
  <1>1. Types
    BY DEF IInv
  <1>2. /\ UNCHANGED <<known, disk, ser>> /\ UNCHANGED <<up, marked, peerMap>>
        /\ UNCHANGED <<main, con, req, ans>> /\ UNCHANGED <<nask, ncrash>>
        /\ UNCHANGED <<pos, spoiled>>
    BY DEF ServeEof, diskVars, procVars, bounds
  <1>3. /\ srv' \in [Client -> [Client -> Thread]]
        /\ srv'[d][c] = NoThread
        /\ \A a, b \in Client : a # d \/ b # c => srv'[a][b] = srv[a][b]
    <2>1. srv \in [Client -> [Client -> Thread]]
      BY <1>1 DEF Types, ConTypes
    <2>2. NoThread \in Thread
      BY DEF NoThread, Thread
    <2>3. srv' = [srv EXCEPT ![d][c] = NoThread]
      BY DEF ServeEof
    <2> QED
      BY <2>1, <2>2, <2>3, Update2
  <1>4. con[c][d] = "none" /\ NoThread.pc = "none"
    BY DEF ServeEof, NoThread
  <1>5. Types'
    BY <1>1, <1>2, <1>3
       DEF Types, DiskTypes, ProcTypes, MainTypes, ConTypes, BoundTypes, Busy
  <1>6. ASSUME NEW a \in Client
        PROVE  DiskAt(a)'
    BY <1>2, DiskFrame
  <1>7. ASSUME NEW a \in Client, NEW b \in Client
        PROVE  StreamAt(a, b)' /\ ReaderOf(a, b)'
    <2>1. CASE a # c \/ b # d
      <3>1. srv'[b][a] = srv[b][a]
        BY <1>3, <2>1
      <3> QED
        BY <1>2, <3>1, StreamFrame, ReaderFrame
    <2>2. CASE a = c /\ b = d
      <3>1. StreamAt(c, d) /\ ReaderOf(c, d)
        BY DEF IInv
      <3>2. StreamOK(ans[c][d], NoThread, con[c][d], marked[d], spoiled)
        BY <1>4, <3>1 DEF StreamAt, StreamOK
      <3>3. /\ ConOK(con[c][d], ans[c][d], NoThread, up[c], up[d])
            /\ ServeOK(NoThread, marked[d])
        BY <1>4, <3>1 DEF StreamAt, ConOK, ServeOK
      <3>4. StreamAt(c, d)'
        BY <1>2, <1>3, <3>2, <3>3 DEF StreamAt
      <3>5. ReaderOf(c, d)'
        BY <1>2, <1>3, <1>4, <3>1
           DEF ReaderOf, ReaderOK, ExpectsMap, ExpectsPiece, ExpectsIndex,
               ExpectsAnswer, Busy
      <3> QED
        BY <2>2, <3>4, <3>5
    <2> QED
      BY <2>1, <2>2
  <1>8. ASSUME NEW a \in Client, NEW b \in Client
        PROVE  PeerAt(a, b)'
    BY <1>2, PeerFrame
  <1> QED
    BY <1>5, <1>6, <1>7, <1>8 DEF IInv
-----------------------------------------------------------------------------
(* The steps of the main thread.                                           *)

LEMMA GotoFacts ==
    ASSUME Types, NEW c \in Client,
           NEW p \in {"idle", "key", "map", "index", "bytes", "seek", "write",
                      "cut", "mark", "dead"}, Goto(c, p)
    PROVE  /\ main' \in [Client -> MainState]
           /\ main'[c].pc = p /\ main'[c].peer = main[c].peer
           /\ main'[c].index = main[c].index /\ main'[c].good = main[c].good
           /\ \A a \in Client : a # c => main'[a] = main[a]
  <1>1. main \in [Client -> MainState] /\ main[c] \in MainState
    BY DEF Types, MainTypes
  <1> DEFINE x == [main[c] EXCEPT !.pc = p]
  <1>2. /\ x \in MainState /\ x.pc = p /\ x.peer = main[c].peer
        /\ x.index = main[c].index /\ x.good = main[c].good
    BY <1>1 DEF MainState
  <1>3. main' = [main EXCEPT ![c] = x]
    BY <1>1 DEF Goto
  <1> HIDE DEF x, MainState
  <1> QED
    BY <1>1, <1>2, <1>3, Update1

LEMMA FailFacts ==
    ASSUME Types, NEW c \in Client, Fail(c)
    PROVE  /\ main' \in [Client -> MainState]
           /\ ~Busy(main'[c])
           /\ \A a \in Client : a # c => main'[a] = main[a]
  <1>1. \E p \in {"idle", "dead"} : Goto(c, p)
    BY DEF Fail
  <1> QED
    BY <1>1, GotoFacts DEF Busy

LEMMA TakeFacts ==
    ASSUME Types, NEW c \in Client, main[c].peer \in Client,
           NEW n \in Nat, n <= Len(Stream(c)), Take(c, n)
    PROVE  /\ ans' \in [Client -> [Client -> Seq(Token)]]
           /\ ans'[c][main[c].peer] = Dropped(Stream(c), n)
           /\ \A a, b \in Client : a # c \/ b # main[c].peer =>
                  ans'[a][b] = ans[a][b]
  <1> DEFINE d == main[c].peer
             s == ans[c][d]
  <1>1. ans \in [Client -> [Client -> Seq(Token)]] /\ s \in Seq(Token)
    BY DEF Types, ConTypes
  <1>2. Stream(c) = s
    BY DEF Stream
  <1>3. ans' = [ans EXCEPT ![c][d] = Dropped(s, n)]
    BY <1>1 DEF Take, Dropped
  <1> HIDE DEF s, Dropped, Token
  <1>4. Dropped(s, n) \in Seq(Token)
    BY <1>1, <1>2, DropSeq
  <1> HIDE DEF d
  <1>5. d \in Client
    BY DEF d
  <1>6. /\ ans' \in [Client -> [Client -> Seq(Token)]]
        /\ ans'[c][d] = Dropped(s, n)
        /\ \A a, b \in Client : a # c \/ b # d => ans'[a][b] = ans[a][b]
    BY <1>1, <1>3, <1>4, <1>5, Update2
  <1> QED
    BY <1>2, <1>6 DEF d

LEMMA TakeWordFacts ==
    ASSUME NEW c \in Client, Stream(c) \in Seq(Token), TakeWord(c)
    PROVE  \E n \in Nat : n <= Len(Stream(c)) /\ Take(c, n)
  <1>1. Len(Stream(c)) \in Nat
    BY LenProperties
  <1>2. PICK n \in 1..Len(Stream(c)) : Take(c, n)
    BY DEF TakeWord
  <1> QED
    BY <1>1, <1>2

\* What a step of the main thread of c, which talks to d, may change.
MainChange(c, d) ==
    /\ main' \in [Client -> MainState]
    /\ \A a \in Client : a # c => main'[a] = main[a]
    /\ Busy(main'[c]) => main'[c].peer = d
    /\ DiskOK(main'[c], marked'[c], ser[c].marked, disk'[c], spoiled')
    /\ Busy(main'[c]) => ReaderOK(main'[c], ans'[c][d], srv[d][c],
                                      con[c][d], req'[c][d], spoiled')
    /\ ans' \in [Client -> [Client -> Seq(Token)]]
    /\ con[c][d] = "none" => ans'[c][d] = <<>>
    /\ StreamOK(ans'[c][d], srv[d][c], con[c][d], marked[d], spoiled')
    /\ \A a, b \in Client : a # c \/ b # d => ans'[a][b] = ans[a][b]
    /\ req' \in [Client -> [Client -> Seq(Request)]]
    /\ \A a, b \in Client : a # c \/ b # d => req'[a][b] = req[a][b]
    /\ marked' \in [Client -> SUBSET Piece]
    /\ \A a \in Client : marked[a] \subseteq marked'[a]
    /\ \A a \in Client : a # c => marked'[a] = marked[a]
    /\ disk' \in [Client -> [Offset -> {"right", "wrong", "hole"}]]
    /\ \A a \in Client : a # c => disk'[a] = disk[a]
    /\ pos' \in [Client -> Offset]
    /\ peerMap' \in [Client -> [Client -> SUBSET Piece]]
    /\ \A a, b \in Client : PeerAt(a, b)'
    /\ spoiled \subseteq spoiled'
    /\ spoiled' \subseteq {"short", "absent", "seek"}
    /\ UNCHANGED <<known, ser, up, srv, con, bounds>>

LEMMA MainInv ==
    ASSUME IInv, NEW c \in Client, NEW d \in Client, d = main[c].peer,
           MainChange(c, d)
    PROVE  IInv'
  <1> USE DEF MainChange
  <1>1. Types
    BY DEF IInv
  <1>2. UNCHANGED <<known, ser, up, srv, con>> /\ UNCHANGED <<nask, ncrash>>
    BY DEF bounds
  <1>3. Types'
    <2>1. MainTypes'
      <3>1. \A a \in Client : Busy(main'[a]) => main'[a].peer \in Client
        BY <1>1 DEF Types, MainTypes
      <3> QED
        BY <3>1 DEF MainTypes, Busy
    <2>2. DiskTypes' /\ ProcTypes'
      BY <1>1, <1>2 DEF Types, DiskTypes, ProcTypes
    <2>3. ConTypes' /\ BoundTypes'
      BY <1>1, <1>2 DEF Types, ConTypes, BoundTypes
    <2> QED
      BY <2>1, <2>2, <2>3 DEF Types
  <1>4. ASSUME NEW a \in Client
        PROVE  DiskAt(a)'
    <2>1. CASE a # c
      <3>1. main'[a] = main[a] /\ marked'[a] = marked[a] /\ disk'[a] = disk[a]
        BY <2>1
      <3>2. ser'[a] = ser[a] /\ known'[a] = known[a]
        BY <1>2
      <3> QED
        BY <3>1, <3>2, DiskFrame
    <2>2. CASE a = c
      <3>1. DiskAt(c)
        BY DEF IInv
      <3> QED
        BY <1>2, <2>2, <3>1 DEF DiskAt
    <2> QED
      BY <2>1, <2>2
  <1>5. ASSUME NEW a \in Client, NEW b \in Client
        PROVE  StreamAt(a, b)'
    <2>1. srv'[b][a] = srv[b][a] /\ con'[a][b] = con[a][b]
            /\ up'[a] = up[a] /\ up'[b] = up[b]
      BY <1>2
    <2>2. CASE a # c \/ b # d
      <3>1. ans'[a][b] = ans[a][b]
        BY <2>2
      <3>2. marked[b] \subseteq marked'[b]
        OBVIOUS
      <3> QED
        BY <2>1, <3>1, <3>2, StreamFrame
    <2>3. CASE a = c /\ b = d
      <3>1. StreamAt(c, d)
        BY DEF IInv
      <3>2. marked[d] \subseteq marked'[d]
        OBVIOUS
      <3>3. StreamOK(ans'[c][d], srv[d][c], con[c][d], marked'[d], spoiled')
        BY <3>2, StreamMono
      <3>4. ServeOK(srv[d][c], marked'[d])
        BY <3>1, <3>2 DEF StreamAt, ServeOK
      <3>5. ConOK(con[c][d], ans'[c][d], srv[d][c], up[c], up[d])
        BY <3>1 DEF StreamAt, ConOK
      <3> QED
        BY <2>1, <2>3, <3>3, <3>4, <3>5 DEF StreamAt
    <2> QED
      BY <2>2, <2>3
  <1>6. ASSUME NEW a \in Client, NEW b \in Client
        PROVE  ReaderOf(a, b)'
    <2>1. srv'[b][a] = srv[b][a] /\ con'[a][b] = con[a][b]
      BY <1>2
    <2>2. CASE a # c
      <3>1. main'[a] = main[a]
        BY <2>2
      <3>2. ans'[a][b] = ans[a][b]
        BY <2>2
      <3>3. req'[a][b] = req[a][b]
        BY <2>2
      <3> QED
        BY <2>1, <3>1, <3>2, <3>3, ReaderFrame
    <2>3. CASE a = c
      <3>1. SUFFICES ASSUME Busy(main'[c]), main'[c].peer = b
                     PROVE  ReaderOK(main'[c], ans'[c][b], srv[b][c],
                                     con[c][b], req'[c][b], spoiled')
        BY <2>1, <2>3 DEF ReaderOf, Busy
      <3>2. b = d
        BY <3>1
      <3> QED
        BY <3>1, <3>2
    <2> QED
      BY <2>2, <2>3
  <1> QED
    BY <1>3, <1>4, <1>5, <1>6 DEF IInv

LEMMA TypeFacts ==
    ASSUME Types
    PROVE  /\ ans \in [Client -> [Client -> Seq(Token)]]
           /\ req \in [Client -> [Client -> Seq(Request)]]
           /\ srv \in [Client -> [Client -> Thread]]
           /\ main \in [Client -> MainState]
           /\ \A c \in Client : Busy(main[c]) => main[c].peer \in Client
           /\ marked \in [Client -> SUBSET Piece]
           /\ disk \in [Client -> [Offset -> {"right", "wrong", "hole"}]]
           /\ pos \in [Client -> Offset]
           /\ peerMap \in [Client -> [Client -> SUBSET Piece]]
           /\ spoiled \subseteq {"short", "absent", "seek"}
  BY DEF Types, ConTypes, MainTypes, ProcTypes, DiskTypes, BoundTypes

\* A step that takes n tokens off the stream and touches no piece.
LEMMA ReadInv ==
    ASSUME IInv, NEW c \in Client, NEW d \in Client, d = main[c].peer,
           NEW n \in Nat, n <= Len(ans[c][d]),
           ans' \in [Client -> [Client -> Seq(Token)]],
           ans'[c][d] = Dropped(ans[c][d], n),
           \A a, b \in Client : a # c \/ b # d => ans'[a][b] = ans[a][b],
           main' \in [Client -> MainState],
           \A a \in Client : a # c => main'[a] = main[a],
           Busy(main'[c]) => main'[c].peer = d,
           main'[c].pc \notin {"write", "cut", "mark"},
           main'[c].pc = "seek" /\ spoiled' = {} => main'[c].good = TRUE,
           Busy(main'[c]) => ReaderOK(main'[c], Dropped(ans[c][d], n),
                                      srv[d][c], con[c][d], req'[c][d],
                                      spoiled'),
           req' \in [Client -> [Client -> Seq(Request)]],
           \A a, b \in Client : a # c \/ b # d => req'[a][b] = req[a][b],
           peerMap' \in [Client -> [Client -> SUBSET Piece]],
           \A a, b \in Client : PeerAt(a, b)',
           spoiled \subseteq spoiled',
           spoiled' \subseteq {"short", "absent", "seek"},
           UNCHANGED <<known, disk, ser, up, marked, pos, srv, con>>,
           UNCHANGED bounds
    PROVE  IInv'
  <1>1. Types /\ StreamAt(c, d) /\ DiskAt(c)
    BY DEF IInv
  <1>2. UNCHANGED <<known, disk, ser>> /\ UNCHANGED <<up, marked, pos>>
          /\ UNCHANGED <<srv, con, bounds>>
    OBVIOUS
  <1>3. ans[c][d] \in Seq(Token)
    BY <1>1, TypeFacts
  <1>4. StreamOK(Dropped(ans[c][d], n), srv[d][c], con[c][d], marked[d],
                 spoiled')
    <2>1. StreamOK(ans[c][d], srv[d][c], con[c][d], marked[d], spoiled)
      BY <1>1 DEF StreamAt
    <2> QED
      BY <1>3, <2>1, StreamDrop
  <1>5. con[c][d] = "none" => Dropped(ans[c][d], n) = <<>>
    <2>1. con[c][d] = "none" => ans[c][d] = <<>>
      BY <1>1 DEF StreamAt, ConOK
    <2>2. ans[c][d] = <<>> => Len(ans[c][d]) = 0
      BY <1>3, EmptySeq
    <2>3. ans[c][d] = <<>> => n = Len(ans[c][d])
      BY <2>2
    <2> QED
      BY <1>3, <2>1, <2>3, DropSeq
  <1>6. DiskOK(main'[c], marked'[c], ser[c].marked, disk'[c], spoiled')
    BY <1>1, <1>2 DEF DiskAt, DiskOK
  <1>7. /\ marked' \in [Client -> SUBSET Piece]
        /\ disk' \in [Client -> [Offset -> {"right", "wrong", "hole"}]]
        /\ pos' \in [Client -> Offset]
        /\ \A a \in Client : marked'[a] = marked[a]
        /\ \A a \in Client : marked[a] \subseteq marked'[a]
        /\ \A a \in Client : disk'[a] = disk[a]
    BY <1>1, <1>2, TypeFacts
  <1>8. UNCHANGED <<known, ser, up, srv, con, bounds>>
    BY <1>2
  <1>9. StreamOK(ans'[c][d], srv[d][c], con[c][d], marked[d], spoiled')
    BY <1>4
  <1>10. con[c][d] = "none" => ans'[c][d] = <<>>
    BY <1>5
  <1>11. Busy(main'[c]) => ReaderOK(main'[c], ans'[c][d], srv[d][c],
                                    con[c][d], req'[c][d], spoiled')
    OBVIOUS
  <1> HIDE DEF Dropped, DiskOK
  <1> QED
    BY <1>6, <1>7, <1>8, <1>9, <1>10, <1>11, MainInv DEF MainChange

LEMMA DropTokens ==
    \A s \in Seq(Token) : \A n \in 0..Len(s) :
        /\ Dropped(s, n) \in Seq(Token)
        /\ Len(Dropped(s, n)) = Len(s) - n
        /\ \A j \in 1..(Len(s) - n) : Dropped(s, n)[j] = s[j + n]
  <1> SUFFICES ASSUME NEW s \in Seq(Token), NEW n \in 0..Len(s)
               PROVE  /\ Dropped(s, n) \in Seq(Token)
                      /\ Len(Dropped(s, n)) = Len(s) - n
                      /\ \A j \in 1..(Len(s) - n) : Dropped(s, n)[j] = s[j + n]
    OBVIOUS
  <1>1. n \in Nat /\ n <= Len(s)
    BY LenProperties
  <1> QED
    BY <1>1, DropSeq

LEMMA FirstToken ==
    ASSUME NEW s \in Seq(Token), s # <<>>
    PROVE  /\ 1 <= Len(s) /\ Head(s) = s[1] /\ s[1] \in Token
           /\ Dropped(s, 1) = <<>> => LastIs(s, s[1])
           /\ Dropped(s, 1) # <<>> => /\ 1 \in 1..(Len(s) - 1)
                                      /\ Dropped(s, 1)[1] = s[1 + 1]
  <1>1. Len(s) \in Nat /\ Len(s) # 0
    BY EmptySeq
  <1> DEFINE r == Dropped(s, 1)
  <1>2. 1 \in 0..Len(s)
    BY <1>1
  <1>3. r \in Seq(Token) /\ Len(r) = Len(s) - 1
    BY <1>2, DropTokens
  <1>4. \A j \in 1..(Len(s) - 1) : r[j] = s[j + 1]
    BY <1>2, DropTokens
  <1>5. Head(s) = s[1] /\ s[1] \in Token
    BY <1>1, HeadTailProperties, ElementOfSeq
  <1> HIDE DEF r
  <1>6. r = <<>> <=> Len(r) = 0
    BY <1>3, EmptySeq
  <1>7. r = <<>> => LastIs(s, s[1])
    BY <1>1, <1>3, <1>6 DEF LastIs
  <1>8. r # <<>> => 1 \in 1..(Len(s) - 1) /\ r[1] = s[1 + 1]
    BY <1>1, <1>3, <1>4, <1>6
  <1> QED
    BY <1>1, <1>5, <1>7, <1>8 DEF r

LEMMA NotWordNone == Word("none") \notin Token
  <1> SUFFICES ASSUME Word("none") \in Token
               PROVE  FALSE
    OBVIOUS
  <1>1. Word("none").t = "none"
    BY Words
  <1> QED
    BY <1>1, TokenCases, Words, Indexes, Maps, Bytes

LEMMA EofDrop ==
    ASSUME NEW s \in Seq(Token)
    PROVE  Len(s) \in Nat /\ Len(s) <= Len(s) /\ Dropped(s, Len(s)) = <<>>
  <1>1. Len(s) \in Nat /\ Len(s) <= Len(s)
    BY LenProperties
  <1> QED
    BY <1>1, DropSeq

LEMMA DropNothing ==
    ASSUME NEW s \in Seq(Token)
    PROVE  0 \in Nat /\ 0 <= Len(s) /\ Dropped(s, 0) = s
  <1>1. Len(s) \in Nat /\ 0 <= Len(s)
    BY LenProperties
  <1> QED
    BY <1>1 DEF Dropped

LEMMA ReadKeyInv ==
    ASSUME IInv, NEW c \in Client, ReadKey(c)
    PROVE  IInv'
  <1> DEFINE d == main[c].peer
             s == ans[c][d]
             v == srv[d][c]
  <1>1. Types
    BY DEF IInv
  <1>2. main[c].pc = "key" /\ Busy(main[c]) /\ d \in Client
    BY <1>1, TypeFacts DEF ReadKey, At, Busy
  <1>3. s \in Seq(Token) /\ req[c][d] \in Seq(Request) /\ Stream(c) = s
    BY <1>1, <1>2, TypeFacts DEF Stream
  <1>4. /\ UNCHANGED <<known, disk, ser, up, marked, pos, srv, con>>
        /\ UNCHANGED <<peerMap, bounds, spoiled>>
    BY DEF ReadKey, diskVars, procVars
  <1>5. ASSUME NEW a \in Client, NEW b \in Client
        PROVE  PeerAt(a, b)'
    <2>1. UNCHANGED <<known, con, peerMap, marked>>
      BY <1>4
    <2> QED
      BY <2>1, PeerFrame
  <1>6. /\ peerMap' \in [Client -> [Client -> SUBSET Piece]]
        /\ spoiled \subseteq spoiled'
        /\ spoiled' \subseteq {"short", "absent", "seek"}
        /\ UNCHANGED bounds
    BY <1>1, <1>4, TypeFacts
  <1>7. StreamOK(s, v, con[c][d], marked[d], spoiled)
    BY <1>2 DEF IInv, StreamAt
  \* whatever is taken, the main thread ends up where it expects the rest
  <1>8. ASSUME NEW n \in Nat, n <= Len(s),
               ans' \in [Client -> [Client -> Seq(Token)]],
               ans'[c][d] = Dropped(s, n),
               \A a, b \in Client : a # c \/ b # d => ans'[a][b] = ans[a][b],
               NEW p \in {"idle", "map", "index"}, Goto(c, p),
               p # "idle" => ReaderOK(main'[c], Dropped(s, n), v, con[c][d],
                                      req'[c][d], spoiled),
               req' \in [Client -> [Client -> Seq(Request)]],
               \A a, b \in Client : a # c \/ b # d => req'[a][b] = req[a][b]
        PROVE  IInv'
    <2>1. /\ main' \in [Client -> MainState]
          /\ main'[c].pc = p /\ main'[c].peer = d
          /\ \A a \in Client : a # c => main'[a] = main[a]
      BY <1>1, <1>8, GotoFacts
    <2>2. Busy(main'[c]) => p # "idle"
      BY <2>1 DEF Busy
    <2>3. Busy(main'[c]) => ReaderOK(main'[c], Dropped(s, n), v, con[c][d],
                                     req'[c][d], spoiled')
      BY <1>4, <1>8, <2>2
    <2>4. main'[c].pc \notin {"write", "cut", "mark", "seek"}
      BY <1>8, <2>1
    <2> HIDE DEF Dropped
    <2> QED
      BY <1>2, <1>4, <1>5, <1>6, <1>8, <2>1, <2>3, <2>4, ReadInv, ZenonT(40)
  <1>9. ASSUME s # <<>>, s[1] = Word(main[c].want), Take(c, 1), UNCHANGED req,
               Goto(c, IF main[c].want = "data" THEN "index" ELSE "map")
        PROVE  IInv'
    <2> DEFINE p == IF main[c].want = "data" THEN "index" ELSE "map"
               r == Dropped(s, 1)
    <2>1. /\ 1 <= Len(s) /\ s[1] \in Token
          /\ r = <<>> => LastIs(s, s[1])
          /\ r # <<>> => 1 \in 1..(Len(s) - 1) /\ r[1] = s[1 + 1]
      BY <1>3, <1>9, FirstToken
    <2>2. main[c].want \in {"data", "have"}
      <3>1. main[c].want \in {"none", "data", "have"}
        BY <1>1, TypeFacts DEF MainState
      <3> QED
        BY <1>9, <2>1, <3>1, NotWordNone
    <2>3. main'[c].pc = p
      BY <1>1, <1>9, GotoFacts
    <2> HIDE DEF r
    <2>4. ExpectsMap(main'[c], r, v, con[c][d])
      <3>1. SUFFICES ASSUME main[c].want = "have"
                     PROVE  \/ /\ r = <<>>
                               /\ con[c][d] = "open" => v.pc = "map"
                            \/ /\ r # <<>>
                               /\ \E q \in SUBSET Piece : r[1] = Map(q)
        BY <2>2, <2>3 DEF ExpectsMap
      <3>2. s[1] = Word("have")
        BY <1>9, <3>1
      <3>3. CASE r = <<>>
        BY <1>7, <2>1, <3>2, <3>3 DEF StreamOK
      <3>4. CASE r # <<>>
        <4>1. HaveFramed(s)
          BY <1>7 DEF StreamOK
        <4> QED
          BY <2>1, <3>2, <3>4, <4>1 DEF HaveFramed
      <3> QED
        BY <3>3, <3>4
    <2>5. "absent" \notin spoiled => ExpectsIndex(main'[c], r, v, con[c][d])
      <3>1. SUFFICES ASSUME "absent" \notin spoiled, main[c].want = "data",
                            r = <<>>, con[c][d] = "open"
                     PROVE  v.pc = "next"
        BY <2>2, <2>3 DEF ExpectsIndex
      <3>2. LastIs(s, Word("data"))
        BY <1>9, <2>1, <3>1
      <3> QED
        BY <1>7, <3>1, <3>2 DEF StreamOK, PieceEnd
    <2>6. ReaderOK(main'[c], r, v, con[c][d], req'[c][d], spoiled)
      BY <2>3, <2>4, <2>5 DEF ReaderOK, ExpectsPiece, ExpectsAnswer
    <2>7. /\ ans' \in [Client -> [Client -> Seq(Token)]] /\ ans'[c][d] = r
          /\ \A a, b \in Client : a # c \/ b # d => ans'[a][b] = ans[a][b]
      BY <1>1, <1>2, <1>3, <1>9, <2>1, TakeFacts DEF r
    <2>8. /\ req' \in [Client -> [Client -> Seq(Request)]]
          /\ \A a, b \in Client : a # c \/ b # d => req'[a][b] = req[a][b]
      BY <1>1, <1>9, TypeFacts
    <2>9. p \in {"idle", "map", "index"} /\ Goto(c, p) /\ 1 \in Nat
      BY <1>9
    <2> HIDE DEF p, s
    <2> QED
      BY <1>8, <2>1, <2>6, <2>7, <2>8, <2>9 DEF r
  <1>10. ASSUME NEW n \in Nat, n <= Len(s), Take(c, n), Goto(c, "idle"),
                req' = IF con[c][d] = "closed" THEN req
                       ELSE [req EXCEPT ![c][d] =
                                 Append(@, [op |-> "error", parts |-> <<>>])]
         PROVE  IInv'
    <2>1. /\ ans' \in [Client -> [Client -> Seq(Token)]]
          /\ ans'[c][d] = Dropped(s, n)
          /\ \A a, b \in Client : a # c \/ b # d => ans'[a][b] = ans[a][b]
      BY <1>1, <1>2, <1>3, <1>10, TakeFacts
    <2>2. /\ req' \in [Client -> [Client -> Seq(Request)]]
          /\ \A a, b \in Client : a # c \/ b # d => req'[a][b] = req[a][b]
      <3> DEFINE e == [op |-> "error", parts |-> <<>>]
      <3>1. Append(req[c][d], e) \in Seq(Request)
        BY <1>3, RequestFacts, AppendProperties
      <3>2. req \in [Client -> [Client -> Seq(Request)]]
        BY <1>1, TypeFacts
      <3>3. req' = req \/ req' = [req EXCEPT ![c][d] = Append(req[c][d], e)]
        BY <1>2, <1>10, <3>2
      <3>4. d \in Client
        BY <1>2
      <3> HIDE DEF e, d, Request
      <3>5. CASE req' = req
        BY <3>2, <3>5
      <3>6. CASE req' = [req EXCEPT ![c][d] = Append(req[c][d], e)]
        BY <3>1, <3>2, <3>4, <3>6, Update2
      <3> QED
        BY <3>3, <3>5, <3>6
    <2> HIDE DEF Dropped
    <2> QED
      BY <1>8, <1>10, <2>1, <2>2
  <1>11. ASSUME s = <<>>, Goto(c, "idle"), UNCHANGED <<req, ans>>
         PROVE  IInv'
    <2>1. Len(s) \in Nat /\ Len(s) <= Len(s) /\ Dropped(s, Len(s)) = s
      BY <1>3, <1>11, EofDrop
    <2>2. /\ ans' \in [Client -> [Client -> Seq(Token)]]
          /\ req' \in [Client -> [Client -> Seq(Request)]]
          /\ ans' = ans /\ req' = req
      BY <1>1, <1>11, TypeFacts
    <2> HIDE DEF Dropped
    <2> QED
      BY <1>8, <1>11, <2>1, <2>2
  <1>12. s # <<>> => Head(s) = s[1]
    BY <1>3, FirstToken
  <1>13. ASSUME TakeWord(c), Goto(c, "idle"),
                req' = IF con[c][d] = "closed" THEN req
                       ELSE [req EXCEPT ![c][d] =
                                 Append(@, [op |-> "error", parts |-> <<>>])]
         PROVE  IInv'
    <2>1. PICK n \in Nat : n <= Len(s) /\ Take(c, n)
      BY <1>3, <1>13, TakeWordFacts
    <2> QED
      BY <1>10, <1>13, <2>1
  <1> QED
    BY <1>3, <1>9, <1>11, <1>12, <1>13 DEF ReadKey, Eof

LEMMA ReadMapInv ==
    ASSUME IInv, NEW c \in Client, ReadMap(c)
    PROVE  IInv'
  <1> DEFINE d == main[c].peer
             s == ans[c][d]
             v == srv[d][c]
  <1>1. Types
    BY DEF IInv
  <1>2. main[c].pc = "map" /\ Busy(main[c]) /\ d \in Client
    BY <1>1, TypeFacts DEF ReadMap, At, Busy
  <1>3. s \in Seq(Token) /\ Stream(c) = s
    BY <1>1, <1>2, TypeFacts DEF Stream
  <1>4. /\ UNCHANGED <<known, disk, ser, up, marked, pos, srv, con>>
        /\ UNCHANGED <<req, bounds, spoiled>>
    BY DEF ReadMap, diskVars
  <1>5. /\ main' \in [Client -> MainState] /\ main'[c].pc = "idle"
        /\ \A a \in Client : a # c => main'[a] = main[a]
    <2>1. Goto(c, "idle")
      BY DEF ReadMap
    <2> QED
      BY <1>1, <2>1, GotoFacts
  \* the map m that is taken for the peer's
  <1>6. ASSUME NEW n \in Nat, n <= Len(s),
               ans' \in [Client -> [Client -> Seq(Token)]],
               ans'[c][d] = Dropped(s, n),
               \A a, b \in Client : a # c \/ b # d => ans'[a][b] = ans[a][b],
               NEW m \in SUBSET Piece, peerMap' = [peerMap EXCEPT ![c][d] = m],
               PeerOK(known[c], con[c][d], m, marked[d])
        PROVE  IInv'
    <2>1. /\ peerMap' \in [Client -> [Client -> SUBSET Piece]]
          /\ peerMap'[c][d] = m
          /\ \A a, b \in Client : a # c \/ b # d =>
                 peerMap'[a][b] = peerMap[a][b]
      <3>1. peerMap \in [Client -> [Client -> SUBSET Piece]]
        BY <1>1, TypeFacts
      <3>2. d \in Client
        BY <1>2
      <3> HIDE DEF d
      <3> QED
        BY <1>6, <3>1, <3>2, Update2
    <2>2. ASSUME NEW a \in Client, NEW b \in Client
          PROVE  PeerAt(a, b)'
      <3>1. UNCHANGED <<known, con, marked>>
        BY <1>4
      <3>2. CASE a # c \/ b # d
        <4>1. peerMap'[a][b] = peerMap[a][b]
          BY <2>1, <3>2
        <4> QED
          BY <3>1, <4>1, PeerFrame
      <3>3. CASE a = c /\ b = d
        BY <1>6, <2>1, <3>1, <3>3 DEF PeerAt
      <3> QED
        BY <3>2, <3>3
    <2>3. /\ ~Busy(main'[c])
          /\ main'[c].pc \notin {"write", "cut", "mark", "seek"}
      BY <1>5 DEF Busy
    <2>4. /\ req' \in [Client -> [Client -> Seq(Request)]]
          /\ \A a, b \in Client : req'[a][b] = req[a][b]
          /\ spoiled \subseteq spoiled'
          /\ spoiled' \subseteq {"short", "absent", "seek"}
          /\ UNCHANGED bounds
      BY <1>1, <1>4, TypeFacts
    <2>5. /\ Busy(main'[c]) => main'[c].peer = d
          /\ Busy(main'[c]) => ReaderOK(main'[c], Dropped(s, n), v, con[c][d],
                                        req'[c][d], spoiled')
          /\ main'[c].pc = "seek" /\ spoiled' = {} => main'[c].good = TRUE
      BY <2>3
    <2>6. d = main[c].peer /\ d \in Client
      BY <1>2
    <2>7. /\ ans' \in [Client -> [Client -> Seq(Token)]]
          /\ ans'[c][d] = Dropped(s, n)
          /\ \A a, b \in Client : a # c \/ b # d => ans'[a][b] = ans[a][b]
      BY <1>6
    <2>8. UNCHANGED <<known, disk, ser, up, marked, pos, srv, con>>
      BY <1>4
    <2>9. n \in Nat /\ n <= Len(ans[c][d]) /\ s = ans[c][d] /\ v = srv[d][c]
      BY <1>6
    <2>10. /\ main'[c].pc \notin {"write", "cut", "mark"}
           /\ peerMap' \in [Client -> [Client -> SUBSET Piece]]
      BY <2>1, <2>3
    <2>11. \A a, b \in Client : a # c \/ b # d => req'[a][b] = req[a][b]
      BY <2>4
    <2>12. \A a, b \in Client : PeerAt(a, b)'
      BY <2>2
    <2>13. /\ req' \in [Client -> [Client -> Seq(Request)]]
           /\ spoiled \subseteq spoiled'
           /\ spoiled' \subseteq {"short", "absent", "seek"}
           /\ UNCHANGED bounds
      BY <2>4
    <2> HIDE DEF s, v, d
    <2> QED
      BY <1>5, <2>5, <2>6, <2>7, <2>8, <2>9, <2>10, <2>11, <2>12, <2>13,
         ReadInv, ZenonT(40)
  \* what is in front of it is a map of what the peer has
  <1>7. ASSUME s # <<>>
        PROVE  /\ Head(s).m \in SUBSET Piece /\ 1 <= Len(s)
               /\ PeerOK(known[c], con[c][d], Head(s).m, marked[d])
    <2>1. 1 <= Len(s) /\ Head(s) = s[1] /\ 1 \in 1..Len(s)
      BY <1>3, <1>7, FirstToken
    <2>2. PICK p \in SUBSET Piece : s[1] = Map(p)
      <3>1. ExpectsMap(main[c], s, v, con[c][d])
        BY <1>2 DEF IInv, ReaderOf, ReaderOK
      <3> QED
        BY <1>2, <1>7, <3>1 DEF ExpectsMap
    <2>3. Head(s).m = p /\ s[1].t = "map" /\ s[1].m = p
      BY <2>1, <2>2, Maps
    <2>4. StreamAt(c, d)
      BY <1>2 DEF IInv
    <2>5. con[c][d] = "open" => p \subseteq marked[d]
      BY <2>1, <2>3, <2>4 DEF StreamAt, StreamOK, MapsIn
    <2>6. con[c][d] # "none"
      BY <1>7, <2>4 DEF StreamAt, ConOK
    <2>7. PeerOK(known[c], con[c][d], p, marked[d])
      BY <2>5, <2>6 DEF PeerOK
    <2> QED
      BY <2>1, <2>3, <2>7
  <1>8. ASSUME s # <<>>, Take(c, 1), Believe(c, Head(s).m)
        PROVE  IInv'
    <2>1. /\ ans' \in [Client -> [Client -> Seq(Token)]]
          /\ ans'[c][d] = Dropped(s, 1)
          /\ \A a, b \in Client : a # c \/ b # d => ans'[a][b] = ans[a][b]
      BY <1>1, <1>2, <1>3, <1>7, <1>8, TakeFacts
    <2>2. peerMap' = [peerMap EXCEPT ![c][d] = Head(s).m]
      BY <1>8 DEF Believe
    <2> QED
      BY <1>6, <1>7, <1>8, <2>1, <2>2
  \* nothing is taken of the stream: a part of a map, or its end
  <1>9. ASSUME NEW m \in SUBSET Piece, UNCHANGED ans, Believe(c, m),
               PeerOK(known[c], con[c][d], m, marked[d])
        PROVE  IInv'
    <2>1. 0 \in Nat /\ 0 <= Len(s) /\ Dropped(s, 0) = s
      BY <1>3, DropNothing
    <2>2. ans' \in [Client -> [Client -> Seq(Token)]] /\ ans' = ans
      BY <1>1, <1>9, TypeFacts
    <2>3. peerMap' = [peerMap EXCEPT ![c][d] = m]
      BY <1>9 DEF Believe
    <2> HIDE DEF Dropped
    <2> QED
      BY <1>6, <1>9, <2>1, <2>2, <2>3
  <1>10. ASSUME s # <<>>, UNCHANGED ans, NEW B,
                Believe(c, Head(s).m \cap B)
         PROVE  IInv'
    <2>1. /\ Head(s).m \cap B \in SUBSET Piece
          /\ PeerOK(known[c], con[c][d], Head(s).m \cap B, marked[d])
      BY <1>7, <1>10 DEF PeerOK
    <2> QED
      BY <1>9, <1>10, <2>1
  <1>11. ASSUME UNCHANGED ans, Believe(c, {})
         PROVE  IInv'
    BY <1>9, <1>11 DEF PeerOK
  <1> QED
    BY <1>3, <1>8, <1>10, <1>11 DEF ReadMap, Eof

LEMMA ReadIndexInv ==
    ASSUME IInv, NEW c \in Client, ReadIndex(c)
    PROVE  IInv'
  <1> DEFINE d == main[c].peer
             s == ans[c][d]
             v == srv[d][c]
             r == Dropped(s, 1)
  <1>1. Types
    BY DEF IInv
  <1>2. main[c].pc = "index" /\ Busy(main[c]) /\ d \in Client
    BY <1>1, TypeFacts DEF ReadIndex, At, Busy
  <1>3. s \in Seq(Token) /\ Stream(c) = s
    BY <1>1, <1>2, TypeFacts DEF Stream
  <1>4. /\ UNCHANGED <<known, disk, ser, up, marked, pos, srv, con>>
        /\ UNCHANGED <<peerMap, req, bounds, spoiled>>
    BY DEF ReadIndex, diskVars, procVars
  <1>5. ASSUME NEW a \in Client, NEW b \in Client
        PROVE  PeerAt(a, b)'
    <2>1. UNCHANGED <<known, con, peerMap, marked>>
      BY <1>4
    <2> QED
      BY <2>1, PeerFrame
  <1>6. /\ peerMap' \in [Client -> [Client -> SUBSET Piece]]
        /\ req' \in [Client -> [Client -> Seq(Request)]]
        /\ \A a, b \in Client : req'[a][b] = req[a][b]
        /\ spoiled \subseteq spoiled'
        /\ spoiled' \subseteq {"short", "absent", "seek"}
        /\ UNCHANGED bounds
    BY <1>1, <1>4, TypeFacts
  <1>7. ASSUME s # <<>>, Take(c, 1)
        PROVE  /\ 1 \in Nat /\ 1 <= Len(s)
               /\ ans' \in [Client -> [Client -> Seq(Token)]]
               /\ ans'[c][d] = r
               /\ \A a, b \in Client : a # c \/ b # d => ans'[a][b] = ans[a][b]
    <2>1. 1 <= Len(s)
      BY <1>3, <1>7, FirstToken
    <2> QED
      BY <1>1, <1>2, <1>3, <1>7, <2>1, TakeFacts
  \* the main thread stops here
  <1>8. ASSUME NEW n \in Nat, n <= Len(s),
               ans' \in [Client -> [Client -> Seq(Token)]],
               ans'[c][d] = Dropped(s, n),
               \A a, b \in Client : a # c \/ b # d => ans'[a][b] = ans[a][b],
               Goto(c, "idle") \/ Fail(c)
        PROVE  IInv'
    <2>1. /\ main' \in [Client -> MainState] /\ ~Busy(main'[c])
          /\ \A a \in Client : a # c => main'[a] = main[a]
      BY <1>1, <1>8, GotoFacts, FailFacts DEF Busy
    <2>2. main'[c].pc \notin {"write", "cut", "mark", "seek"}
      BY <2>1 DEF Busy
    <2>3. /\ Busy(main'[c]) => main'[c].peer = d
          /\ Busy(main'[c]) => ReaderOK(main'[c], Dropped(s, n), v, con[c][d],
                                        req'[c][d], spoiled')
          /\ main'[c].pc = "seek" /\ spoiled' = {} => main'[c].good = TRUE
      BY <2>1, <2>2
    <2>4. d = main[c].peer /\ d \in Client
      BY <1>2
    <2>5. /\ ans' \in [Client -> [Client -> Seq(Token)]]
          /\ ans'[c][d] = Dropped(s, n)
          /\ \A a, b \in Client : a # c \/ b # d => ans'[a][b] = ans[a][b]
      BY <1>8
    <2>6. UNCHANGED <<known, disk, ser, up, marked, pos, srv, con>>
      BY <1>4
    <2>7. n \in Nat /\ n <= Len(ans[c][d]) /\ s = ans[c][d] /\ v = srv[d][c]
      BY <1>8
    <2>8. /\ main' \in [Client -> MainState]
          /\ \A a \in Client : a # c => main'[a] = main[a]
          /\ main'[c].pc \notin {"write", "cut", "mark"}
      BY <2>1, <2>2
    <2>9. \A a, b \in Client : a # c \/ b # d => req'[a][b] = req[a][b]
      BY <1>6
    <2>10. \A a, b \in Client : PeerAt(a, b)'
      BY <1>5
    <2>11. /\ peerMap' \in [Client -> [Client -> SUBSET Piece]]
           /\ req' \in [Client -> [Client -> Seq(Request)]]
           /\ spoiled \subseteq spoiled'
           /\ spoiled' \subseteq {"short", "absent", "seek"}
           /\ UNCHANGED bounds
      BY <1>6
    <2> QED
      BY <2>3, <2>4, <2>5, <2>6, <2>7, <2>8, <2>9, <2>10, <2>11, ReadInv
  <1>9. ASSUME s # <<>>, s[1].t = "index", Take(c, 1),
               main' = [main EXCEPT ![c].pc = "bytes", ![c].index = s[1].i]
        PROVE  IInv'
    <2>1. /\ s[1] \in Token
          /\ r = <<>> => LastIs(s, s[1])
          /\ r # <<>> => 1 \in 1..(Len(s) - 1)
      BY <1>3, <1>9, FirstToken
    <2>2. PICK i \in Piece : s[1] = Index(i)
      BY <1>9, <2>1, TokenCases, Words, Maps, Bytes
    <2>3. s[1].i = i
      BY <2>2, Indexes
    <2>4. /\ main' \in [Client -> MainState]
          /\ main'[c].pc = "bytes" /\ main'[c].index = i
          /\ main'[c].peer = d
          /\ \A a \in Client : a # c => main'[a] = main[a]
      <3>1. main \in [Client -> MainState] /\ main[c] \in MainState
        BY <1>1, TypeFacts
      <3> DEFINE x == [main[c] EXCEPT !.pc = "bytes", !.index = i]
      <3>2. /\ x \in MainState /\ x.pc = "bytes" /\ x.index = i
            /\ x.peer = main[c].peer
        BY <3>1 DEF MainState
      <3>3. main' = [main EXCEPT ![c] = x]
        BY <1>9, <2>3, <3>1
      <3> HIDE DEF x, MainState
      <3> QED
        BY <3>1, <3>2, <3>3, Update1
    <2>5. StreamOK(s, v, con[c][d], marked[d], spoiled)
      BY <1>2 DEF IInv, StreamAt
    <2>6. "absent" \notin spoiled => ExpectsPiece(main'[c], r, v, con[c][d])
      <3>1. SUFFICES ASSUME "absent" \notin spoiled
                     PROVE  \/ /\ r = <<>>
                               /\ con[c][d] = "open" =>
                                      v.pc = "read" /\ Head(v.todo) = i
                            \/ Whole(r, 0, i)
        BY <2>4 DEF ExpectsPiece
      <3>2. CASE r = <<>>
        BY <2>1, <2>2, <2>5, <3>1, <3>2 DEF StreamOK, PieceEnd
      <3>3. CASE r # <<>>
        <4>1. Whole(s, 1, i)
          BY <2>1, <2>2, <2>5, <3>1, <3>3 DEF StreamOK, PieceFramed
        <4>2. 1 \in Nat /\ 1 <= Len(s) /\ 0 \in Nat /\ 0 + 1 = 1
          BY <1>7, <1>9
        <4>3. \A j \in Nat : Whole(s, j + 1, i) => Whole(r, j, i)
          BY <1>3, <4>2, DropStream
        <4> HIDE DEF r
        <4> QED
          BY <4>1, <4>2, <4>3
      <3> QED
        BY <3>2, <3>3
    <2>7. ReaderOK(main'[c], r, v, con[c][d], req'[c][d], spoiled')
      BY <1>4, <2>4, <2>6
         DEF ReaderOK, ExpectsMap, ExpectsIndex, ExpectsAnswer
    <2>8. main'[c].pc \notin {"write", "cut", "mark", "seek"}
      BY <2>4
    <2>9. /\ 1 \in Nat /\ 1 <= Len(s)
          /\ ans' \in [Client -> [Client -> Seq(Token)]]
          /\ ans'[c][d] = r
          /\ \A a, b \in Client : a # c \/ b # d => ans'[a][b] = ans[a][b]
      BY <1>7, <1>9
    <2> HIDE DEF Dropped
    <2> QED
      BY <1>2, <1>4, <1>5, <1>6, <2>4, <2>7, <2>8, <2>9, ReadInv, ZenonT(40)
  <1>10. ASSUME NEW n \in Nat, n <= Len(s), Take(c, n),
                Goto(c, "idle") \/ Fail(c)
         PROVE  IInv'
    <2>1. /\ ans' \in [Client -> [Client -> Seq(Token)]]
          /\ ans'[c][d] = Dropped(s, n)
          /\ \A a, b \in Client : a # c \/ b # d => ans'[a][b] = ans[a][b]
      BY <1>1, <1>2, <1>3, <1>10, TakeFacts
    <2> HIDE DEF Dropped
    <2> QED
      BY <1>8, <1>10, <2>1
  <1>11. ASSUME s = <<>>, Fail(c), UNCHANGED ans
         PROVE  IInv'
    <2>1. Len(s) \in Nat /\ Len(s) <= Len(s) /\ Dropped(s, Len(s)) = s
      BY <1>3, <1>11, EofDrop
    <2>2. ans' \in [Client -> [Client -> Seq(Token)]] /\ ans' = ans
      BY <1>1, <1>11, TypeFacts
    <2> HIDE DEF Dropped
    <2> QED
      BY <1>8, <1>11, <2>1, <2>2
  <1>12. s # <<>> => Head(s) = s[1]
    BY <1>3, FirstToken
  <1>13. ASSUME s # <<>>, Take(c, 1), Goto(c, "idle")
         PROVE  IInv'
    BY <1>3, <1>7, <1>10, <1>13
  <1>14. ASSUME TakeWord(c), Fail(c)
         PROVE  IInv'
    <2>1. PICK n \in Nat : n <= Len(s) /\ Take(c, n)
      BY <1>3, <1>14, TakeWordFacts
    <2> QED
      BY <1>10, <1>14, <2>1
  <1> QED
    BY <1>3, <1>9, <1>11, <1>12, <1>13, <1>14 DEF ReadIndex, Eof

\* What is read of a stream that starts with a whole piece, of good bytes.
LEMMA ReadGood ==
    ASSUME NEW s \in Seq(Token), NEW i \in Piece, Whole(s, 0, i), AllGood(s)
    PROVE  SubSeq(s, 1, PieceLen) = PieceBytes(i, TRUE)
  <1>1. PieceLen \in Nat /\ PieceLen >= 1 /\ Len(s) \in Nat
    BY ExchangeAssumption, LenProperties
  <1>2. PieceLen <= Len(s)
    BY <1>1 DEF Whole
  <1>3. \A k \in 1..PieceLen : s[k] = Byte(i, k, TRUE)
    <2> SUFFICES ASSUME NEW k \in 1..PieceLen
                 PROVE  s[k] = Byte(i, k, TRUE)
      OBVIOUS
    <2>1. 0 + k = k /\ k \in 1..Len(s)
      BY <1>1, <1>2
    <2>2. PICK g \in BOOLEAN : s[0 + k] = Byte(i, k, g)
      BY DEF Whole
    <2>3. s[k] = Byte(i, k, g)
      BY <2>1, <2>2
    <2>4. s[k].t = "byte" /\ s[k].good = g
      BY <2>3, Bytes
    <2>5. g = TRUE
      BY <2>1, <2>4 DEF AllGood
    <2> QED
      BY <2>3, <2>5
  <1> DEFINE r == SubSeq(s, 1, PieceLen)
             p == PieceBytes(i, TRUE)
  <1>4. 1 \in 1..Len(s) /\ PieceLen \in 1..Len(s)
    BY <1>1, <1>2
  <1>5. /\ r \in Seq(Token) /\ Len(r) = PieceLen - 1 + 1
        /\ \A k \in 1..(PieceLen - 1 + 1) : r[k] = s[1 + k - 1]
    BY <1>1, <1>4, SubSeqProperties
  <1>6. Len(r) = PieceLen /\ \A k \in 1..PieceLen : r[k] = s[k]
    BY <1>1, <1>5
  <1>7. /\ p \in Seq(Token) /\ Len(p) = PieceLen
        /\ \A k \in 1..PieceLen : p[k] = Byte(i, k, TRUE)
    BY PieceBytesSeq
  <1> HIDE DEF r, p
  <1>8. r = p
    BY <1>3, <1>5, <1>6, <1>7, SeqEqual
  <1> QED
    BY <1>8 DEF r, p

LEMMA ReadBytesInv ==
    ASSUME IInv, NEW c \in Client, ReadBytes(c)
    PROVE  IInv'
  <1> DEFINE d == main[c].peer
             s == ans[c][d]
             v == srv[d][c]
             i == main[c].index
  <1>1. Types
    BY DEF IInv
  <1>2. main[c].pc = "bytes" /\ Busy(main[c]) /\ d \in Client
    BY <1>1, TypeFacts DEF ReadBytes, At, Busy
  <1>3. s \in Seq(Token) /\ Stream(c) = s /\ i \in Piece
    BY <1>1, <1>2, TypeFacts DEF Stream, MainState
  <1>4. /\ UNCHANGED <<known, disk, ser, up, marked, pos, srv, con>>
        /\ UNCHANGED <<peerMap, req, bounds>>
    BY DEF ReadBytes, diskVars, procVars
  <1>5. PieceLen \in Nat /\ PieceLen >= 1 /\ Len(s) \in Nat
    BY <1>3, ExchangeAssumption, LenProperties
  <1>6. PICK n \in 0..PieceLen :
            /\ n <= Len(s) /\ (n = 0 => Eof(c)) /\ Take(c, n)
            /\ main' = [main EXCEPT ![c].pc = "seek",
                            ![c].good = SubSeq(s, 1, n) = PieceBytes(i, TRUE)]
            /\ spoiled' = IF n < PieceLen THEN spoiled \cup {"short"}
                                          ELSE spoiled
    BY <1>3 DEF ReadBytes
  <1>7. n \in Nat
    BY <1>5
  <1> DEFINE g == SubSeq(s, 1, n) = PieceBytes(i, TRUE)
             r == Dropped(s, n)
  <1>8. /\ main' \in [Client -> MainState]
        /\ main'[c].pc = "seek" /\ main'[c].good = g
        /\ main'[c].peer = d
        /\ \A a \in Client : a # c => main'[a] = main[a]
    <2>1. main \in [Client -> MainState] /\ main[c] \in MainState
      BY <1>1, TypeFacts
    <2>2. g \in BOOLEAN
      OBVIOUS
    <2> DEFINE x == [main[c] EXCEPT !.pc = "seek", !.good = g]
    <2>3. main' = [main EXCEPT ![c] = x]
      BY <1>6, <2>1
    <2> HIDE DEF g
    <2>4. /\ x \in MainState /\ x.pc = "seek" /\ x.good = g
          /\ x.peer = main[c].peer
      BY <2>1, <2>2 DEF MainState
    <2> HIDE DEF x, MainState
    <2> QED
      BY <2>1, <2>3, <2>4, Update1
  <1>9. /\ ans' \in [Client -> [Client -> Seq(Token)]]
        /\ ans'[c][d] = r
        /\ \A a, b \in Client : a # c \/ b # d => ans'[a][b] = ans[a][b]
    BY <1>1, <1>2, <1>3, <1>6, <1>7, TakeFacts
  <1>10. StreamOK(s, v, con[c][d], marked[d], spoiled)
    BY <1>2 DEF IInv, StreamAt
  <1>11. "absent" \notin spoiled => ExpectsPiece(main[c], s, v, con[c][d])
    BY <1>2 DEF IInv, ReaderOf, ReaderOK
  <1>12. n = 0 => s = <<>> /\ con[c][d] # "open"
    BY <1>3, <1>6 DEF Eof
  <1>13. s = <<>> => Len(s) = 0
    BY EmptySeq
  <1>14. "absent" \notin spoiled /\ n # 0 => Whole(s, 0, i)
    BY <1>2, <1>5, <1>6, <1>11, <1>13 DEF ExpectsPiece
  \* all the piece is taken: what follows is for the thread to say
  <1>15. "absent" \notin spoiled => ExpectsIndex(main'[c], r, v, con[c][d])
    <2>1. SUFFICES ASSUME "absent" \notin spoiled, r = <<>>,
                          con[c][d] = "open"
                   PROVE  v.pc = "next"
      BY DEF ExpectsIndex
    <2>2. n = Len(s)
      BY <1>3, <1>6, <1>7, <2>1, DropSeq
    <2>3. n # 0 /\ s # <<>>
      BY <1>12, <1>13, <2>1, <2>2
    <2>4. PieceLen <= Len(s)
      BY <1>5, <1>14, <2>1, <2>3 DEF Whole
    <2>5. Len(s) = PieceLen
      BY <1>5, <1>6, <2>2, <2>4
    <2>6. \E b \in BOOLEAN : s[PieceLen] = Byte(i, PieceLen, b)
      <3>1. PieceLen \in 1..PieceLen /\ 0 + PieceLen = PieceLen
        BY <1>5
      <3>2. \E b \in BOOLEAN : s[0 + PieceLen] = Byte(i, PieceLen, b)
        BY <1>14, <2>1, <2>3, <3>1 DEF Whole
      <3> QED
        BY <3>1, <3>2
    <2>7. PICK b \in BOOLEAN : LastIs(s, Byte(i, PieceLen, b))
      BY <2>3, <2>5, <2>6 DEF LastIs
    <2>8. PieceEnd(s, v)
      BY <1>10, <2>1 DEF StreamOK
    <2> QED
      BY <1>3, <2>7, <2>8 DEF PieceEnd
  <1>16. spoiled \subseteq spoiled'
            /\ spoiled' \subseteq {"short", "absent", "seek"}
    BY <1>1, <1>6, TypeFacts
  <1>17. spoiled' = {} => g = TRUE
    <2>1. SUFFICES ASSUME spoiled' = {}
                   PROVE  g
      OBVIOUS
    <2>2. ~(n < PieceLen) /\ spoiled' = spoiled
      BY <1>6, <2>1
    <2>3. n = PieceLen /\ n # 0
      BY <1>5, <2>2
    <2>4. spoiled = {}
      BY <2>1, <2>2
    <2>5. Whole(s, 0, i)
      BY <1>14, <2>3, <2>4
    <2>6. AllGood(s)
      BY <1>10, <2>4 DEF StreamOK
    <2>7. SubSeq(s, 1, PieceLen) = PieceBytes(i, TRUE)
      BY <1>3, <2>5, <2>6, ReadGood
    <2> QED
      BY <2>3, <2>7
  <1>18. ReaderOK(main'[c], r, v, con[c][d], req'[c][d], spoiled')
    BY <1>8, <1>15, <1>16
       DEF ReaderOK, ExpectsMap, ExpectsPiece, ExpectsAnswer
  <1>19. \A a, b \in Client : PeerAt(a, b)'
    <2>1. UNCHANGED <<known, con, peerMap, marked>>
      BY <1>4
    <2> QED
      BY <2>1, PeerFrame
  <1>20. /\ peerMap' \in [Client -> [Client -> SUBSET Piece]]
         /\ req' \in [Client -> [Client -> Seq(Request)]]
         /\ \A a, b \in Client : a # c \/ b # d => req'[a][b] = req[a][b]
         /\ UNCHANGED bounds
    BY <1>1, <1>4, TypeFacts
  <1>21. /\ Busy(main'[c]) => main'[c].peer = d
         /\ main'[c].pc \notin {"write", "cut", "mark"}
         /\ main'[c].pc = "seek" /\ spoiled' = {} => main'[c].good = TRUE
         /\ Busy(main'[c]) => ReaderOK(main'[c], r, v, con[c][d], req'[c][d],
                                       spoiled')
    BY <1>8, <1>17, <1>18
  <1>22. /\ d = main[c].peer /\ d \in Client /\ n \in Nat
         /\ n <= Len(ans[c][d]) /\ s = ans[c][d] /\ v = srv[d][c]
    BY <1>2, <1>6, <1>7
  <1>23. /\ main' \in [Client -> MainState]
         /\ \A a \in Client : a # c => main'[a] = main[a]
    BY <1>8
  <1>24. UNCHANGED <<known, disk, ser, up, marked, pos, srv, con>>
    BY <1>4
  <1> HIDE DEF s, v, d, i, g
  <1> QED
    BY <1>9, <1>16, <1>19, <1>20, <1>21, <1>22, <1>23, <1>24,
       ReadInv, ZenonT(40)

\* A step inside writePiece, which reads nothing.
\* writePiece: where the main thread is, and where it goes.
InPiece == {"seek", "write", "cut", "mark"}
NextInPiece == {"write", "cut", "mark", "index"}

LEMMA PieceStep ==
    ASSUME IInv, NEW c \in Client, NEW d \in Client, d = main[c].peer,
           main[c].pc \in InPiece, NEW p \in NextInPiece, Goto(c, p),
           DiskOK(main'[c], marked'[c], ser[c].marked, disk'[c], spoiled'),
           marked' \in [Client -> SUBSET Piece],
           \A a \in Client : marked[a] \subseteq marked'[a],
           \A a \in Client : a # c => marked'[a] = marked[a],
           disk' \in [Client -> [Offset -> {"right", "wrong", "hole"}]],
           \A a \in Client : a # c => disk'[a] = disk[a],
           pos' \in [Client -> Offset],
           spoiled \subseteq spoiled',
           spoiled' \subseteq {"short", "absent", "seek"},
           ans' \in [Client -> [Client -> Seq(Token)]],
           req' \in [Client -> [Client -> Seq(Request)]],
           peerMap' \in [Client -> [Client -> SUBSET Piece]],
           \A a, b \in Client : a # c \/ b # d => ans'[a][b] = ans[a][b],
           \A a, b \in Client : a # c \/ b # d => req'[a][b] = req[a][b],
           ans'[c][d] = ans[c][d], req'[c][d] = req[c][d],
           \A a, b \in Client : PeerAt(a, b)',
           UNCHANGED <<known, ser, up, srv, con, bounds>>
    PROVE  IInv'
  <1> USE DEF InPiece, NextInPiece
  <1> DEFINE s == ans[c][d]
             v == srv[d][c]
  <1>1. Types
    BY DEF IInv
  <1>2. Busy(main[c]) /\ d \in Client
    BY <1>1, TypeFacts DEF Busy
  <1>3. /\ main' \in [Client -> MainState]
        /\ main'[c].pc = p /\ main'[c].peer = d
        /\ \A a \in Client : a # c => main'[a] = main[a]
    BY <1>1, GotoFacts
  <1>4. StreamOK(s, v, con[c][d], marked[d], spoiled)
            /\ (con[c][d] = "none" => s = <<>>)
    BY <1>2 DEF IInv, StreamAt, ConOK
  <1>5. StreamOK(s, v, con[c][d], marked[d], spoiled')
    <2> HIDE DEF s, v
    <2> QED
      BY <1>4 DEF StreamOK
  <1>6. ReaderOK(main[c], s, v, con[c][d], req[c][d], spoiled)
    BY <1>2 DEF IInv, ReaderOf
  <1>7. ReaderOK(main'[c], s, v, con[c][d], req[c][d], spoiled')
    BY <1>3, <1>6 DEF ReaderOK, ExpectsMap, ExpectsPiece, ExpectsIndex,
                      ExpectsAnswer
  <1>8. ans'[c][d] = s /\ req'[c][d] = req[c][d]
    OBVIOUS
  <1>9. con[c][d] = "none" => ans'[c][d] = <<>>
    BY <1>4, <1>8
  <1>10. StreamOK(ans'[c][d], srv[d][c], con[c][d], marked[d], spoiled')
    BY <1>5, <1>8
  <1>11. Busy(main'[c]) => main'[c].peer = d
    BY <1>3
  <1>12. Busy(main'[c]) => ReaderOK(main'[c], ans'[c][d], srv[d][c],
                                    con[c][d], req'[c][d], spoiled')
    BY <1>7, <1>8
  <1>13. /\ main' \in [Client -> MainState]
         /\ \A a \in Client : a # c => main'[a] = main[a]
    BY <1>3
  <1> HIDE DEF s, v
  <1>14. MainChange(c, d)
    BY <1>9, <1>10, <1>11, <1>12, <1>13 DEF MainChange
  <1> QED
    BY <1>14, MainInv

LEMMA SeekPieceInv ==
    ASSUME IInv, NEW c \in Client, SeekPiece(c)
    PROVE  IInv'
  <1>1. Types /\ DiskAt(c)
    BY DEF IInv
  <1>2. main[c].pc = "seek" /\ Goto(c, "write")
    BY DEF SeekPiece, At
  <1>3. /\ UNCHANGED <<marked, disk, spoiled>> /\ UNCHANGED bounds
        /\ UNCHANGED <<known, ser, up, peerMap, con, req, ans, srv>>
    BY DEF SeekPiece, diskVars, conVars
  <1>4. main'[c].pc = "write" /\ main'[c].good = main[c].good
    BY <1>1, <1>2, GotoFacts
  <1>5. DiskOK(main'[c], marked'[c], ser[c].marked, disk'[c], spoiled')
    BY <1>1, <1>2, <1>3, <1>4 DEF DiskAt, DiskOK
  <1>6. pos' \in [Client -> Offset]
    <2>1. pos \in [Client -> Offset] /\ main[c].index \in Piece
      BY <1>1, TypeFacts DEF MainState
    <2>2. main[c].index \in Offset
      BY <2>1, ExchangeAssumption DEF Piece, Offset
    <2>3. pos' = [pos EXCEPT ![c] = main[c].index]
      BY DEF SeekPiece
    <2> QED
      BY <2>1, <2>2, <2>3
  <1>7. /\ marked' \in [Client -> SUBSET Piece]
        /\ disk' \in [Client -> [Offset -> {"right", "wrong", "hole"}]]
        /\ spoiled \subseteq spoiled'
        /\ spoiled' \subseteq {"short", "absent", "seek"}
    BY <1>1, <1>3, TypeFacts
  <1>8. /\ \A a \in Client : marked[a] \subseteq marked'[a]
        /\ \A a \in Client : a # c => marked'[a] = marked[a]
        /\ \A a \in Client : a # c => disk'[a] = disk[a]
    BY <1>3
  <1>9. /\ UNCHANGED <<known, ser, up, peerMap, con, req, ans, srv>>
        /\ UNCHANGED bounds
    BY <1>3
  <1> DEFINE d == main[c].peer
  <1>10. d \in Client /\ d = main[c].peer
    BY <1>1, <1>2, TypeFacts DEF Busy
  <1>11. /\ ans' \in [Client -> [Client -> Seq(Token)]]
         /\ req' \in [Client -> [Client -> Seq(Request)]]
         /\ peerMap' \in [Client -> [Client -> SUBSET Piece]]
    BY <1>1, <1>3, TypeFacts
  <1>12. \A a, b \in Client : a # c \/ b # d => ans'[a][b] = ans[a][b]
    BY <1>3
  <1>13. \A a, b \in Client : a # c \/ b # d => req'[a][b] = req[a][b]
    BY <1>3
  <1>14. ans'[c][d] = ans[c][d] /\ req'[c][d] = req[c][d]
    BY <1>3
  <1>15. UNCHANGED <<known, ser, up, srv, con, bounds>>
    BY <1>3
  <1>16. \A a, b \in Client : PeerAt(a, b)'
    <2>1. \A a \in Client : marked[a] \subseteq marked'[a]
      BY <1>8
    <2>2. UNCHANGED <<known, con, peerMap>>
      BY <1>3
    <2> QED
      BY <2>1, <2>2, PeerFrame
  <1>17. main[c].pc \in InPiece /\ \E p \in NextInPiece : Goto(c, p)
    BY <1>2 DEF InPiece, NextInPiece
  <1> HIDE DEF d
  <1> QED
    BY <1>5, <1>6, <1>7, <1>8, <1>10, <1>11, <1>12, <1>13, <1>14,
       <1>15, <1>16, <1>17, PieceStep, ZenonT(40)

LEMMA MarkPieceInv ==
    ASSUME IInv, NEW c \in Client, MarkPiece(c)
    PROVE  IInv'
  <1> DEFINE i == main[c].index
  <1>1. Types /\ DiskAt(c)
    BY DEF IInv
  <1>2. main[c].pc = "mark" /\ Goto(c, "index")
    BY DEF MarkPiece, At
  <1>3. /\ UNCHANGED <<pos, disk, spoiled>> /\ UNCHANGED bounds
        /\ UNCHANGED <<known, ser, up, peerMap, con, req, ans, srv>>
    BY DEF MarkPiece, diskVars, conVars
  <1>4. main'[c].pc = "index"
    BY <1>1, <1>2, GotoFacts
  <1>5. /\ marked' \in [Client -> SUBSET Piece]
        /\ marked'[c] = marked[c] \cup {i}
        /\ \A a \in Client : a # c => marked'[a] = marked[a]
    <2>1. marked \in [Client -> SUBSET Piece] /\ i \in Piece
      BY <1>1, TypeFacts DEF MainState
    <2>2. marked' = [marked EXCEPT ![c] = marked[c] \cup {i}]
      BY <2>1 DEF MarkPiece
    <2>3. marked[c] \cup {i} \in SUBSET Piece
      BY <2>1
    <2> HIDE DEF i, Piece
    <2> QED
      BY <2>1, <2>2, <2>3, Update1
  <1>6. DiskOK(main'[c], marked[c] \cup {i}, ser[c].marked, disk[c], spoiled)
    BY <1>1, <1>2, <1>4 DEF DiskAt, DiskOK
  <1>7. DiskOK(main'[c], marked'[c], ser[c].marked, disk'[c], spoiled')
    BY <1>3, <1>5, <1>6
  <1>8. /\ pos' \in [Client -> Offset]
        /\ disk' \in [Client -> [Offset -> {"right", "wrong", "hole"}]]
        /\ spoiled \subseteq spoiled'
        /\ spoiled' \subseteq {"short", "absent", "seek"}
    BY <1>1, <1>3, TypeFacts
  <1>9. /\ \A a \in Client : marked[a] \subseteq marked'[a]
        /\ \A a \in Client : a # c => marked'[a] = marked[a]
        /\ \A a \in Client : a # c => disk'[a] = disk[a]
    BY <1>3, <1>5
  <1>10. /\ UNCHANGED <<known, ser, up, peerMap, con, req, ans, srv>>
         /\ UNCHANGED bounds
    BY <1>3
  <1> DEFINE d == main[c].peer
  <1>11. d \in Client /\ d = main[c].peer
    BY <1>1, <1>2, TypeFacts DEF Busy
  <1>12. /\ ans' \in [Client -> [Client -> Seq(Token)]]
         /\ req' \in [Client -> [Client -> Seq(Request)]]
         /\ peerMap' \in [Client -> [Client -> SUBSET Piece]]
    BY <1>1, <1>3, TypeFacts
  <1>13. \A a, b \in Client : a # c \/ b # d => ans'[a][b] = ans[a][b]
    BY <1>3
  <1>14. \A a, b \in Client : a # c \/ b # d => req'[a][b] = req[a][b]
    BY <1>3
  <1>15. ans'[c][d] = ans[c][d] /\ req'[c][d] = req[c][d]
    BY <1>3
  <1>16. UNCHANGED <<known, ser, up, srv, con, bounds>>
    BY <1>3
  <1>17. \A a, b \in Client : PeerAt(a, b)'
    <2>1. \A a \in Client : marked[a] \subseteq marked'[a]
      BY <1>9
    <2>2. UNCHANGED <<known, con, peerMap>>
      BY <1>3
    <2> QED
      BY <2>1, <2>2, PeerFrame
  <1>18. marked' \in [Client -> SUBSET Piece]
    BY <1>5
  <1>19. main[c].pc \in InPiece /\ \E p \in NextInPiece : Goto(c, p)
    BY <1>2 DEF InPiece, NextInPiece
  <1> HIDE DEF d, i
  <1> QED
    BY <1>7, <1>19, <1>8, <1>9, <1>11, <1>12, <1>13, <1>14,
       <1>15, <1>16, <1>17, <1>18, PieceStep, ZenonT(40)

LEMMA WritePieceInv ==
    ASSUME IInv, NEW c \in Client, WritePiece(c)
    PROVE  IInv'
  <1> DEFINE i == main[c].index
             o == pos[c]
             content == IF o = i /\ main[c].good THEN "right" ELSE "wrong"
             after == IF i = PieceCount THEN "cut" ELSE "mark"
  <1>1. Types /\ DiskAt(c)
    BY DEF IInv
  <1>2. main[c].pc = "write" /\ Goto(c, after) /\ after \in {"cut", "mark"}
    BY DEF WritePiece, At
  <1>3. /\ UNCHANGED marked /\ UNCHANGED bounds
        /\ UNCHANGED <<known, ser, up, peerMap, con, req, ans, srv>>
    BY DEF WritePiece, conVars
  <1>4. PICK over \in Surplus(c, o) :
            disk' = [disk EXCEPT ![c] = [@ EXCEPT ![PieceCount + 1] = over,
                                                  ![o] = content]]
    BY DEF WritePiece
  <1> DEFINE cut == [disk[c] EXCEPT ![PieceCount + 1] = over]
             D == [cut EXCEPT ![o] = content]
  <1>5. /\ pos' = [pos EXCEPT ![c] = Beyond(o)]
        /\ spoiled' = IF o # i THEN spoiled \cup {"seek"} ELSE spoiled
    BY DEF WritePiece
  <1>6. main'[c].pc \in {"cut", "mark"} /\ main'[c].index = i
    BY <1>1, <1>2, GotoFacts
  <1>7. /\ i \in Piece /\ o \in Offset
        /\ disk \in [Client -> [Offset -> {"right", "wrong", "hole"}]]
        /\ disk[c] \in [Offset -> {"right", "wrong", "hole"}]
        /\ pos \in [Client -> Offset]
        /\ marked[c] \subseteq Piece /\ ser[c].marked \subseteq Piece
        /\ main[c].good \in BOOLEAN
    BY <1>1, TypeFacts DEF MainState, Types, DiskTypes, Save
  <1>8. /\ PieceCount \in Nat /\ PieceCount + 1 \notin Piece
        /\ PieceCount + 1 \in Offset /\ Piece \subseteq Offset
    BY ExchangeAssumption DEF Piece, Offset
  <1>9. over \in {"right", "wrong", "hole"}
    BY <1>7, <1>8 DEF Surplus
  <1>10. cut \in [Offset -> {"right", "wrong", "hole"}]
    BY <1>7, <1>9
  <1>11. D \in [Offset -> {"right", "wrong", "hole"}]
    <2>1. content \in {"right", "wrong", "hole"}
      OBVIOUS
    <2> HIDE DEF cut, content
    <2> QED
      BY <1>10, <2>1
  <1>12. disk' = [disk EXCEPT ![c] = D]
    BY <1>7, <1>4
  <1>13. /\ disk' \in [Client -> [Offset -> {"right", "wrong", "hole"}]]
         /\ disk'[c] = D
         /\ \A a \in Client : a # c => disk'[a] = disk[a]
    <2> HIDE DEF D
    <2> QED
      BY <1>7, <1>11, <1>12, Update1
  <1>14. Beyond(o) \in Offset
    BY <1>7, ExchangeAssumption DEF Beyond, Piece, Offset
  <1>15. pos' \in [Client -> Offset]
    BY <1>5, <1>7, <1>14
  \* the piece itself, and what is left of the others
  <1>16. ASSUME o = i
         PROVE  D[i] = content /\ \A p \in Piece : p # i => D[p] = disk[c][p]
    <2>1. \A p \in Piece : cut[p] = disk[c][p]
      BY <1>7, <1>8
    <2>2. \A p \in Piece : D[p] = IF p = i THEN content ELSE cut[p]
      <3> HIDE DEF content, cut
      <3> QED
        BY <1>8, <1>10, <1>16
    <2> HIDE DEF D, cut, content
    <2> QED
      BY <1>7, <2>1, <2>2
  <1>17. "seek" \notin spoiled' => o = i /\ spoiled' = spoiled
    BY <1>5
  <1>18. spoiled' = {} => o = i /\ spoiled = {} /\ content = "right"
    <2>1. ASSUME spoiled' = {}
          PROVE  o = i /\ spoiled = {}
      BY <1>17, <2>1
    <2>2. spoiled = {} => main[c].good = TRUE
      BY <1>1, <1>2 DEF DiskAt, DiskOK
    <2> QED
      BY <2>1, <2>2
  <1>19. content # "hole"
    OBVIOUS
  <1> HIDE DEF D, cut, content, after
  <1>20. DiskOK(main'[c], marked[c], ser[c].marked, D, spoiled')
    <2>1. ASSUME "seek" \notin spoiled'
          PROVE  /\ \A p \in marked[c] \cup ser[c].marked : D[p] # "hole"
                 /\ D[i] # "hole"
      <3>1. o = i /\ "seek" \notin spoiled
        BY <1>17, <2>1
      <3>2. \A p \in marked[c] \cup ser[c].marked : disk[c][p] # "hole"
        BY <1>1, <3>1 DEF DiskAt, DiskOK
      <3> QED
        BY <1>7, <1>16, <1>19, <3>1, <3>2
    <2>2. ASSUME spoiled' = {}
          PROVE  /\ \A p \in marked[c] \cup ser[c].marked : D[p] = "right"
                 /\ D[i] = "right"
      <3>1. o = i /\ spoiled = {} /\ content = "right"
        BY <1>18, <2>2
      <3>2. \A p \in marked[c] \cup ser[c].marked : disk[c][p] = "right"
        BY <1>1, <3>1 DEF DiskAt, DiskOK
      <3> QED
        BY <1>7, <1>16, <3>1, <3>2
    <2> QED
      BY <1>6, <2>1, <2>2 DEF DiskOK
  <1>21. DiskOK(main'[c], marked'[c], ser[c].marked, disk'[c], spoiled')
    BY <1>3, <1>13, <1>20
  <1>22. /\ marked' \in [Client -> SUBSET Piece]
         /\ \A a \in Client : marked[a] \subseteq marked'[a]
         /\ \A a \in Client : a # c => marked'[a] = marked[a]
    BY <1>1, <1>3, TypeFacts
  <1>23. spoiled \subseteq spoiled'
            /\ spoiled' \subseteq {"short", "absent", "seek"}
    BY <1>1, <1>5, TypeFacts
  <1>24. /\ UNCHANGED <<known, ser, up, peerMap, con, req, ans, srv>>
         /\ UNCHANGED bounds
    BY <1>3
  <1>25. /\ disk' \in [Client -> [Offset -> {"right", "wrong", "hole"}]]
         /\ \A a \in Client : a # c => disk'[a] = disk[a]
    BY <1>13
  <1> DEFINE d == main[c].peer
  <1>26. d \in Client /\ d = main[c].peer
    BY <1>1, <1>2, TypeFacts DEF Busy
  <1>27. /\ ans' \in [Client -> [Client -> Seq(Token)]]
         /\ req' \in [Client -> [Client -> Seq(Request)]]
         /\ peerMap' \in [Client -> [Client -> SUBSET Piece]]
    BY <1>1, <1>3, TypeFacts
  <1>28. \A a, b \in Client : a # c \/ b # d => ans'[a][b] = ans[a][b]
    BY <1>3
  <1>29. \A a, b \in Client : a # c \/ b # d => req'[a][b] = req[a][b]
    BY <1>3
  <1>30. ans'[c][d] = ans[c][d] /\ req'[c][d] = req[c][d]
    BY <1>3
  <1>31. UNCHANGED <<known, ser, up, srv, con, bounds>>
    BY <1>3
  <1>32. \A a, b \in Client : PeerAt(a, b)'
    <2>1. \A a \in Client : marked[a] \subseteq marked'[a]
      BY <1>22
    <2>2. UNCHANGED <<known, con, peerMap>>
      BY <1>3
    <2> QED
      BY <2>1, <2>2, PeerFrame
  <1> HIDE DEF d
  <1>33. main[c].pc \in InPiece /\ \E p \in NextInPiece : Goto(c, p)
    BY <1>2 DEF InPiece, NextInPiece
  <1> HIDE DEF i, o
  <1> QED
    BY <1>15, <1>21, <1>22, <1>23, <1>25, <1>26, <1>27, <1>28, <1>29,
       <1>30, <1>31, <1>32, <1>33, PieceStep, ZenonT(40)

LEMMA TruncateFileInv ==
    ASSUME IInv, NEW c \in Client, TruncateFile(c)
    PROVE  IInv'
  <1> DEFINE D == [disk[c] EXCEPT ![PieceCount + 1] = "hole"]
  <1>1. Types /\ DiskAt(c)
    BY DEF IInv
  <1>2. main[c].pc = "cut" /\ Goto(c, "mark")
    BY DEF TruncateFile, At
  <1>3. /\ UNCHANGED <<marked, pos, spoiled>> /\ UNCHANGED bounds
        /\ UNCHANGED <<known, ser, up, peerMap, con, req, ans, srv>>
    BY DEF TruncateFile, procVars, conVars
  <1>4. main'[c].pc = "mark" /\ main'[c].index = main[c].index
    BY <1>1, <1>2, GotoFacts
  <1>5. /\ main[c].index \in Piece
        /\ disk \in [Client -> [Offset -> {"right", "wrong", "hole"}]]
        /\ disk[c] \in [Offset -> {"right", "wrong", "hole"}]
        /\ marked[c] \subseteq Piece /\ ser[c].marked \subseteq Piece
    BY <1>1, TypeFacts DEF MainState, Types, DiskTypes, Save
  <1>6. /\ D \in [Offset -> {"right", "wrong", "hole"}]
        /\ \A p \in Piece : D[p] = disk[c][p]
    BY <1>5, ExchangeAssumption DEF Piece, Offset
  <1>7. disk' = [disk EXCEPT ![c] = D]
    BY <1>5 DEF TruncateFile
  <1> HIDE DEF D
  <1>8. /\ disk' \in [Client -> [Offset -> {"right", "wrong", "hole"}]]
        /\ disk'[c] = D
        /\ \A a \in Client : a # c => disk'[a] = disk[a]
    BY <1>5, <1>6, <1>7, Update1
  \* no piece is touched
  <1>9. DiskOK(main'[c], marked[c], ser[c].marked, D, spoiled)
    <2>1. DiskOK(main[c], marked[c], ser[c].marked, disk[c], spoiled)
      BY <1>1 DEF DiskAt
    <2>2. \A p \in marked[c] \cup ser[c].marked : D[p] = disk[c][p]
      BY <1>5, <1>6
    <2>3. D[main[c].index] = disk[c][main[c].index]
      BY <1>5, <1>6
    <2> QED
      BY <1>2, <1>4, <2>1, <2>2, <2>3 DEF DiskOK
  <1>10. DiskOK(main'[c], marked'[c], ser[c].marked, disk'[c], spoiled')
    BY <1>3, <1>8, <1>9
  <1>11. /\ marked' \in [Client -> SUBSET Piece]
         /\ \A a \in Client : marked[a] \subseteq marked'[a]
         /\ \A a \in Client : a # c => marked'[a] = marked[a]
         /\ pos' \in [Client -> Offset]
         /\ spoiled \subseteq spoiled'
         /\ spoiled' \subseteq {"short", "absent", "seek"}
    BY <1>1, <1>3, TypeFacts
  <1> DEFINE d == main[c].peer
  <1>12. d \in Client /\ d = main[c].peer
    BY <1>1, <1>2, TypeFacts DEF Busy
  <1>13. /\ ans' \in [Client -> [Client -> Seq(Token)]]
         /\ req' \in [Client -> [Client -> Seq(Request)]]
         /\ peerMap' \in [Client -> [Client -> SUBSET Piece]]
    BY <1>1, <1>3, TypeFacts
  <1>14. \A a, b \in Client : a # c \/ b # d => ans'[a][b] = ans[a][b]
    BY <1>3
  <1>15. \A a, b \in Client : a # c \/ b # d => req'[a][b] = req[a][b]
    BY <1>3
  <1>16. ans'[c][d] = ans[c][d] /\ req'[c][d] = req[c][d]
    BY <1>3
  <1>17. UNCHANGED <<known, ser, up, srv, con, bounds>>
    BY <1>3
  <1>18. \A a, b \in Client : PeerAt(a, b)'
    <2>1. \A a \in Client : marked[a] \subseteq marked'[a]
      BY <1>11
    <2>2. UNCHANGED <<known, con, peerMap>>
      BY <1>3
    <2> QED
      BY <2>1, <2>2, PeerFrame
  <1>19. main[c].pc \in InPiece /\ \E p \in NextInPiece : Goto(c, p)
    BY <1>2 DEF InPiece, NextInPiece
  <1> HIDE DEF d
  <1> QED
    BY <1>8, <1>10, <1>11, <1>12, <1>13, <1>14, <1>15, <1>16, <1>17,
       <1>18, <1>19, PieceStep, ZenonT(40)
-----------------------------------------------------------------------------
(* The steps that touch only a disk, or a main thread that reads nothing.  *)

LEMMA LookInv ==
    ASSUME IInv, NEW c \in Client, Look(c)
    PROVE  IInv'
  <1>1. Types
    BY DEF IInv
  <1>2. /\ known[c] = "none" /\ known' = [known EXCEPT ![c] = "part"]
        /\ UNCHANGED <<disk, ser>> /\ UNCHANGED <<up, marked, pos, peerMap>>
        /\ UNCHANGED <<main, con, req, ans, srv>>
        /\ UNCHANGED <<nask, ncrash, spoiled>>
    BY DEF Look, procVars, conVars, bounds
  <1>3. /\ known' \in [Client -> {"none", "part", "seed", "other"}]
        /\ known'[c] = "part"
        /\ \A a \in Client : a # c => known'[a] = known[a]
    BY <1>1, <1>2 DEF Types, DiskTypes
  <1>4. Types'
    BY <1>1, <1>2, <1>3
       DEF Types, DiskTypes, ProcTypes, MainTypes, ConTypes, BoundTypes, Busy
  <1>5. ASSUME NEW a \in Client
        PROVE  DiskAt(a)'
    <2>1. DiskAt(a)
      BY DEF IInv
    <2> QED
      BY <1>2, <1>3, <2>1 DEF DiskAt, KeyOK
  <1>6. ASSUME NEW a \in Client, NEW b \in Client
        PROVE  StreamAt(a, b)' /\ ReaderOf(a, b)'
    BY <1>2, StreamFrame, ReaderFrame
  <1>7. ASSUME NEW a \in Client, NEW b \in Client
        PROVE  PeerAt(a, b)'
    <2>1. known'[a] = known[a] \/ known[a] # "seed"
      BY <1>2, <1>3
    <2> QED
      BY <1>2, <2>1, PeerFrame
  <1> QED
    BY <1>4, <1>5, <1>6, <1>7 DEF IInv

LEMMA SaveInv ==
    ASSUME IInv, NEW c \in Client, SaveOpen(c) \/ SaveWrite(c)
    PROVE  IInv'
  <1>1. Types
    BY DEF IInv
  <1>2. PICK x \in {TornSave, Saved(c)} : ser' = [ser EXCEPT ![c] = x]
    BY DEF SaveOpen, SaveWrite
  <1>3. /\ UNCHANGED <<known, disk>> /\ UNCHANGED <<up, marked, pos, peerMap>>
        /\ UNCHANGED <<main, con, req, ans, srv>>
        /\ UNCHANGED <<nask, ncrash, spoiled>>
    BY DEF SaveOpen, SaveWrite, procVars, conVars, bounds
  <1>4. /\ x \in Save
        /\ x.marked \subseteq marked[c]
        /\ x.known \in {"part", "seed"} => x.known = known[c]
    <2>1. /\ known[c] \in {"none", "part", "seed", "other"}
          /\ marked[c] \in SUBSET Piece
      BY <1>1 DEF Types, DiskTypes, ProcTypes
    <2>2. CASE x = TornSave
      BY <2>2 DEF TornSave, Save
    <2>3. CASE x = Saved(c)
      BY <2>1, <2>3 DEF Saved, Save
    <2> QED
      BY <2>2, <2>3
  <1>5. /\ ser' \in [Client -> Save] /\ ser'[c] = x
        /\ \A a \in Client : a # c => ser'[a] = ser[a]
    <2>1. ser \in [Client -> Save]
      BY <1>1 DEF Types, DiskTypes
    <2> HIDE DEF Save
    <2> QED
      BY <1>2, <1>4, <2>1
  <1>6. Types'
    BY <1>1, <1>3, <1>5
       DEF Types, DiskTypes, ProcTypes, MainTypes, ConTypes, BoundTypes, Busy
  <1>7. ASSUME NEW a \in Client
        PROVE  DiskAt(a)'
    <2>1. DiskAt(a)
      BY DEF IInv
    <2>2. CASE a # c
      BY <1>3, <1>5, <2>1, <2>2 DEF DiskAt
    <2>3. CASE a = c
      <3>1. DiskOK(main[c], marked[c], x.marked, disk[c], spoiled)
        BY <1>4, <2>1, <2>3 DEF DiskAt, DiskOK
      <3>2. KeyOK(known[c], x)
        BY <1>4 DEF KeyOK
      <3> QED
        BY <1>3, <1>5, <2>3, <3>1, <3>2 DEF DiskAt
    <2> QED
      BY <2>2, <2>3
  <1>8. ASSUME NEW a \in Client, NEW b \in Client
        PROVE  StreamAt(a, b)' /\ ReaderOf(a, b)' /\ PeerAt(a, b)'
    BY <1>3, StreamFrame, ReaderFrame, PeerFrame
  <1> QED
    BY <1>6, <1>7, <1>8 DEF IInv

LEMMA ConnectFailsInv ==
    ASSUME IInv, NEW c \in Client, NEW d \in Client, ConnectFails(c, d)
    PROVE  IInv'
  <1>1. Types
    BY DEF IInv
  <1>2. /\ UNCHANGED <<known, disk, ser>>
        /\ UNCHANGED <<up, marked, pos, peerMap>>
        /\ UNCHANGED <<con, req, ans, srv>> /\ UNCHANGED <<ncrash, spoiled>>
    BY DEF ConnectFails, diskVars, procVars, conVars
  <1>3. nask' \in 0..MaxAsk
    <2>1. nask \in 0..MaxAsk /\ nask < MaxAsk /\ nask' = nask + 1
      BY <1>1 DEF ConnectFails, Types, BoundTypes
    <2> QED
      BY <2>1, ExchangeAssumption
  <1>4. /\ main' \in [Client -> MainState] /\ ~Busy(main'[c])
        /\ \A a \in Client : a # c => main'[a] = main[a]
    BY <1>1, FailFacts DEF ConnectFails
  <1>5. Types'
    <2>1. MainTypes'
      BY <1>1, <1>4 DEF Types, MainTypes, Busy
    <2> QED
      BY <1>1, <1>2, <1>3, <2>1
         DEF Types, DiskTypes, ProcTypes, ConTypes, BoundTypes
  <1>6. ASSUME NEW a \in Client
        PROVE  DiskAt(a)'
    <2>1. \/ main'[a] = main[a]
          \/ main'[a].pc \notin {"seek", "write", "cut", "mark"}
      BY <1>4 DEF Busy
    <2> QED
      BY <1>2, <2>1, DiskFrame
  <1>7. ASSUME NEW a \in Client, NEW b \in Client
        PROVE  StreamAt(a, b)' /\ PeerAt(a, b)'
    BY <1>2, StreamFrame, PeerFrame
  <1>8. ASSUME NEW a \in Client, NEW b \in Client
        PROVE  ReaderOf(a, b)'
    <2>1. CASE a # c
      <3>1. main'[a] = main[a]
        BY <1>4, <2>1
      <3> QED
        BY <1>2, <3>1, ReaderFrame
    <2>2. CASE a = c
      BY <1>4, <2>2 DEF ReaderOf, Busy
    <2> QED
      BY <2>1, <2>2
  <1> QED
    BY <1>5, <1>6, <1>7, <1>8 DEF IInv

LEMMA RestartInv ==
    ASSUME IInv, NEW c \in Client, Restart(c)
    PROVE  IInv'
  <1> DEFINE s == LoadedState(c)
  <1>1. Types /\ DiskAt(c)
    BY DEF IInv
  <1>2. /\ UNCHANGED <<disk, ser>> /\ UNCHANGED pos
        /\ UNCHANGED <<main, con, req, ans, srv>>
        /\ UNCHANGED <<nask, ncrash, spoiled>>
    BY DEF Restart, conVars, bounds
  <1>3. /\ ~up[c] /\ up' = [up EXCEPT ![c] = TRUE]
        /\ known' = [known EXCEPT ![c] = s.known]
        /\ marked' = [marked EXCEPT ![c] = s.marked]
        /\ peerMap' = [peerMap EXCEPT ![c] =
                           [d \in Client |-> FreshMap(s.known)]]
    BY DEF Restart
  \* the four ways a file is found again
  <1>4. /\ s \in Save /\ s.known # "torn"
        /\ DiskOK(main[c], s.marked, ser[c].marked, disk[c], spoiled)
        /\ KeyOK(s.known, ser[c])
    <2>1. ser[c] \in Save
      BY <1>1 DEF Types, DiskTypes
    <2>2. CASE known[c] = "none"
      <3>1. s = NoSave
        BY <2>2 DEF LoadedState
      <3> QED
        BY <1>1, <3>1 DEF NoSave, Save, DiskAt, DiskOK, KeyOK
    <2>3. CASE known[c] # "none" /\ IntactSave(c)
      <3>1. s = ser[c]
        BY <2>3 DEF LoadedState
      <3>2. KeyOK(s.known, ser[c]) /\ s.known # "torn"
        BY <2>3, <3>1 DEF IntactSave, KeyOK
      <3>3. DiskOK(main[c], ser[c].marked, ser[c].marked, disk[c], spoiled)
        BY <1>1 DEF DiskAt, DiskOK
      <3> HIDE DEF s
      <3> QED
        BY <2>1, <3>1, <3>2, <3>3
    <2>4. CASE known[c] # "none" /\ ~IntactSave(c) /\ Complete(c)
      <3>1. s = [known |-> "seed", marked |-> Piece]
        BY <2>4 DEF LoadedState
      <3>2. \A p \in Piece : disk[c][p] = "right"
        BY <2>4 DEF Complete
      <3>3. s \in Save /\ s.known = "seed" /\ s.marked = Piece
        BY <3>1 DEF Save
      <3>4. ser[c].marked \subseteq Piece
        BY <2>1 DEF Save
      <3> HIDE DEF s
      <3>5. DiskOK(main[c], s.marked, ser[c].marked, disk[c], spoiled)
        BY <1>1, <3>2, <3>3, <3>4 DEF DiskAt, DiskOK
      <3> QED
        BY <3>3, <3>5 DEF KeyOK
    <2>5. CASE known[c] # "none" /\ ~IntactSave(c) /\ ~Complete(c)
      <3>1. s = [known |-> "other", marked |-> {}]
        BY <2>5 DEF LoadedState
      <3>2. s \in Save /\ s.known = "other" /\ s.marked = {}
        BY <3>1 DEF Save
      <3> HIDE DEF s
      <3> QED
        BY <1>1, <2>5, <3>2 DEF DiskAt, DiskOK, KeyOK, IntactSave
    <2> QED
      BY <2>2, <2>3, <2>4, <2>5
  <1>5. /\ s.known \in {"none", "part", "seed", "other"}
        /\ s.marked \in SUBSET Piece
    BY <1>4 DEF Save
  <1> HIDE DEF s
  <1>6. FreshMap(s.known) \in SUBSET Piece
          /\ (s.known # "seed" => FreshMap(s.known) = {})
    BY DEF FreshMap
  <1>7. /\ known' \in [Client -> {"none", "part", "seed", "other"}]
        /\ known'[c] = s.known
        /\ \A a \in Client : a # c => known'[a] = known[a]
    BY <1>1, <1>3, <1>5 DEF Types, DiskTypes
  <1>8. /\ marked' \in [Client -> SUBSET Piece]
        /\ marked'[c] = s.marked
        /\ \A a \in Client : a # c => marked'[a] = marked[a]
    <2>1. marked \in [Client -> SUBSET Piece]
      BY <1>1, TypeFacts
    <2> HIDE DEF Piece
    <2> QED
      BY <1>3, <1>5, <2>1
  <1>9. /\ peerMap' \in [Client -> [Client -> SUBSET Piece]]
        /\ \A b \in Client : peerMap'[c][b] = FreshMap(s.known)
        /\ \A a, b \in Client : a # c => peerMap'[a][b] = peerMap[a][b]
    <2>1. peerMap \in [Client -> [Client -> SUBSET Piece]]
      BY <1>1, TypeFacts
    <2> HIDE DEF Piece
    <2> QED
      BY <1>3, <1>6, <2>1
  <1>10. /\ up' \in [Client -> BOOLEAN] /\ up'[c] = TRUE
         /\ \A a \in Client : a # c => up'[a] = up[a]
    BY <1>1, <1>3 DEF Types, ProcTypes
  <1>11. Types'
    BY <1>1, <1>2, <1>7, <1>8, <1>9, <1>10
       DEF Types, DiskTypes, ProcTypes, MainTypes, ConTypes, BoundTypes, Busy
  <1>12. ASSUME NEW a \in Client
         PROVE  DiskAt(a)'
    <2>1. CASE a # c
      <3>1. marked'[a] = marked[a] /\ known'[a] = known[a]
        BY <1>7, <1>8, <2>1
      <3> QED
        BY <1>2, <3>1, DiskFrame
    <2>2. CASE a = c
      BY <1>2, <1>4, <1>7, <1>8, <2>2 DEF DiskAt
    <2> QED
      BY <2>1, <2>2
  <1>13. ASSUME NEW a \in Client, NEW b \in Client
         PROVE  StreamAt(a, b)' /\ PeerAt(a, b)'
    <2>1. StreamAt(a, b) /\ PeerAt(a, b)
      BY DEF IInv
    <2>2. CASE a # c /\ b # c
      <3>1. /\ up'[a] = up[a] /\ up'[b] = up[b] /\ marked'[b] = marked[b]
            /\ known'[a] = known[a] /\ peerMap'[a][b] = peerMap[a][b]
        BY <1>7, <1>8, <1>9, <1>10, <2>2
      <3> QED
        BY <1>2, <3>1, StreamFrame, PeerFrame
    <2>3. CASE a = c \/ b = c
      <3>1. con[a][b] # "open"
        BY <1>3, <2>1, <2>3 DEF StreamAt, ConOK
      <3>2. b = c => srv[b][a].pc = "none"
        BY <1>3, <2>1 DEF StreamAt, ConOK
      <3>3. b # c => marked'[b] = marked[b] /\ up'[b] = up[b]
        BY <1>8, <1>10
      <3>4. StreamOK(ans[a][b], srv[b][a], con[a][b], marked'[b], spoiled)
        BY <2>1, <3>1 DEF StreamAt, StreamOK
      <3>5. ServeOK(srv[b][a], marked'[b])
        BY <2>1, <3>2, <3>3 DEF StreamAt, ServeOK
      <3>6. ConOK(con[a][b], ans[a][b], srv[b][a], up'[a], up'[b])
        BY <2>1, <3>1, <3>2, <3>3 DEF StreamAt, ConOK
      <3>7. StreamAt(a, b)'
        BY <1>2, <3>4, <3>5, <3>6 DEF StreamAt
      <3>8. PeerOK(known'[a], con[a][b], peerMap'[a][b], marked'[b])
        <4>1. CASE a = c
          BY <1>6, <1>7, <1>9, <4>1 DEF PeerOK
        <4>2. CASE a # c
          BY <1>7, <1>9, <2>1, <3>1, <4>2 DEF PeerAt, PeerOK
        <4> QED
          BY <4>1, <4>2
      <3>9. PeerAt(a, b)'
        BY <1>2, <3>8 DEF PeerAt
      <3> QED
        BY <3>7, <3>9
    <2> QED
      BY <2>2, <2>3
  <1>14. ASSUME NEW a \in Client, NEW b \in Client
         PROVE  ReaderOf(a, b)'
    BY <1>2, ReaderFrame
  <1> QED
    BY <1>11, <1>12, <1>13, <1>14 DEF IInv
-----------------------------------------------------------------------------
(* The steps that open, use or close a connection.                         *)

LEMMA AppendLast ==
    ASSUME NEW T, NEW q \in Seq(T), NEW r \in T
    PROVE  /\ Append(q, r) \in Seq(T) /\ Append(q, r) # <<>>
           /\ Append(q, r)[Len(Append(q, r))] = r
  <1>1. /\ Append(q, r) \in Seq(T)
        /\ Len(Append(q, r)) = Len(q) + 1
        /\ Append(q, r)[Len(q) + 1] = r
    BY AppendProperties
  <1>2. Len(q) \in Nat
    BY LenProperties
  <1>3. Append(q, r) # <<>>
    BY <1>1, <1>2, EmptySeq
  <1> QED
    BY <1>1, <1>3

\* What a request of c to d may change: the connection and its thread, if c
\* was not connected, the requests, and the main thread, which waits.
AskChange(c, d) ==
    /\ main' \in [Client -> MainState]
    /\ main'[c].pc = "key" /\ main'[c].peer = d
    /\ \A a \in Client : a # c => main'[a] = main[a]
    /\ con' \in [Client -> [Client -> {"none", "open", "closed"}]]
    /\ \A a, b \in Client : a # c \/ b # d => con'[a][b] = con[a][b]
    /\ srv' \in [Client -> [Client -> Thread]]
    /\ \A a, b \in Client : a # d \/ b # c => srv'[a][b] = srv[a][b]
    /\ \/ con'[c][d] = con[c][d] /\ srv'[d][c] = srv[d][c]
       \/ /\ con[c][d] = "none" /\ con'[c][d] = "open"
          /\ up[d] /\ srv'[d][c].pc = "wait"
    /\ req' \in [Client -> [Client -> Seq(Request)]]
    /\ \A a, b \in Client : a # c \/ b # d => req'[a][b] = req[a][b]
    /\ con'[c][d] = "open" =>
           req'[c][d] # <<>> /\ req'[c][d][Len(req'[c][d])].op # "error"

LEMMA AskFacts ==
    ASSUME Types, NEW c \in Client, NEW d \in Client, NEW r \in Request,
           r.op # "error", NEW w \in {"data", "have"}, Ask(c, d, r, w)
    PROVE  AskChange(c, d)
  <1>1. /\ con \in [Client -> [Client -> {"none", "open", "closed"}]]
        /\ srv \in [Client -> [Client -> Thread]]
        /\ req \in [Client -> [Client -> Seq(Request)]]
        /\ main \in [Client -> MainState]
    BY DEF Types, ConTypes, MainTypes
  <1> DEFINE x == [Idle EXCEPT !.pc = "key", !.peer = d, !.want = w]
  <1>2. x \in MainState /\ x.pc = "key" /\ x.peer = d
    <2>1. 1 \in Piece
      BY ExchangeAssumption DEF Piece
    <2>2. Idle \in MainState
      BY <2>1 DEF Idle, MainState
    <2> HIDE DEF Idle
    <2> QED
      BY <2>2 DEF MainState
  <1>3. main' = [main EXCEPT ![c] = x]
    BY DEF Ask
  <1> HIDE DEF x, MainState
  <1>4. /\ main' \in [Client -> MainState]
        /\ main'[c].pc = "key" /\ main'[c].peer = d
        /\ \A a \in Client : a # c => main'[a] = main[a]
    BY <1>1, <1>2, <1>3, Update1
  <1>5. /\ con' \in [Client -> [Client -> {"none", "open", "closed"}]]
        /\ \A a, b \in Client : a # c \/ b # d => con'[a][b] = con[a][b]
        /\ con[c][d] = "none" => con'[c][d] = "open"
        /\ con[c][d] # "none" => con'[c][d] = con[c][d]
    <2>1. CASE con[c][d] = "none"
      <3>1. con' = [con EXCEPT ![c][d] = "open"]
        BY <2>1 DEF Ask
      <3> QED
        BY <1>1, <2>1, <3>1, Update2
    <2>2. CASE con[c][d] # "none"
      BY <1>1, <2>2 DEF Ask
    <2> QED
      BY <2>1, <2>2
  <1>6. /\ srv' \in [Client -> [Client -> Thread]]
        /\ \A a, b \in Client : a # d \/ b # c => srv'[a][b] = srv[a][b]
        /\ con[c][d] = "none" => up[d] /\ srv'[d][c].pc = "wait"
        /\ con[c][d] # "none" => srv'[d][c] = srv[d][c]
    <2>1. CASE con[c][d] = "none"
      <3>1. srv' = [srv EXCEPT ![d][c].pc = "wait"] /\ up[d]
        BY <2>1 DEF Ask, Connected
      <3>2. srv' = [srv EXCEPT ![d][c].pc = "wait"]
        BY <3>1
      <3>3. PICK v2 \in Thread : /\ v2.pc = "wait" /\ v2.todo = srv[d][c].todo
                                 /\ srv' = [srv EXCEPT ![d][c] = v2]
        BY <3>2, SetPc, ZenonT(40)
      <3> HIDE DEF Thread
      <3>4. /\ srv' \in [Client -> [Client -> Thread]]
            /\ srv'[d][c] = v2
            /\ \A a, b \in Client : a # d \/ b # c => srv'[a][b] = srv[a][b]
        BY <1>1, <3>3, Update2
      <3> QED
        BY <2>1, <3>1, <3>3, <3>4
    <2>2. CASE con[c][d] # "none"
      BY <1>1, <2>2 DEF Ask
    <2> QED
      BY <2>1, <2>2
  <1>7. /\ req' \in [Client -> [Client -> Seq(Request)]]
        /\ \A a, b \in Client : a # c \/ b # d => req'[a][b] = req[a][b]
        /\ con[c][d] # "closed" => req'[c][d] = Append(req[c][d], r)
    <2>1. CASE con[c][d] # "closed"
      <3> DEFINE q == Append(req[c][d], r)
      <3>1. req[c][d] \in Seq(Request)
        BY <1>1
      <3>2. q \in Seq(Request)
        BY <3>1, AppendLast
      <3>3. req' = [req EXCEPT ![c][d] = q]
        BY <1>1, <2>1 DEF Ask
      <3> HIDE DEF q, Request
      <3>4. /\ req' \in [Client -> [Client -> Seq(Request)]]
            /\ req'[c][d] = q
            /\ \A a, b \in Client : a # c \/ b # d => req'[a][b] = req[a][b]
        BY <1>1, <3>2, <3>3, Update2
      <3> QED
        BY <3>4 DEF q
    <2>2. CASE con[c][d] = "closed"
      BY <1>1, <2>2 DEF Ask
    <2> QED
      BY <2>1, <2>2
  <1>8. con'[c][d] = "open" =>
            req'[c][d] # <<>> /\ req'[c][d][Len(req'[c][d])].op # "error"
    <2>1. req[c][d] \in Seq(Request)
      BY <1>1
    <2>2. con'[c][d] = "open" => req'[c][d] = Append(req[c][d], r)
      BY <1>5, <1>7
    <2> HIDE DEF Request
    <2> QED
      BY <2>1, <2>2, AppendLast
  <1>9. \/ con'[c][d] = con[c][d] /\ srv'[d][c] = srv[d][c]
        \/ /\ con[c][d] = "none" /\ con'[c][d] = "open"
           /\ up[d] /\ srv'[d][c].pc = "wait"
    BY <1>5, <1>6
  <1> QED
    BY <1>4, <1>5, <1>6, <1>7, <1>8, <1>9 DEF AskChange

LEMMA AskInv ==
    ASSUME IInv, NEW c \in Client, NEW d \in Client, NEW r \in Request,
           r.op # "error", NEW w \in {"data", "have"}, Ask(c, d, r, w),
           up[c], ~Busy(main[c])
    PROVE  IInv'
  <1>1. Types /\ StreamAt(c, d) /\ PeerAt(c, d)
    BY DEF IInv
  <1>2. AskChange(c, d)
    BY <1>1, AskFacts
  <1>3. /\ UNCHANGED <<known, disk, ser>>
        /\ UNCHANGED <<up, marked, pos, peerMap>>
        /\ UNCHANGED ans /\ UNCHANGED <<ncrash, spoiled>>
    BY DEF Ask, diskVars, procVars
  <1>4. nask' \in 0..MaxAsk
    <2>1. nask \in 0..MaxAsk /\ nask < MaxAsk /\ nask' = nask + 1
      BY <1>1 DEF Ask, Types, BoundTypes
    <2> QED
      BY <2>1, ExchangeAssumption
  <1>5. Types'
    <2>1. \A a \in Client : Busy(main'[a]) => main'[a].peer \in Client
      BY <1>1, <1>2 DEF AskChange, Types, MainTypes
    <2>2. MainTypes'
      BY <1>2, <2>1 DEF AskChange, MainTypes, Busy
    <2>3. ConTypes'
      BY <1>1, <1>2, <1>3 DEF AskChange, Types, ConTypes
    <2> QED
      BY <1>1, <1>3, <1>4, <2>2, <2>3
         DEF Types, DiskTypes, ProcTypes, BoundTypes
  <1>6. ASSUME NEW a \in Client
        PROVE  DiskAt(a)'
    <2>1. \/ main'[a] = main[a]
          \/ main'[a].pc \notin {"seek", "write", "cut", "mark"}
      BY <1>2 DEF AskChange
    <2> QED
      BY <1>3, <2>1, DiskFrame
  <1>7. ASSUME NEW a \in Client, NEW b \in Client
        PROVE  StreamAt(a, b)' /\ PeerAt(a, b)'
    <2>1. CASE con'[a][b] = con[a][b] /\ srv'[b][a] = srv[b][a]
      BY <1>3, <2>1, StreamFrame, PeerFrame
    <2>2. CASE ~(con'[a][b] = con[a][b] /\ srv'[b][a] = srv[b][a])
      <3>1. a = c /\ b = d
        BY <1>2, <2>2 DEF AskChange
      <3>2. /\ con[c][d] = "none" /\ con'[c][d] = "open"
            /\ up[d] /\ srv'[d][c].pc = "wait"
        BY <1>2, <2>2, <3>1 DEF AskChange
      <3>3. ans[c][d] = <<>>
        BY <1>1, <3>2 DEF StreamAt, ConOK
      <3>4. ConOK("open", ans[c][d], srv'[d][c], up[c], up[d])
        BY <3>2 DEF ConOK
      <3>5. ServeOK(srv'[d][c], marked[d])
        BY <3>2 DEF ServeOK
      <3>6. StreamOK(ans[c][d], srv'[d][c], "open", marked[d], spoiled)
        <4>1. \A x : ~LastIs(ans[c][d], x)
          BY <3>3 DEF LastIs
        <4>2. MapsIn(ans[c][d], marked[d])
          BY <3>3 DEF MapsIn
        <4>3. PieceEnd(ans[c][d], srv'[d][c])
          BY <4>1 DEF PieceEnd
        <4> QED
          BY <1>1, <4>1, <4>2, <4>3 DEF StreamAt, StreamOK
      <3>7. PeerOK(known[c], "open", peerMap[c][d], marked[d])
        BY <1>1, <3>2 DEF PeerAt, PeerOK
      <3> QED
        BY <1>3, <3>1, <3>2, <3>4, <3>5, <3>6, <3>7 DEF StreamAt, PeerAt
    <2> QED
      BY <2>1, <2>2
  <1>8. ASSUME NEW a \in Client, NEW b \in Client
        PROVE  ReaderOf(a, b)'
    <2>1. CASE a # c
      <3>1. /\ main'[a] = main[a] /\ con'[a][b] = con[a][b]
            /\ srv'[b][a] = srv[b][a] /\ req'[a][b] = req[a][b]
        BY <1>2, <2>1 DEF AskChange
      <3> QED
        BY <1>3, <3>1, ReaderFrame
    <2>2. CASE a = c /\ b # d
      BY <1>2, <2>2 DEF AskChange, ReaderOf
    <2>3. CASE a = c /\ b = d
      <3>1. main'[c].pc = "key"
        BY <1>2 DEF AskChange
      <3>2. con'[c][d] = "open" =>
                req'[c][d] # <<>> /\ req'[c][d][Len(req'[c][d])].op # "error"
        BY <1>2 DEF AskChange
      <3>3. ReaderOK(main'[c], ans'[c][d], srv'[d][c], con'[c][d],
                     req'[c][d], spoiled')
        BY <3>1, <3>2
           DEF ReaderOK, ExpectsMap, ExpectsPiece, ExpectsIndex, ExpectsAnswer
      <3> QED
        BY <2>3, <3>3 DEF ReaderOf
    <2> QED
      BY <2>1, <2>2, <2>3
  <1> QED
    BY <1>5, <1>6, <1>7, <1>8 DEF IInv

LEMMA SocketCollectedInv ==
    ASSUME IInv, NEW c \in Client, NEW d \in Client, SocketCollected(d, c)
    PROVE  IInv'
  <1>1. Types /\ StreamAt(c, d) /\ PeerAt(c, d) /\ ReaderOf(c, d)
    BY DEF IInv
  <1>2. /\ UNCHANGED <<known, disk, ser>>
        /\ UNCHANGED <<up, marked, pos, peerMap>>
        /\ UNCHANGED <<main, ans, srv>> /\ UNCHANGED <<nask, ncrash, spoiled>>
    BY DEF SocketCollected, diskVars, procVars, bounds
  <1>3. con[c][d] = "open" /\ srv[d][c].pc = "dead"
    BY DEF SocketCollected
  <1>4. /\ con' \in [Client -> [Client -> {"none", "open", "closed"}]]
        /\ con'[c][d] = "closed"
        /\ \A a, b \in Client : a # c \/ b # d => con'[a][b] = con[a][b]
    <2>1. con \in [Client -> [Client -> {"none", "open", "closed"}]]
      BY <1>1 DEF Types, ConTypes
    <2>2. con' = [con EXCEPT ![c][d] = "closed"]
      BY DEF SocketCollected
    <2> QED
      BY <2>1, <2>2, Update2
  <1>5. /\ req' \in [Client -> [Client -> Seq(Request)]]
        /\ \A a, b \in Client : a # c \/ b # d => req'[a][b] = req[a][b]
    <2>1. req \in [Client -> [Client -> Seq(Request)]]
      BY <1>1 DEF Types, ConTypes
    <2>2. req' = [req EXCEPT ![c][d] = <<>>]
      BY DEF SocketCollected
    <2>3. <<>> \in Seq(Request)
      OBVIOUS
    <2> HIDE DEF Request
    <2> QED
      BY <2>1, <2>2, <2>3, Update2
  <1>6. Types'
    BY <1>1, <1>2, <1>4, <1>5
       DEF Types, DiskTypes, ProcTypes, MainTypes, ConTypes, BoundTypes, Busy
  <1>7. ASSUME NEW a \in Client
        PROVE  DiskAt(a)'
    BY <1>2, DiskFrame
  <1>8. ASSUME NEW a \in Client, NEW b \in Client
        PROVE  StreamAt(a, b)' /\ PeerAt(a, b)' /\ ReaderOf(a, b)'
    <2>1. CASE a # c \/ b # d
      <3>1. con'[a][b] = con[a][b] /\ req'[a][b] = req[a][b]
        BY <1>4, <1>5, <2>1
      <3> QED
        BY <1>2, <3>1, StreamFrame, PeerFrame, ReaderFrame
    <2>2. CASE a = c /\ b = d
      <3>1. StreamOK(ans[c][d], srv[d][c], "closed", marked[d], spoiled)
        BY <1>1 DEF StreamAt, StreamOK
      <3>2. ConOK("closed", ans[c][d], srv[d][c], up[c], up[d])
        BY <1>1 DEF StreamAt, ConOK
      <3>3. StreamAt(c, d)'
        BY <1>1, <1>2, <1>4, <3>1, <3>2 DEF StreamAt
      <3>4. PeerAt(c, d)'
        BY <1>2, <1>4 DEF PeerAt, PeerOK
      <3>5. ReaderOf(c, d)'
        <4>1. SUFFICES ASSUME Busy(main[c]), main[c].peer = d
                       PROVE  ReaderOK(main[c], ans[c][d], srv[d][c],
                                       "closed", req'[c][d], spoiled)
          BY <1>2, <1>4 DEF ReaderOf, Busy
        <4>2. ReaderOK(main[c], ans[c][d], srv[d][c], con[c][d], req[c][d],
                       spoiled)
          BY <1>1, <4>1 DEF ReaderOf
        <4> QED
          BY <4>2, ReaderMono
      <3> QED
        BY <2>2, <3>3, <3>4, <3>5
    <2> QED
      BY <2>1, <2>2
  <1> QED
    BY <1>6, <1>7, <1>8 DEF IInv

\* What the end of the process of c leaves.
CrashChange(c) ==
    /\ up' \in [Client -> BOOLEAN] /\ up'[c] = FALSE
    /\ \A a \in Client : a # c => up'[a] = up[a]
    /\ main' \in [Client -> MainState] /\ ~Busy(main'[c])
    /\ \A a \in Client : a # c => main'[a] = main[a]
    /\ marked' \in [Client -> SUBSET Piece] /\ marked'[c] = {}
    /\ \A a \in Client : a # c => marked'[a] = marked[a]
    /\ pos' \in [Client -> Offset]
    /\ peerMap' \in [Client -> [Client -> SUBSET Piece]]
    /\ \A b \in Client : peerMap'[c][b] = {}
    /\ \A a, b \in Client : a # c => peerMap'[a][b] = peerMap[a][b]
    /\ srv' \in [Client -> [Client -> Thread]]
    /\ \A a \in Client : srv'[c][a].pc = "none"
    /\ \A a, b \in Client : b # c => srv'[b][a] = srv[b][a]
    /\ con' \in [Client -> [Client -> {"none", "open", "closed"}]]
    /\ \A b \in Client : con'[c][b] = "none"
    /\ \A a \in Client : a # c => /\ con'[a][c] # "open"
                                  /\ con'[a][c] = "none" => con[a][c] = "none"
    /\ \A a, b \in Client : a # c /\ b # c => con'[a][b] = con[a][b]
    /\ req' \in [Client -> [Client -> Seq(Request)]]
    /\ \A a, b \in Client : b # c => req'[a][b] = req[a][b]
    /\ ans' \in [Client -> [Client -> Seq(Token)]]
    /\ \A b \in Client : ans'[c][b] = <<>>
    /\ \A a, b \in Client : a # c => ans'[a][b] = ans[a][b]

LEMMA CrashFacts ==
    ASSUME Types, NEW c \in Client, Crash(c)
    PROVE  CrashChange(c)
  <1>1. /\ up' \in [Client -> BOOLEAN] /\ up'[c] = FALSE
        /\ \A a \in Client : a # c => up'[a] = up[a]
    BY DEF Crash, Types, ProcTypes
  <1>2. /\ main' \in [Client -> MainState] /\ ~Busy(main'[c])
        /\ \A a \in Client : a # c => main'[a] = main[a]
    <2>1. 1 \in Piece
      BY ExchangeAssumption DEF Piece
    <2>2. Idle \in MainState /\ ~Busy(Idle)
      BY <2>1 DEF Idle, MainState, Busy
    <2>3. main \in [Client -> MainState] /\ main' = [main EXCEPT ![c] = Idle]
      BY DEF Crash, Types, MainTypes
    <2> HIDE DEF Idle, MainState
    <2> QED
      BY <2>2, <2>3
  <1>3. /\ marked' \in [Client -> SUBSET Piece] /\ marked'[c] = {}
        /\ \A a \in Client : a # c => marked'[a] = marked[a]
    <2>1. /\ marked \in [Client -> SUBSET Piece]
          /\ marked' = [marked EXCEPT ![c] = {}]
      BY DEF Crash, Types, ProcTypes
    <2> HIDE DEF Piece
    <2> QED
      BY <2>1
  <1>4. pos' \in [Client -> Offset]
    <2>1. 1 \in Offset
      BY ExchangeAssumption DEF Offset
    <2>2. pos \in [Client -> Offset] /\ pos' = [pos EXCEPT ![c] = 1]
      BY DEF Crash, Types, ProcTypes
    <2> HIDE DEF Offset
    <2> QED
      BY <2>1, <2>2
  <1>5. /\ peerMap' \in [Client -> [Client -> SUBSET Piece]]
        /\ \A b \in Client : peerMap'[c][b] = {}
        /\ \A a, b \in Client : a # c => peerMap'[a][b] = peerMap[a][b]
    <2>1. /\ peerMap \in [Client -> [Client -> SUBSET Piece]]
          /\ peerMap' = [peerMap EXCEPT ![c] = [d \in Client |-> {}]]
      BY DEF Crash, Types, ProcTypes
    <2> HIDE DEF Piece
    <2> QED
      BY <2>1
  <1>6. /\ srv' \in [Client -> [Client -> Thread]]
        /\ \A a \in Client : srv'[c][a].pc = "none"
        /\ \A a, b \in Client : b # c => srv'[b][a] = srv[b][a]
    <2>1. NoThread \in Thread /\ NoThread.pc = "none"
      BY DEF NoThread, Thread
    <2>2. /\ srv \in [Client -> [Client -> Thread]]
          /\ srv' = [srv EXCEPT ![c] = [d \in Client |-> NoThread]]
      BY DEF Crash, Types, ConTypes
    <2> HIDE DEF NoThread, Thread
    <2> QED
      BY <2>1, <2>2
  <1>7. /\ con' \in [Client -> [Client -> {"none", "open", "closed"}]]
        /\ \A b \in Client : con'[c][b] = "none"
        /\ \A a \in Client : a # c => /\ con'[a][c] # "open"
                                      /\ con'[a][c] = "none" => con[a][c] = "none"
        /\ \A a, b \in Client : a # c /\ b # c => con'[a][b] = con[a][b]
    <2>1. con \in [Client -> [Client -> {"none", "open", "closed"}]]
      BY DEF Types, ConTypes
    <2>2. con' = [b \in Client |-> [d \in Client |->
                    IF b = c THEN "none"
                    ELSE IF d = c /\ con[b][d] = "open" THEN "closed"
                    ELSE con[b][d]]]
      BY DEF Crash
    <2>3. \A a, b \in Client : con'[a][b] =
              IF a = c THEN "none"
              ELSE IF b = c /\ con[a][b] = "open" THEN "closed" ELSE con[a][b]
      BY <2>2
    <2>4. con' \in [Client -> [Client -> {"none", "open", "closed"}]]
      BY <2>1, <2>2
    <2> QED
      BY <2>3, <2>4
  <1>8. /\ req' \in [Client -> [Client -> Seq(Request)]]
        /\ \A a, b \in Client : b # c => req'[a][b] = req[a][b]
    <2>1. req \in [Client -> [Client -> Seq(Request)]]
      BY DEF Types, ConTypes
    <2>2. req' = [b \in Client |-> [d \in Client |->
                    IF d = c THEN <<>> ELSE req[b][d]]]
      BY DEF Crash
    <2>3. <<>> \in Seq(Request)
      OBVIOUS
    <2> HIDE DEF Request
    <2> QED
      BY <2>1, <2>2, <2>3
  <1>9. /\ ans' \in [Client -> [Client -> Seq(Token)]]
        /\ \A b \in Client : ans'[c][b] = <<>>
        /\ \A a, b \in Client : a # c => ans'[a][b] = ans[a][b]
    <2>1. ans \in [Client -> [Client -> Seq(Token)]]
      BY DEF Types, ConTypes
    <2>2. ans' = [ans EXCEPT ![c] = [d \in Client |-> <<>>]]
      BY DEF Crash
    <2>3. <<>> \in Seq(Token)
      OBVIOUS
    <2> HIDE DEF Token
    <2> QED
      BY <2>1, <2>2, <2>3
  <1> QED
    BY <1>1, <1>2, <1>3, <1>4, <1>5, <1>6, <1>7, <1>8, <1>9 DEF CrashChange

LEMMA CrashInv ==
    ASSUME IInv, NEW c \in Client, Crash(c)
    PROVE  IInv'
  <1>1. Types
    BY DEF IInv
  <1>2. CrashChange(c)
    BY <1>1, CrashFacts
  <1>3. UNCHANGED <<known, disk, ser>> /\ UNCHANGED <<nask, spoiled>>
    BY DEF Crash, diskVars
  <1>4. ncrash' \in 0..MaxCrash
    <2>1. /\ ncrash \in 0..MaxCrash /\ ncrash < MaxCrash
          /\ ncrash' = ncrash + 1
      BY <1>1 DEF Crash, Types, BoundTypes
    <2> QED
      BY <2>1, ExchangeAssumption
  <1>5. Types'
    <2>1. \A a \in Client : Busy(main'[a]) => main'[a].peer \in Client
      BY <1>1, <1>2 DEF CrashChange, Types, MainTypes
    <2>2. MainTypes'
      BY <1>2, <2>1 DEF CrashChange, MainTypes, Busy
    <2>3. ConTypes' /\ ProcTypes'
      BY <1>2 DEF CrashChange, ConTypes, ProcTypes
    <2> QED
      BY <1>1, <1>3, <1>4, <2>2, <2>3 DEF Types, DiskTypes, BoundTypes
  <1>6. ASSUME NEW a \in Client
        PROVE  DiskAt(a)'
    <2>1. CASE a # c
      <3>1. main'[a] = main[a] /\ marked'[a] = marked[a]
        BY <1>2, <2>1 DEF CrashChange
      <3> QED
        BY <1>3, <3>1, DiskFrame
    <2>2. CASE a = c
      <3>1. DiskAt(c)
        BY DEF IInv
      <3>2. DiskOK(main'[c], {}, ser[c].marked, disk[c], spoiled)
        BY <1>2, <3>1 DEF DiskAt, DiskOK, CrashChange, Busy
      <3>3. marked'[c] = {}
        BY <1>2 DEF CrashChange
      <3> QED
        BY <1>3, <2>2, <3>1, <3>2, <3>3 DEF DiskAt
    <2> QED
      BY <2>1, <2>2
  <1>7. ASSUME NEW a \in Client, NEW b \in Client
        PROVE  StreamAt(a, b)'
    <2>1. StreamAt(a, b)
      BY DEF IInv
    <2>2. CASE a # c /\ b # c
      <3>1. /\ ans'[a][b] = ans[a][b] /\ srv'[b][a] = srv[b][a]
            /\ con'[a][b] = con[a][b] /\ up'[a] = up[a] /\ up'[b] = up[b]
            /\ marked'[b] = marked[b]
        BY <1>2, <2>2 DEF CrashChange
      <3> QED
        BY <1>3, <3>1, StreamFrame
    \* what c was reading is gone, and its threads with it
    <2>3. CASE a = c
      <3>1. ans'[a][b] = <<>> /\ con'[a][b] = "none"
        BY <1>2, <2>3 DEF CrashChange
      <3>2. StreamOK(<<>>, srv'[b][a], "none", marked'[b], spoiled)
        <4>1. PieceFramed(<<>>) /\ HaveFramed(<<>>) /\ AllGood(<<>>)
          BY DEF PieceFramed, HaveFramed, AllGood
        <4> QED
          BY <4>1 DEF StreamOK
      <3>3. ConOK("none", <<>>, srv'[b][a], up'[a], up'[b])
        BY <1>2, <2>1, <2>3, ZenonT(40) DEF CrashChange, StreamAt, ConOK
      <3>4. ServeOK(srv'[b][a], marked'[b])
        BY <1>2, <2>1, <2>3, ZenonT(40) DEF CrashChange, StreamAt, ServeOK
      <3> QED
        BY <1>3, <3>1, <3>2, <3>3, <3>4 DEF StreamAt
    <2>4. CASE a # c /\ b = c
      <3>1. /\ ans'[a][b] = ans[a][b] /\ con'[a][b] # "open"
            /\ con'[a][b] = "none" => con[a][b] = "none"
            /\ srv'[b][a].pc = "none"
        BY <1>2, <2>4 DEF CrashChange
      <3>2. StreamOK(ans[a][b], srv'[b][a], con'[a][b], marked'[b], spoiled)
        BY <2>1, <3>1 DEF StreamAt, StreamOK
      <3>3. ConOK(con'[a][b], ans[a][b], srv'[b][a], up'[a], up'[b])
        BY <2>1, <3>1 DEF StreamAt, ConOK
      <3>4. ServeOK(srv'[b][a], marked'[b])
        BY <3>1 DEF ServeOK
      <3> QED
        BY <1>3, <3>1, <3>2, <3>3, <3>4 DEF StreamAt
    <2> QED
      BY <2>2, <2>3, <2>4
  <1>8. ASSUME NEW a \in Client, NEW b \in Client
        PROVE  PeerAt(a, b)'
    <2>1. PeerAt(a, b)
      BY DEF IInv
    <2>2. CASE a # c /\ b # c
      <3>1. /\ con'[a][b] = con[a][b] /\ peerMap'[a][b] = peerMap[a][b]
            /\ marked'[b] = marked[b]
        BY <1>2, <2>2 DEF CrashChange
      <3> QED
        BY <1>3, <3>1, PeerFrame
    <2>3. CASE a = c
      <3>1. peerMap'[a][b] = {}
        BY <1>2, <2>3 DEF CrashChange
      <3> QED
        BY <3>1 DEF PeerAt, PeerOK
    <2>4. CASE a # c /\ b = c
      <3>1. /\ con'[a][b] # "open" /\ peerMap'[a][b] = peerMap[a][b]
            /\ con'[a][b] = "none" => con[a][b] = "none"
        BY <1>2, <2>4 DEF CrashChange
      <3> QED
        BY <1>3, <2>1, <3>1 DEF PeerAt, PeerOK
    <2> QED
      BY <2>2, <2>3, <2>4
  <1>9. ASSUME NEW a \in Client, NEW b \in Client
        PROVE  ReaderOf(a, b)'
    <2>1. CASE a # c /\ b # c
      <3>1. /\ main'[a] = main[a] /\ ans'[a][b] = ans[a][b]
            /\ srv'[b][a] = srv[b][a] /\ con'[a][b] = con[a][b]
            /\ req'[a][b] = req[a][b]
        BY <1>2, <2>1 DEF CrashChange
      <3> QED
        BY <1>3, <3>1, ReaderFrame
    <2>2. CASE a = c
      BY <1>2, <2>2 DEF CrashChange, ReaderOf, Busy
    <2>3. CASE a # c /\ b = c
      <3>1. /\ main'[a] = main[a] /\ ans'[a][b] = ans[a][b]
            /\ con'[a][b] # "open"
        BY <1>2, <2>3 DEF CrashChange
      <3>2. SUFFICES ASSUME Busy(main[a]), main[a].peer = b
                     PROVE  ReaderOK(main[a], ans[a][b], srv'[b][a],
                                     con'[a][b], req'[a][b], spoiled)
        BY <1>3, <3>1 DEF ReaderOf, Busy
      <3>3. ReaderOK(main[a], ans[a][b], srv[b][a], con[a][b], req[a][b],
                     spoiled)
        BY <3>2 DEF IInv, ReaderOf
      <3> QED
        BY <3>1, <3>3
           DEF ReaderOK, ExpectsMap, ExpectsPiece, ExpectsIndex, ExpectsAnswer
    <2> QED
      BY <2>1, <2>2, <2>3
  <1> QED
    BY <1>5, <1>6, <1>7, <1>8, <1>9 DEF IInv
-----------------------------------------------------------------------------
(* The invariant holds.                                                    *)

LEMMA InitFacts ==
    ASSUME Init
    PROVE  /\ Types
           /\ \A c \in Client : /\ ~Busy(main[c]) /\ up[c]
                                /\ main[c].pc = "idle"
                                /\ ser[c].marked = {} /\ ser[c].known = "none"
                                /\ known[c] # "other"
                                /\ \A p \in marked[c] : disk[c][p] = "right"
           /\ \A c, d \in Client : /\ ans[c][d] = <<>> /\ con[c][d] = "none"
                                   /\ srv[d][c].pc = "none"
                                   /\ known[c] # "seed" => peerMap[c][d] = {}
  <1>1. /\ 1 \in Piece /\ 1 \in Offset
        /\ Seeder \subseteq Client
    BY ExchangeAssumption DEF Piece, Offset
  <1>2. /\ known \in [Client -> {"none", "part", "seed", "other"}]
        /\ \A c \in Client : known[c] = IF c \in Seeder THEN "seed" ELSE "none"
    BY DEF Init
  <1>3. FullDisk \in [Offset -> {"right", "wrong", "hole"}]
          /\ EmptyDisk \in [Offset -> {"right", "wrong", "hole"}]
          /\ \A p \in Piece : FullDisk[p] = "right"
    <2>1. Piece \subseteq Offset
      BY ExchangeAssumption DEF Piece, Offset
    <2> HIDE DEF Piece, Offset
    <2> QED
      BY <2>1 DEF FullDisk, EmptyDisk
  <1>4. disk \in [Client -> [Offset -> {"right", "wrong", "hole"}]]
          /\ \A c \in Client : disk[c] = IF c \in Seeder THEN FullDisk
                                                         ELSE EmptyDisk
    <2> HIDE DEF FullDisk, EmptyDisk, Offset
    <2> QED
      BY <1>3 DEF Init
  <1>5. NoSave \in Save /\ NoSave.marked = {} /\ NoSave.known = "none"
    BY DEF NoSave, Save
  <1>6. ser \in [Client -> Save] /\ \A c \in Client : ser[c] = NoSave
    <2> HIDE DEF NoSave, Save
    <2> QED
      BY <1>5 DEF Init
  <1>7. up \in [Client -> BOOLEAN] /\ \A c \in Client : up[c] = TRUE
    BY DEF Init
  <1>8. \A k : FreshMap(k) \in SUBSET Piece /\ (k # "seed" => FreshMap(k) = {})
    BY DEF FreshMap
  <1>9. /\ marked \in [Client -> SUBSET Piece]
        /\ \A c \in Client : marked[c] = FreshMap(known[c])
    <2> HIDE DEF FreshMap, Piece
    <2>1. marked = [c \in Client |-> FreshMap(known[c])]
      BY DEF Init
    <2> QED
      BY <1>8, <2>1
  <1>10. /\ peerMap \in [Client -> [Client -> SUBSET Piece]]
         /\ \A c, d \in Client : peerMap[c][d] = FreshMap(known[c])
    <2> HIDE DEF FreshMap, Piece
    <2>1. peerMap = [c \in Client |-> [d \in Client |-> FreshMap(known[c])]]
      BY DEF Init
    <2> QED
      BY <1>8, <2>1
  <1>11. pos \in [Client -> Offset]
    <2> HIDE DEF Offset
    <2> QED
      BY <1>1 DEF Init
  <1>12. Idle \in MainState /\ Idle.pc = "idle" /\ ~Busy(Idle)
    BY <1>1 DEF Idle, MainState, Busy
  <1>13. main \in [Client -> MainState] /\ \A c \in Client : main[c] = Idle
    <2> HIDE DEF Idle, MainState
    <2> QED
      BY <1>12 DEF Init
  <1>14. NoThread \in Thread /\ NoThread.pc = "none"
    BY DEF NoThread, Thread
  <1>15. /\ srv \in [Client -> [Client -> Thread]]
         /\ \A c, d \in Client : srv[d][c] = NoThread
    <2> HIDE DEF NoThread, Thread
    <2> QED
      BY <1>14 DEF Init
  <1>16. /\ con \in [Client -> [Client -> {"none", "open", "closed"}]]
         /\ \A c, d \in Client : con[c][d] = "none"
    BY DEF Init
  <1>17. req \in [Client -> [Client -> Seq(Request)]]
    <2>1. <<>> \in Seq(Request)
      OBVIOUS
    <2>2. req = [c \in Client |-> [d \in Client |-> <<>>]]
      BY DEF Init
    <2> HIDE DEF Request
    <2> QED
      BY <2>1, <2>2
  <1>18. /\ ans \in [Client -> [Client -> Seq(Token)]]
         /\ \A c, d \in Client : ans[c][d] = <<>>
    <2>1. <<>> \in Seq(Token)
      OBVIOUS
    <2>2. ans = [c \in Client |-> [d \in Client |-> <<>>]]
      BY DEF Init
    <2> HIDE DEF Token
    <2> QED
      BY <2>1, <2>2
  <1>19. BoundTypes
    BY ExchangeAssumption DEF Init, BoundTypes
  <1> HIDE DEF Idle, NoThread, NoSave, FullDisk, EmptyDisk
  <1>20. Types
    <2>1. DiskTypes
      BY <1>2, <1>4, <1>6 DEF DiskTypes
    <2>2. ProcTypes
      BY <1>7, <1>9, <1>10, <1>11 DEF ProcTypes
    <2>3. MainTypes
      BY <1>12, <1>13 DEF MainTypes
    <2>4. ConTypes
      BY <1>15, <1>16, <1>17, <1>18 DEF ConTypes
    <2> QED
      BY <1>19, <2>1, <2>2, <2>3, <2>4 DEF Types
  <1>21. ASSUME NEW c \in Client
         PROVE  /\ ~Busy(main[c]) /\ up[c] /\ main[c].pc = "idle"
                /\ ser[c].marked = {} /\ ser[c].known = "none"
                /\ known[c] # "other"
                /\ \A p \in marked[c] : disk[c][p] = "right"
    <2>1. ~Busy(main[c]) /\ up[c] /\ main[c].pc = "idle"
      BY <1>7, <1>12, <1>13
    <2>2. ser[c].marked = {} /\ ser[c].known = "none"
      BY <1>5, <1>6
    <2>3. \A p \in marked[c] : disk[c][p] = "right"
      BY <1>2, <1>3, <1>4, <1>8, <1>9
    <2> QED
      BY <1>2, <2>1, <2>2, <2>3
  <1>22. ASSUME NEW c \in Client, NEW d \in Client
         PROVE  /\ ans[c][d] = <<>> /\ con[c][d] = "none"
                /\ srv[d][c].pc = "none"
                /\ known[c] # "seed" => peerMap[c][d] = {}
    BY <1>8, <1>10, <1>14, <1>15, <1>16, <1>18
  <1> QED
    BY <1>20, <1>21, <1>22

LEMMA InitInv == Init => IInv
  <1> SUFFICES ASSUME Init
               PROVE  IInv
    OBVIOUS
  <1>1. Types
    BY InitFacts
  <1>2. ASSUME NEW c \in Client
        PROVE  DiskAt(c)
    <2>1. /\ main[c].pc = "idle" /\ ser[c].marked = {} /\ known[c] # "other"
          /\ \A p \in marked[c] : disk[c][p] = "right"
      BY InitFacts
    <2> QED
      BY <2>1 DEF DiskAt, DiskOK, KeyOK
  <1>3. ASSUME NEW c \in Client, NEW d \in Client
        PROVE  StreamAt(c, d) /\ PeerAt(c, d) /\ ReaderOf(c, d)
    <2>1. /\ ans[c][d] = <<>> /\ con[c][d] = "none" /\ srv[d][c].pc = "none"
          /\ known[c] # "seed" => peerMap[c][d] = {}
      BY InitFacts
    <2>2. ~Busy(main[c])
      BY InitFacts
    <2>3. StreamOK(<<>>, srv[d][c], "none", marked[d], spoiled)
      <3>1. PieceFramed(<<>>) /\ HaveFramed(<<>>) /\ AllGood(<<>>)
        BY DEF PieceFramed, HaveFramed, AllGood
      <3> QED
        BY <3>1 DEF StreamOK
    <2>4. /\ ConOK("none", <<>>, srv[d][c], up[c], up[d])
          /\ ServeOK(srv[d][c], marked[d])
      BY <2>1 DEF ConOK, ServeOK
    <2> QED
      BY <2>1, <2>2, <2>3, <2>4 DEF StreamAt, PeerAt, PeerOK, ReaderOf
  <1> QED
    BY <1>1, <1>2, <1>3 DEF IInv

LEMMA StutterInv ==
    ASSUME IInv, UNCHANGED vars
    PROVE  IInv'
  <1>1. /\ UNCHANGED <<known, disk, ser>>
        /\ UNCHANGED <<up, marked, pos, peerMap>>
        /\ UNCHANGED main /\ UNCHANGED <<con, req, ans, srv>>
        /\ UNCHANGED <<nask, ncrash, spoiled>>
    BY DEF vars, diskVars, procVars, conVars, bounds
  <1>2. Types'
    BY <1>1 DEF IInv, Types, DiskTypes, ProcTypes, MainTypes, ConTypes,
                BoundTypes, Busy
  <1>3. ASSUME NEW a \in Client
        PROVE  DiskAt(a)'
    BY <1>1, DiskFrame
  <1>4. ASSUME NEW a \in Client, NEW b \in Client
        PROVE  StreamAt(a, b)' /\ ReaderOf(a, b)' /\ PeerAt(a, b)'
    BY <1>1, StreamFrame, ReaderFrame, PeerFrame
  <1> QED
    BY <1>2, <1>3, <1>4 DEF IInv

LEMMA NextInv == IInv /\ [Next]_vars => IInv'
  <1> SUFFICES ASSUME IInv, [Next]_vars
               PROVE  IInv'
    OBVIOUS
  <1>1. ASSUME NEW c \in Client, Look(c)
        PROVE  IInv'
    BY <1>1, LookInv
  <1>2. ASSUME NEW c \in Client, MainStep(c)
        PROVE  IInv'
    <2>1. CASE ReadKey(c)
      BY <2>1, ReadKeyInv
    <2>2. CASE ReadMap(c)
      BY <2>2, ReadMapInv
    <2>3. CASE ReadIndex(c)
      BY <2>3, ReadIndexInv
    <2>4. CASE ReadBytes(c)
      BY <2>4, ReadBytesInv
    <2>5. CASE SeekPiece(c)
      BY <2>5, SeekPieceInv
    <2>6. CASE WritePiece(c)
      BY <2>6, WritePieceInv
    <2>7. CASE TruncateFile(c)
      BY <2>7, TruncateFileInv
    <2>8. CASE MarkPiece(c)
      BY <2>8, MarkPieceInv
    <2> QED
      BY <1>2, <2>1, <2>2, <2>3, <2>4, <2>5, <2>6, <2>7, <2>8 DEF MainStep
  <1>3. ASSUME NEW c \in Client, SaveOpen(c) \/ SaveWrite(c)
        PROVE  IInv'
    BY <1>3, SaveInv
  <1>4. ASSUME NEW c \in Client, Crash(c)
        PROVE  IInv'
    BY <1>4, CrashInv
  <1>5. ASSUME NEW c \in Client, Restart(c)
        PROVE  IInv'
    BY <1>5, RestartInv
  <1>6. ASSUME NEW c \in Client, NEW d \in Client, NEW parts \in Parts,
               AskPieces(c, d, parts)
        PROVE  IInv'
    <2> DEFINE r == [op |-> "getpieces", parts |-> parts]
    <2>1. r \in Request
      BY RequestFacts
    <2>2. r.op # "error"
      OBVIOUS
    <2>3. Ask(c, d, r, "data") /\ up[c] /\ ~Busy(main[c])
      BY <1>6 DEF AskPieces, At, Busy
    <2> HIDE DEF r
    <2> QED
      BY <2>1, <2>2, <2>3, AskInv
  <1>7. ASSUME NEW c \in Client, NEW d \in Client, AskMap(c, d)
        PROVE  IInv'
    <2> DEFINE r == [op |-> "have", parts |-> <<>>]
    <2>1. r \in Request
      BY RequestFacts
    <2>2. r.op # "error"
      OBVIOUS
    <2>3. Ask(c, d, r, "have") /\ up[c] /\ ~Busy(main[c])
      BY <1>7 DEF AskMap, At, Busy
    <2> HIDE DEF r
    <2> QED
      BY <2>1, <2>2, <2>3, AskInv
  <1>8. ASSUME NEW c \in Client, NEW d \in Client, ConnectFails(c, d)
        PROVE  IInv'
    BY <1>8, ConnectFailsInv
  <1>9. ASSUME NEW c \in Client, NEW d \in Client, ServeStep(d, c)
        PROVE  IInv'
    <2>1. CASE ServeRequest(d, c)
      BY <2>1, ServeRequestInv
    <2>2. CASE ServeMap(d, c)
      BY <2>2, ServeMapInv
    <2>3. CASE ServeIndex(d, c)
      BY <2>3, ServeIndexInv
    <2>4. CASE ServePiece(d, c)
      BY <2>4, ServePieceInv
    <2>5. CASE ServeEnd(d, c)
      BY <2>5, ServeEndInv
    <2>6. CASE ServeEof(d, c)
      BY <2>6, ServeEofInv
    <2> QED
      BY <1>9, <2>1, <2>2, <2>3, <2>4, <2>5, <2>6 DEF ServeStep
  <1>10. ASSUME NEW c \in Client, NEW d \in Client, SocketCollected(d, c)
         PROVE  IInv'
    BY <1>10, SocketCollectedInv
  <1>11. CASE UNCHANGED vars
    BY <1>11, StutterInv
  <1> QED
    BY <1>1, <1>2, <1>3, <1>4, <1>5, <1>6, <1>7, <1>8, <1>9, <1>10, <1>11
       DEF Next

\* Streams stay framed, readers stay in step with them, and what is marked
\* stays true of the disk: the parts above, in every state of every run.
THEOREM ExchangeInvariant == Spec => []IInv
  <1>1. Init => IInv
    BY InitInv
  <1>2. IInv /\ [Next]_vars => IInv'
    BY NextInv
  <1> QED
    BY <1>1, <1>2, PTL DEF Spec
-----------------------------------------------------------------------------
(* What follows from it.                                                   *)

LEMMA TypesOK ==
    ASSUME Types
    PROVE  TypeOK
  <1>1. /\ known \in [Client -> {"none", "part", "seed", "other"}]
        /\ disk \in [Client -> [Offset -> {"right", "wrong", "hole"}]]
        /\ up \in [Client -> BOOLEAN]
        /\ nask \in 0..MaxAsk /\ ncrash \in 0..MaxCrash
        /\ spoiled \subseteq {"short", "absent", "seek"}
    BY DEF Types, DiskTypes, ProcTypes, BoundTypes
  <1>2. ASSUME NEW c \in Client
        PROVE  /\ ser[c].known \in {"none", "torn", "part", "seed", "other"}
               /\ ser[c].marked \subseteq Piece
               /\ marked[c] \subseteq Piece /\ pos[c] \in Offset
    <2>1. ser[c] \in Save
      BY DEF Types, DiskTypes
    <2>2. marked[c] \in SUBSET Piece /\ pos[c] \in Offset
      BY DEF Types, ProcTypes
    <2> QED
      BY <2>1, <2>2 DEF Save
  <1>3. ASSUME NEW c \in Client
        PROVE  /\ main[c].pc \in {"idle", "key", "map", "index", "bytes",
                                  "seek", "write", "cut", "mark",
                                  "dead"}
               /\ main[c].pc \notin {"idle", "dead"} => main[c].peer \in Client
               /\ main[c].index \in Piece /\ main[c].good \in BOOLEAN
    <2>1. main[c] \in MainState
      BY DEF Types, MainTypes
    <2>2. Busy(main[c]) => main[c].peer \in Client
      BY DEF Types, MainTypes
    <2> QED
      BY <2>1, <2>2 DEF MainState, Busy
  <1>4. ASSUME NEW c \in Client, NEW d \in Client
        PROVE  /\ peerMap[c][d] \subseteq Piece
               /\ srv[c][d].pc \in {"none", "wait", "map", "next", "read",
                                    "dead"}
               /\ con[c][d] \in {"none", "open", "closed"}
    <2>1. peerMap[c][d] \in SUBSET Piece
      BY DEF Types, ProcTypes
    <2>2. srv[c][d] \in Thread /\ con[c][d] \in {"none", "open", "closed"}
      BY DEF Types, ConTypes
    <2> QED
      BY <2>1, <2>2 DEF Thread
  <1>5. ASSUME NEW c \in Client, NEW d \in Client
        PROVE  /\ \A i \in DOMAIN req[c][d] : req[c][d][i] \in Request
               /\ \A i \in DOMAIN ans[c][d] : ans[c][d][i] \in Token
    <2>1. req[c][d] \in Seq(Request) /\ ans[c][d] \in Seq(Token)
      BY DEF Types, ConTypes
    <2> HIDE DEF Request, Token
    <2> QED
      BY <2>1, ElementOfSeq, LenProperties
  <1> QED
    BY <1>1, <1>2, <1>3, <1>4, <1>5 DEF TypeOK

\* A piece is marked, in memory and in a saved state that will be restored,
\* only if something was written there, for any number of clients, wherever
\* writePiece, saveFileState or the process stopped.
LEMMA MarkedIsWrittenInv == IInv => MarkedIsWritten
  <1> SUFFICES ASSUME IInv, "seek" \notin spoiled, NEW c \in Client
               PROVE  /\ HasFile(c) => \A p \in marked[c] : disk[c][p] # "hole"
                      /\ IntactSave(c) =>
                             \A p \in ser[c].marked : disk[c][p] # "hole"
    BY DEF MarkedIsWritten
  <1>1. \A p \in marked[c] \cup ser[c].marked : disk[c][p] # "hole"
    BY DEF IInv, DiskAt, DiskOK
  <1> QED
    BY <1>1

\* Unless a read was short, a piece was absent or an offset was shared, what
\* is marked is the piece of the file.
LEMMA WrongPieceHasCauseInv == IInv => WrongPieceHasCause
  BY DEF IInv, DiskAt, DiskOK, WrongPieceHasCause

\* What a peer was told to have on an open connection, it has.
LEMMA PeerMapHonestInv == IInv => PeerMapHonest
  BY DEF IInv, PeerAt, PeerOK, PeerMapHonest

\* A name stands for another file only if no good state of it was saved.
LEMMA SavedIsNotLostInv == IInv => SavedIsNotLost
  BY DEF IInv, DiskAt, KeyOK, SavedIsNotLost

\* Whatever the main thread waits for is what the thread at the other end, or
\* a request that it has not read, holds for it.
LEMMA WaiterIsOwedInv == IInv => WaiterIsOwed
  <1> SUFFICES ASSUME IInv, NEW c \in Client, Waits(c), "absent" \notin spoiled
               PROVE  \/ srv[main[c].peer][c].pc \in {"map", "next", "read"}
                      \/ /\ srv[main[c].peer][c].pc = "wait"
                         /\ req[c][main[c].peer] # <<>>
                      \/ Abandoned(c)
    BY DEF WaiterIsOwed
  <1> DEFINE d == main[c].peer
             v == srv[d][c]
  <1>1. /\ main[c].pc \in {"key", "map", "index", "bytes"}
        /\ con[c][d] = "open" /\ ans[c][d] = <<>>
    BY DEF Waits, Stream
  <1>2. Busy(main[c]) /\ d \in Client
    BY <1>1 DEF Busy, IInv, Types, MainTypes
  <1>3. /\ ReaderOK(main[c], ans[c][d], v, con[c][d], req[c][d], spoiled)
        /\ ConOK(con[c][d], ans[c][d], v, up[c], up[d])
    BY <1>2 DEF IInv, ReaderOf, StreamAt
  <1>4. v.pc \in {"none", "wait", "map", "next", "read", "dead"}
    <2>1. v \in Thread
      BY <1>2 DEF IInv, Types, ConTypes
    <2> QED
      BY <2>1 DEF Thread
  <1>5. Abandoned(c) <=> v.pc = "dead"
    BY DEF Abandoned
  <1>6. v.pc # "none"
    BY <1>1, <1>3 DEF ConOK
  <1> HIDE DEF v, d
  <1>7. main[c].pc = "key" => v.pc = "dead" \/ req[c][d] # <<>>
    BY <1>1, <1>3 DEF ReaderOK, ExpectsAnswer
  <1>8. main[c].pc = "map" => v.pc = "map"
    BY <1>1, <1>3 DEF ReaderOK, ExpectsMap
  <1>9. main[c].pc = "index" => v.pc = "next"
    BY <1>1, <1>3 DEF ReaderOK, ExpectsIndex
  <1>10. main[c].pc = "bytes" => v.pc = "read"
    <2>1. main[c].index \in Piece
      BY DEF IInv, Types, MainTypes, MainState
    <2>2. Len(ans[c][d]) = 0
      BY <1>1, EmptySeq
    <2>3. ~Whole(ans[c][d], 0, main[c].index)
      BY <2>2, ExchangeAssumption DEF Whole
    <2> QED
      BY <1>1, <1>3, <2>3 DEF ReaderOK, ExpectsPiece
  <1> QED
    BY <1>1, <1>4, <1>5, <1>6, <1>7, <1>8, <1>9, <1>10 DEF v, d

\* The state keeps its types.
THEOREM ExchangeTypes == Spec => []TypeOK
  <1>1. IInv => TypeOK
    BY TypesOK DEF IInv
  <1> QED
    BY <1>1, ExchangeInvariant, PTL

\* MarkedIsWritten holds of every run of any clients (writePiece,
\* saveFileState, the loads of FileManager).
THEOREM MarkedIsWrittenHolds == Spec => []MarkedIsWritten
  BY ExchangeInvariant, MarkedIsWrittenInv, PTL

\* WrongPieceHasCause holds of every run of any clients: the exchange spreads
\* no wrong piece by itself (sendData, receiveData, FileManager).
THEOREM WrongPieceHasCauseHolds == Spec => []WrongPieceHasCause
  BY ExchangeInvariant, WrongPieceHasCauseInv, PTL

\* PeerMapHonest holds of every run of any clients (sendHave, receiveHave).
THEOREM PeerMapHonestHolds == Spec => []PeerMapHonest
  BY ExchangeInvariant, PeerMapHonestInv, PTL

\* SavedIsNotLost holds of every run: the order of the two loads in
\* FileManager never gives a saved incomplete file another key.
THEOREM SavedIsNotLostHolds == Spec => []SavedIsNotLost
  BY ExchangeInvariant, SavedIsNotLostInv, PTL

\* WaiterIsOwed holds of every run of any clients: whoever waits on an open
\* connection is owed an answer by a thread that can send it, so no cycle of
\* clients blocks (doInterested, doHave, doGetpieces).
THEOREM WaiterIsOwedHolds == Spec => []WaiterIsOwed
  BY ExchangeInvariant, WaiterIsOwedInv, PTL
=============================================================================
