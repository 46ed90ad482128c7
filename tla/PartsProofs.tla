---------------------------- MODULE PartsProofs -----------------------------
(***************************************************************************)
(* The sequential parts: containers, a look, the start of the C tracker.   *)
(*                                                                         *)
(* CachedList, for every set of values and nodes: the cached node is the   *)
(* one at the cached position, and the list implements a plain sequence.   *)
(*                                                                         *)
(* CircularBuffer, for every alphabet, capacity and length of the data: it *)
(* keeps its indices within the array, finds the newline wherever it is    *)
(* and implements a queue of bytes.  The invariant these need is where _w  *)
(* is: _size elements after _r, left at the capacity (not wrapped to 0)    *)
(* when it is reached.                                                     *)
(*                                                                         *)
(* UtHash and HashTable, for every set of keys, hash function and number   *)
(* of buckets: an entry is always in the chain of its bucket and nowhere   *)
(* else, which of several entries with one key is found, and that the      *)
(* table implements a plain ordered one.                                   *)
(*                                                                         *)
(* Look, for every set of files and criteria: both trackers answer a look  *)
(* with the files that were meant.                                         *)
(*                                                                         *)
(* Config, for every set of texts, size of the parser's stack and length   *)
(* of the document: which configuration files crash the tracker, and that  *)
(* it starts with the options asked for, found in a table of UtHash.       *)
(***************************************************************************)
EXTENDS CircularBuffer, CachedList, HashTable, Look, Config,
        SequenceTheorems,
        FiniteSetTheorems, WellFoundedInduction, TLAPS

(* A function on 1..n is a sequence of length n.                           *)
LEMMA SeqOfFun ==
    ASSUME NEW S, NEW n \in Nat, NEW f \in [1..n -> S]
    PROVE  f \in Seq(S) /\ Len(f) = n /\ DOMAIN f = 1..n
  OBVIOUS

(* Inserting keeps the elements before the position and shifts the others. *)
LEMMA InsertedSeq ==
    ASSUME NEW S, NEW s \in Seq(S), NEW n \in 1..(Len(s) + 1), NEW x \in S
    PROVE  /\ Inserted(s, n, x) \in Seq(S)
           /\ Len(Inserted(s, n, x)) = Len(s) + 1
           /\ \A i \in 1..(Len(s) + 1) :
                 /\ i < n => i \in 1..Len(s) /\ Inserted(s, n, x)[i] = s[i]
                 /\ i = n => Inserted(s, n, x)[i] = x
                 /\ i > n => /\ i - 1 \in 1..Len(s)
                             /\ Inserted(s, n, x)[i] = s[i - 1]
<1> DEFINE f == [i \in 1..(Len(s) + 1) |->
                   IF i < n THEN s[i] ELSE IF i = n THEN x ELSE s[i - 1]]
<1>1. Inserted(s, n, x) = f
  BY DEF Inserted, Plain!Inserted
<1>2. f \in [1..(Len(s) + 1) -> S] /\ Len(s) + 1 \in Nat
  OBVIOUS
<1>3. f \in Seq(S) /\ Len(f) = Len(s) + 1
  <2> HIDE DEF f
  <2> QED
    BY <1>2, SeqOfFun
<1>4. \A i \in 1..(Len(s) + 1) :
         /\ i < n => i \in 1..Len(s) /\ f[i] = s[i]
         /\ i = n => f[i] = x
         /\ i > n => i - 1 \in 1..Len(s) /\ f[i] = s[i - 1]
  OBVIOUS
<1> QED
  BY <1>1, <1>3, <1>4

(* Removing keeps the elements before the position and shifts the others.  *)
LEMMA WithoutSeq ==
    ASSUME NEW S, NEW s \in Seq(S), NEW n \in 1..Len(s)
    PROVE  /\ Without(s, n) \in Seq(S)
           /\ Len(Without(s, n)) = Len(s) - 1
           /\ \A i \in 1..(Len(s) - 1) :
                 Without(s, n)[i] = IF i < n THEN s[i] ELSE s[i + 1]
<1> DEFINE f == [i \in 1..(Len(s) - 1) |-> IF i < n THEN s[i] ELSE s[i + 1]]
<1>1. Without(s, n) = f
  BY DEF Without, Plain!Without
<1>2. f \in [1..(Len(s) - 1) -> S] /\ Len(s) - 1 \in Nat
  OBVIOUS
<1>3. f \in Seq(S) /\ Len(f) = Len(s) - 1
  <2> HIDE DEF f
  <2> QED
    BY <1>2, SeqOfFun
<1>4. \A i \in 1..(Len(s) - 1) : f[i] = IF i < n THEN s[i] ELSE s[i + 1]
  OBVIOUS
<1> QED
  BY <1>1, <1>3, <1>4

(* list_get_node ends at the position asked for.                           *)
LEMMA ReachedIsAsked ==
    ASSUME ListOK, NEW n \in 0..Len(chain)
    PROVE  Reached(n) = n
<1>1. PosOf(cursor) = curpos
  <2>1. CASE curpos = 0
    BY <2>1 DEF ListOK, NodeAt, PosOf
  <2>2. CASE curpos # 0
    <3>1. /\ curpos \in 1..Len(chain) /\ cursor = chain[curpos]
          /\ cursor \in Node /\ cursor # Front
      BY <2>2, ListAssumption DEF ListOK, NodeAt
    <3>2. \A i \in 1..Len(chain) : chain[i] = cursor => i = curpos
      BY <3>1 DEF ListOK
    <3> QED
      BY <3>1, <3>2 DEF PosOf
  <2> QED
    BY <2>1, <2>2
<1> QED
  BY <1>1 DEF Reached, ListOK

(* A list of the sequence read, so that the parts can be cited.            *)
LEMMA ElementsSeq ==
    ASSUME ListOK
    PROVE  /\ Elements \in Seq(Value) /\ Len(Elements) = Len(chain)
           /\ \A i \in 1..Len(chain) : Elements[i] = data[chain[i]]
<1>1. Elements \in [1..Len(chain) -> Value] /\ Len(chain) \in Nat
  BY DEF Elements, ListOK
<1>2. Elements \in Seq(Value) /\ Len(Elements) = Len(chain)
  BY <1>1, SeqOfFun
<1> QED
  BY <1>2 DEF Elements
-----------------------------------------------------------------------------
(* A new node linked at position n, at or behind which the cursor is not   *)
(* or is moved with its node.                                              *)
LEMMA LinkStep ==
    ASSUME ListOK, NEW n \in 1..(Len(chain) + 1),
           NEW nd \in Node \ Linked, NEW v \in Value,
           chain' = Inserted(chain, n, nd), data' = [data EXCEPT ![nd] = v],
           lsize' = lsize + 1,
           \/ curpos' = n - 1 /\ cursor' = NodeAt(n - 1)
           \/ n = 1 /\ cursor' = cursor
              /\ curpos' = (IF curpos # 0 THEN curpos + 1 ELSE 0),
           lpos' = n, lgot' = NoValue, UNCHANGED <<lpc, wpos, wval>>,
           lpc = "ready"
    PROVE  ListOK' /\ Plain!SInsert(n, v)
<1>1. /\ chain \in Seq(Node) /\ Len(chain) \in Nat /\ nd \in Node
      /\ \A i \in 1..Len(chain) : chain[i] # nd /\ chain[i] \in Node
      /\ \A i, j \in 1..Len(chain) : chain[i] = chain[j] => i = j
  BY DEF ListOK, Linked
<1>2. n \in 1..(Len(chain) + 1)
  OBVIOUS
<1>3. /\ chain' \in Seq(Node) /\ Len(chain') = Len(chain) + 1
      /\ \A i \in 1..(Len(chain) + 1) :
         /\ i < n => i \in 1..Len(chain) /\ chain'[i] = chain[i]
         /\ i = n => chain'[i] = nd
         /\ i > n => i - 1 \in 1..Len(chain) /\ chain'[i] = chain[i - 1]
  <2>1. /\ Inserted(chain, n, nd) \in Seq(Node)
        /\ Len(Inserted(chain, n, nd)) = Len(chain) + 1
    BY <1>1, <1>2, InsertedSeq
  <2>2. ASSUME NEW i \in 1..(Len(chain) + 1)
        PROVE
         /\ i < n => /\ i \in 1..Len(chain)
                     /\ Inserted(chain, n, nd)[i] = chain[i]
         /\ i = n => Inserted(chain, n, nd)[i] = nd
         /\ i > n => /\ i - 1 \in 1..Len(chain)
                     /\ Inserted(chain, n, nd)[i] = chain[i - 1]
    BY <1>1, <1>2 DEF Inserted, Plain!Inserted
  <2> QED
    BY <2>1, <2>2
<1>4. /\ data' \in [Node -> Value \cup {NoValue}] /\ data'[nd] = v
      /\ \A i \in 1..Len(chain) : data'[chain[i]] = data[chain[i]]
  BY <1>1 DEF ListOK
<1>5. ASSUME NEW i \in 1..Len(chain'), NEW j \in 1..Len(chain'),
             chain'[i] = chain'[j]
      PROVE  i = j
  <2>0. i \in 1..(Len(chain) + 1) /\ j \in 1..(Len(chain) + 1)
    BY <1>3
  <2>1. CASE i = n
    <3>1. chain'[j] = nd
      BY <1>3, <1>5, <2>0, <2>1
    <3>2. ~(j < n)
      BY <1>1, <1>3, <2>0, <3>1
    <3>3. ~(j > n)
      <4>1. j > n => /\ j - 1 \in 1..Len(chain)
                     /\ chain'[j] = chain[j - 1]
        BY <1>3, <2>0
      <4> QED
        BY <1>1, <3>1, <4>1
    <3> QED
      BY <1>2, <2>0, <2>1, <3>2, <3>3
  <2>2. CASE j = n
    <3>1. chain'[i] = nd
      BY <1>3, <1>5, <2>0, <2>2
    <3>2. ~(i < n)
      BY <1>1, <1>3, <2>0, <3>1
    <3>3. ~(i > n)
      <4>1. i > n => /\ i - 1 \in 1..Len(chain)
                     /\ chain'[i] = chain[i - 1]
        BY <1>3, <2>0
      <4> QED
        BY <1>1, <3>1, <4>1
    <3> QED
      BY <1>2, <2>0, <2>2, <3>2, <3>3
  <2>3. CASE i < n /\ j < n
    BY <1>1, <1>3, <1>5, <2>0, <2>3
  <2>4. CASE i > n /\ j > n
    <3>0. /\ i - 1 \in 1..Len(chain) /\ j - 1 \in 1..Len(chain)
          /\ chain[i - 1] = chain[j - 1]
      BY <1>3, <1>5, <2>0, <2>4
    <3>1. i - 1 = j - 1
      BY <1>1, <3>0
    <3> QED
      BY <2>0, <3>1
  <2>5. CASE i < n /\ j > n
    <3>0. /\ i \in 1..Len(chain) /\ j - 1 \in 1..Len(chain)
          /\ chain[i] = chain[j - 1]
      BY <1>3, <1>5, <2>0, <2>5
    <3>1. i = j - 1
      BY <1>1, <3>0
    <3> QED
      BY <1>2, <2>0, <2>5, <3>1
  <2>6. CASE i > n /\ j < n
    <3>0. /\ i - 1 \in 1..Len(chain) /\ j \in 1..Len(chain)
          /\ chain[i - 1] = chain[j]
      BY <1>3, <1>5, <2>0, <2>6
    <3>1. i - 1 = j
      BY <1>1, <3>0
    <3> QED
      BY <1>2, <2>0, <2>6, <3>1
  <2> QED
    BY <1>2, <2>0, <2>1, <2>2, <2>3, <2>4, <2>5, <2>6
<1>6. \A i \in 1..Len(chain) : data[chain[i]] \in Value
  BY DEF ListOK
<1>7. \A i \in 1..Len(chain') :
         /\ i < n => data'[chain'[i]] = data[chain[i]]
         /\ i = n => data'[chain'[i]] = v
         /\ i > n => data'[chain'[i]] = data[chain[i - 1]]
  BY <1>1, <1>2, <1>3, <1>4
<1>8. ASSUME NEW i \in 1..Len(chain') PROVE data'[chain'[i]] \in Value
  <2>1. i \in 1..(Len(chain) + 1) /\ (i < n \/ i = n \/ i > n)
    BY <1>2, <1>3
  <2> QED
    BY <1>3, <1>6, <1>7, <2>1
<1>9. curpos' \in 0..Len(chain') /\ cursor' = NodeAt(curpos)'
  <2>1. CASE curpos' = n - 1 /\ cursor' = NodeAt(n - 1)
    <3>1. n # 1 => n - 1 \in 1..Len(chain') /\ chain'[n - 1] = chain[n - 1]
      BY <1>1, <1>2, <1>3
    <3> QED
      BY <1>1, <1>2, <2>1, <3>1 DEF NodeAt
  <2>2. CASE /\ n = 1 /\ cursor' = cursor
             /\ curpos' = (IF curpos # 0 THEN curpos + 1 ELSE 0)
    <3>1. curpos \in 0..Len(chain) /\ cursor = NodeAt(curpos)
      BY DEF ListOK
    <3>2. CASE curpos = 0
      BY <1>1, <1>2, <2>2, <3>1, <3>2 DEF NodeAt
    <3>3. CASE curpos # 0
      <4>1. /\ curpos + 1 \in 1..Len(chain') /\ curpos' = curpos + 1
            /\ chain'[curpos + 1] = chain[curpos]
        BY <1>1, <1>2, <1>3, <2>2, <3>1, <3>3
      <4> QED
        BY <1>2, <2>2, <3>1, <3>3, <4>1 DEF NodeAt
    <3> QED
      BY <3>2, <3>3
  <2> QED
    BY <2>1, <2>2
<1>10. ListOK'
  <2>1. /\ lsize' = Len(chain') /\ wpos' \in Nat /\ lpc' = "ready"
        /\ lgot' \in Value \cup {NoValue} /\ wval' \in Value \cup {NoValue}
    BY <1>1, <1>3 DEF ListOK
  <2> QED
    BY <1>3, <1>4, <1>5, <1>8, <1>9, <2>1 DEF ListOK
<1>11. Elements' = Inserted(Elements, n, v) /\ n \in 1..(Len(Elements) + 1)
  <2>1. /\ Len(Elements) = Len(chain) /\ Len(chain') = Len(Elements) + 1
        /\ \A i \in 1..Len(chain) : Elements[i] = data[chain[i]]
    BY <1>3, ElementsSeq
  <2>2. ASSUME NEW i \in 1..(Len(Elements) + 1)
        PROVE  data'[chain'[i]] =
           IF i < n THEN Elements[i] ELSE IF i = n THEN v ELSE Elements[i - 1]
    <3>1. i \in 1..Len(chain') /\ i \in 1..(Len(chain) + 1)
      BY <1>3, <2>1
    <3>2. CASE i < n
      BY <1>3, <1>7, <2>1, <3>1, <3>2
    <3>3. CASE i = n
      BY <1>7, <3>1, <3>3
    <3>4. CASE i > n
      <4>1. i - 1 \in 1..Len(chain) /\ data'[chain'[i]] = data[chain[i - 1]]
        BY <1>3, <1>7, <3>1, <3>4
      <4>2. Elements[i - 1] = data[chain[i - 1]]
        BY <2>1, <4>1
      <4> QED
        BY <1>2, <3>1, <3>4, <4>1, <4>2
    <3> QED
      BY <1>2, <3>1, <3>2, <3>3, <3>4
  <2>3. Elements' = [i \in 1..(Len(Elements) + 1) |-> data'[chain'[i]]]
    BY <2>1 DEF Elements
  <2>4. Inserted(Elements, n, v) = [i \in 1..(Len(Elements) + 1) |->
           IF i < n THEN Elements[i] ELSE IF i = n THEN v ELSE Elements[i - 1]]
    BY DEF Inserted, Plain!Inserted
  <2> QED
    BY <2>1, <2>2, <2>3, <2>4
<1> QED
  BY <1>10, <1>11 DEF Plain!SInsert, Inserted

(* A node unlinked at position n, with the cursor before it.               *)
LEMMA UnlinkStep ==
    ASSUME ListOK, NEW n \in 1..Len(chain),
           chain' = Without(chain, n), lsize' = lsize - 1, data' = data,
           curpos' < n /\ curpos' \in Nat /\ cursor' = NodeAt(curpos'),
           lpos' = n, lgot' = NoValue,
           lpc' \in {"ready", "remove"} /\ wval' \in Value \cup {NoValue},
           wpos' \in Nat,
           lpc' = "remove" => wpos' <= Len(chain') /\ curpos' = 0
    PROVE  ListOK' /\ Plain!SRemove(n)
<1>1. /\ chain \in Seq(Node) /\ Len(chain) \in Nat
      /\ \A i \in 1..Len(chain) : chain[i] \in Node
      /\ \A i, j \in 1..Len(chain) : chain[i] = chain[j] => i = j
      /\ \A i \in 1..Len(chain) : data[chain[i]] \in Value
  BY DEF ListOK
<1>2. /\ chain' \in Seq(Node) /\ Len(chain') = Len(chain) - 1
      /\ \A i \in 1..(Len(chain) - 1) :
            chain'[i] = IF i < n THEN chain[i] ELSE chain[i + 1]
  BY <1>1, WithoutSeq
<1>3. \A i \in 1..Len(chain') :
         /\ i < n => i \in 1..Len(chain) /\ chain'[i] = chain[i]
         /\ i >= n => i + 1 \in 1..Len(chain) /\ chain'[i] = chain[i + 1]
  BY <1>1, <1>2
<1>4. ASSUME NEW i \in 1..Len(chain'), NEW j \in 1..Len(chain'),
             chain'[i] = chain'[j]
      PROVE  i = j
  <2> DEFINE old(k) == IF k < n THEN k ELSE k + 1
  <2>1. \A k \in 1..Len(chain') :
           old(k) \in 1..Len(chain) /\ chain'[k] = chain[old(k)]
    BY <1>3
  <2>2. chain[old(i)] = chain[old(j)]
    BY <1>4, <2>1
  <2>3. old(i) = old(j)
    <3> HIDE DEF old
    <3> QED
      BY <1>1, <2>1, <2>2
  <2> QED
    BY <1>1, <1>2, <2>3
<1>5. \A i \in 1..Len(chain') : data'[chain'[i]] =
         IF i < n THEN data[chain[i]] ELSE data[chain[i + 1]]
  BY <1>1, <1>2, <1>3
<1>6. ASSUME NEW i \in 1..Len(chain') PROVE data'[chain'[i]] \in Value
  <2>1. i < n \/ i >= n
    BY <1>1, <1>2
  <2> QED
    BY <1>1, <1>3, <2>1
<1>7. curpos' \in 0..Len(chain') /\ cursor' = NodeAt(curpos)'
  <2>1. curpos' # 0 =>
           /\ curpos' \in 1..Len(chain')
           /\ chain'[curpos'] = chain[curpos']
    BY <1>1, <1>2, <1>3
  <2> QED
    BY <1>1, <1>2, <2>1 DEF NodeAt
<1>8. ListOK'
  <2>1. /\ lsize' = Len(chain') /\ data' \in [Node -> Value \cup {NoValue}]
        /\ lgot' \in Value \cup {NoValue}
    BY <1>1, <1>2 DEF ListOK
  <2> QED
    BY <1>2, <1>4, <1>6, <1>7, <2>1 DEF ListOK
<1>9. Elements' = Without(Elements, n) /\ n \in 1..Len(Elements)
  <2>1. /\ Len(Elements) = Len(chain) /\ Len(chain') = Len(Elements) - 1
        /\ \A i \in 1..Len(chain) : Elements[i] = data[chain[i]]
    BY <1>2, ElementsSeq
  <2>2. \A i \in 1..(Len(Elements) - 1) : data'[chain'[i]] =
           IF i < n THEN Elements[i] ELSE Elements[i + 1]
    BY <1>1, <1>2, <1>3, <1>5, <2>1
  <2>3. Elements' = [i \in 1..(Len(Elements) - 1) |-> data'[chain'[i]]]
    BY <2>1 DEF Elements
  <2>4. Without(Elements, n) = [i \in 1..(Len(Elements) - 1) |->
           IF i < n THEN Elements[i] ELSE Elements[i + 1]]
    BY DEF Without, Plain!Without
  <2> QED
    BY <2>1, <2>2, <2>3, <2>4
<1> QED
  BY <1>8, <1>9 DEF Plain!SRemove, Without
-----------------------------------------------------------------------------
(* Every call keeps ListOK and is a step of the plain sequence, or none.   *)
LEMMA ListStep ==
    ASSUME ListOK, ListNext
    PROVE  ListOK' /\ (Plain!SNext \/ UNCHANGED <<Elements, lpos, lgot>>)
<1> USE DEF Plain!SNext
<1>0. Len(chain) \in Nat /\ lsize = Len(chain) /\ Len(Elements) = Len(chain)
  BY ElementsSeq DEF ListOK
<1>1. ASSUME NEW n \in 0..lsize, ListGet(n)
      PROVE  ListOK' /\ Plain!SGet(n)
  <2>1. Reached(n) = n
    BY <1>0, <1>1, ReachedIsAsked
  <2>2. /\ curpos' = n /\ cursor' = NodeAt(n)
        /\ lpos' = n /\ lgot' = IF n = 0 THEN NoValue ELSE data[chain[n]]
        /\ UNCHANGED <<chain, data, lsize, lpc, wpos, wval>> /\ lpc = "ready"
    BY <1>1, <2>1 DEF ListGet, CacheNode
  <2>3. lgot' \in Value \cup {NoValue}
    BY <1>0, <2>2 DEF ListOK
  <2>4. ListOK'
    <3>1. curpos' \in 0..Len(chain') /\ cursor' = NodeAt(curpos)'
      BY <1>0, <2>2 DEF NodeAt
    <3> QED
      BY <1>0, <2>2, <2>3, <3>1 DEF ListOK
  <2>5. Elements' = Elements
    BY <2>2 DEF Elements
  <2>6. n # 0 => Elements[n] = data[chain[n]]
    BY <1>0, ElementsSeq
  <2> QED
    BY <1>0, <2>2, <2>4, <2>5, <2>6 DEF Plain!SGet
<1>2. ASSUME NEW n \in 0..lsize, ListRemove(n)
      PROVE  ListOK' /\ Plain!SRemove(n)
  <2>1. n \in 1..Len(chain) /\ n - 1 \in 0..Len(chain) /\ Reached(n - 1) = n - 1
    BY <1>0, <1>2, ReachedIsAsked DEF ListRemove
  <2>2. /\ chain' = Without(chain, n) /\ lsize' = lsize - 1 /\ data' = data
        /\ curpos' = n - 1 /\ cursor' = NodeAt(n - 1) /\ lpc = "ready"
        /\ lpos' = n /\ lgot' = NoValue /\ UNCHANGED <<lpc, wpos, wval>>
    BY <1>2, <2>1 DEF ListRemove, CacheNode
  <2> QED
    BY <2>1, <2>2, UnlinkStep DEF ListOK
<1>3. ASSUME NEW nd \in Node, NEW v \in Value, ListAdd(nd, v)
      PROVE  ListOK' /\ Plain!SInsert(1, v)
  <2>1. 1 \in 1..(Len(chain) + 1) /\ nd \in Node \ Linked /\ lpc = "ready"
    BY <1>0, <1>3 DEF ListAdd
  <2>2. /\ chain' = Inserted(chain, 1, nd) /\ data' = [data EXCEPT ![nd] = v]
        /\ lsize' = lsize + 1 /\ lpos' = 1 /\ lgot' = NoValue
        /\ UNCHANGED <<lpc, wpos, wval>>
        /\ cursor' = cursor
        /\ curpos' = (IF curpos # 0 THEN curpos + 1 ELSE 0)
    BY <1>3 DEF ListAdd
  <2> HIDE DEF Plain!SNext
  <2> QED
    BY <2>1, <2>2, LinkStep
<1>4. ASSUME NEW nd \in Node, NEW v \in Value, NEW n \in 1..(lsize + 1),
             ListInsert(n, nd, v)
      PROVE  ListOK' /\ Plain!SInsert(n, v)
  <2>1. n \in 1..(Len(chain) + 1) /\ Reached(n - 1) = n - 1
    BY <1>0, <1>4, ReachedIsAsked
  <2>2. /\ chain' = Inserted(chain, n, nd) /\ data' = [data EXCEPT ![nd] = v]
        /\ lsize' = lsize + 1 /\ lpos' = n /\ lgot' = NoValue
        /\ UNCHANGED <<lpc, wpos, wval>>
        /\ curpos' = n - 1 /\ cursor' = NodeAt(n - 1)
        /\ nd \in Node \ Linked /\ lpc = "ready"
    BY <1>0, <1>4, <2>1 DEF ListInsert, CacheNode
  <2> HIDE DEF Plain!SNext
  <2> QED
    BY <2>1, <2>2, LinkStep
<1>5. ASSUME NEW nd \in Node, NEW v \in Value, ListAppend(nd, v)
      PROVE  ListOK' /\ Plain!SInsert(lsize + 1, v)
  BY <1>0, <1>4, <1>5 DEF ListAppend
<1>6. ASSUME NEW v \in Value, RemoveValueBegin(v)
      PROVE  ListOK' /\ UNCHANGED <<Elements, lpos, lgot>>
  BY <1>0, <1>6 DEF RemoveValueBegin, ListOK, NodeAt, Elements
<1>7. ASSUME RemoveValueStep
      PROVE  ListOK' /\ (Plain!SNext \/ UNCHANGED <<Elements, lpos, lgot>>)
  <2>1. /\ lpc = "remove" /\ wpos \in Nat /\ wpos <= Len(chain) /\ curpos = 0
        /\ cursor = NodeAt(0) /\ UNCHANGED <<data, cursor, curpos>>
    BY <1>7 DEF RemoveValueStep, ListOK
  <2>2. /\ lpc' \in {"ready", "remove"} /\ wval' \in Value \cup {NoValue}
        /\ wpos' \in Nat /\ (lpc' = "remove" => wpos' <= Len(chain'))
    BY <1>7, <2>1 DEF RemoveValueStep, ListOK
  <2>3. CASE wpos < Len(chain) /\ data[chain[wpos + 1]] = wval
    <3>1. /\ chain' = Without(chain, wpos + 1) /\ lsize' = lsize - 1
          /\ lpos' = wpos + 1 /\ lgot' = NoValue
          /\ wpos + 1 \in 1..Len(chain)
      BY <1>0, <1>7, <2>1, <2>3 DEF RemoveValueStep
    <3>2. ListOK' /\ Plain!SRemove(wpos + 1)
      BY <2>1, <2>2, <3>1, UnlinkStep DEF NodeAt
    <3> QED
      BY <1>0, <3>1, <3>2
  <2>4. CASE ~(wpos < Len(chain) /\ data[chain[wpos + 1]] = wval)
    <3>1. UNCHANGED <<chain, lsize, lpos, lgot>>
      BY <1>7, <2>4 DEF RemoveValueStep
    <3>2. Elements' = Elements
      BY <2>1, <3>1 DEF Elements
    <3> QED
      BY <2>1, <2>2, <3>1, <3>2 DEF ListOK, NodeAt
  <2> QED
    BY <2>3, <2>4
<1>8. ASSUME ListFree
      PROVE  ListOK' /\ Plain!SFree
  <2>1. /\ chain' = <<>> /\ lsize' = 0 /\ cursor' = Front /\ curpos' = 0
        /\ lpos' = 0 /\ lgot' = NoValue
        /\ UNCHANGED <<data, lpc, wpos, wval>> /\ lpc = "ready"
    BY <1>8 DEF ListFree
  <2>2. Elements' = <<>>
    BY <2>1 DEF Elements
  <2> QED
    BY <2>1, <2>2 DEF ListOK, NodeAt, Plain!SFree
<1>9. CASE \E n \in 0..lsize : ListGet(n) \/ ListRemove(n)
  <2>1. PICK n \in 0..lsize : ListGet(n) \/ ListRemove(n)
    BY <1>9
  <2>2. CASE ListGet(n)
    BY <1>0, <1>1, <2>2
  <2>3. CASE ListRemove(n)
    <3>1. n \in 1..Len(Elements)
      BY <1>0, <2>3 DEF ListRemove
    <3> QED
      BY <1>2, <2>3, <3>1
  <2> QED
    BY <2>1, <2>2, <2>3
<1>10. CASE \E nd \in Node, v \in Value :
              \/ ListAdd(nd, v) \/ ListAppend(nd, v)
              \/ \E n \in 1..(lsize + 1) : ListInsert(n, nd, v)
  <2>1. PICK nd \in Node, v \in Value :
              \/ ListAdd(nd, v) \/ ListAppend(nd, v)
              \/ \E n \in 1..(lsize + 1) : ListInsert(n, nd, v)
    BY <1>10
  <2>2. ListOK' /\ \E n \in 1..(Len(Elements) + 1) : Plain!SInsert(n, v)
    <3>1. 1 \in 1..(Len(Elements) + 1) /\ lsize + 1 \in 1..(Len(Elements) + 1)
      BY <1>0
    <3> QED
      BY <1>0, <1>3, <1>4, <1>5, <2>1, <3>1
  <2> QED
    BY <2>2
<1>11. CASE \E v \in Value : RemoveValueBegin(v)
  BY <1>6, <1>11
<1>12. CASE ListFree
  BY <1>8, <1>12
<1> QED
  BY <1>7, <1>9, <1>10, <1>11, <1>12 DEF ListNext

(* A new list is the empty sequence.                                       *)
LEMMA ListStart == ListInit => ListOK /\ Plain!SInit
<1> SUFFICES ASSUME ListInit PROVE ListOK /\ Plain!SInit
  OBVIOUS
<1>1. ListOK
  BY DEF ListInit, ListOK, NodeAt
<1>2. Elements = <<>>
  BY DEF ListInit, Elements
<1> QED
  BY <1>1, <1>2 DEF ListInit, Plain!SInit

(* The cached node of the list is always the one at the cached position,   *)
(* and lsize is the number of its nodes.                                    *)
THEOREM ListInvariant == ListSpec => []ListOK
<1>1. ListOK /\ UNCHANGED listVars => ListOK'
  BY DEF ListOK, listVars, NodeAt
<1>2. ListOK /\ [ListNext]_listVars => ListOK'
  BY <1>1, ListStep
<1> QED
  BY <1>2, ListStart, PTL DEF ListSpec

(* The list, cache and all, implements a plain sequence.                   *)
THEOREM ListImplementsSeq == ListSpec => ImplementsSeqList
<1>1. ListOK /\ [ListNext]_listVars => [Plain!SNext]_<<Elements, lpos, lgot>>
  <2> SUFFICES ASSUME ListOK, [ListNext]_listVars
               PROVE  Plain!SNext \/ UNCHANGED <<Elements, lpos, lgot>>
    OBVIOUS
  <2>1. CASE ListNext
    BY <2>1, ListStep
  <2>2. CASE UNCHANGED listVars
    BY <2>2 DEF listVars, Elements
  <2> QED
    BY <2>1, <2>2
<1> QED
  BY <1>1, ListStart, ListInvariant, PTL
  DEF ListSpec, ImplementsSeqList, Plain!SSpec
-----------------------------------------------------------------------------
Elem == Byte \cup {Junk}

WriteIndex == w = IF r + size <= cap THEN r + size ELSE r + size - cap

BufferInv == TypeOK /\ (exact => WriteIndex)
-----------------------------------------------------------------------------
(* The factor 1.5 of resize never shrinks the buffer.                      *)
LEMMA ResizeGrows ==
    ASSUME NEW c \in Nat
    PROVE  (3 * c) \div 2 \in Nat /\ (3 * c) \div 2 >= c
  OBVIOUS

(* A span of the array is a sequence of its elements.                      *)
LEMMA SpanSeq ==
    ASSUME NEW S, NEW b, NEW lo \in Int, NEW n \in Nat,
           \A i \in 1..n : b[lo + i - 1] \in S
    PROVE  /\ [i \in 1..n |-> b[lo + i - 1]] \in Seq(S)
           /\ Len([i \in 1..n |-> b[lo + i - 1]]) = n
  OBVIOUS

(* A sequence that agrees with the first n elements of another is their    *)
(* subsequence, one that agrees with the others is the rest.               *)
LEMMA PrefixIsSubSeq ==
    ASSUME NEW S, NEW s \in Seq(S), NEW t \in Seq(S), Len(t) <= Len(s),
           \A i \in 1..Len(t) : t[i] = s[i]
    PROVE  SubSeq(s, 1, Len(t)) = t
  <1>1. \A i \in 1..Len(t) : s[i] \in S
    BY ElementOfSeq
  <1>2. /\ SubSeq(s, 1, Len(t)) \in Seq(S)
        /\ Len(SubSeq(s, 1, Len(t))) = Len(t)
        /\ \A i \in 1..Len(t) : SubSeq(s, 1, Len(t))[i] = s[i]
    BY <1>1, SubSeqProperties
  <1> QED
    BY <1>2, SeqEqual

LEMMA SuffixIsSubSeq ==
    ASSUME NEW S, NEW s \in Seq(S), NEW t \in Seq(S), NEW n \in 0..Len(s),
           Len(t) = Len(s) - n, \A i \in 1..Len(t) : t[i] = s[n + i]
    PROVE  SubSeq(s, n + 1, Len(s)) = t
  <1>1. \A i \in (n + 1)..Len(s) : s[i] \in S
    BY ElementOfSeq
  <1>2. /\ SubSeq(s, n + 1, Len(s)) \in Seq(S)
        /\ Len(SubSeq(s, n + 1, Len(s))) = Len(t)
        /\ \A i \in 1..Len(t) : SubSeq(s, n + 1, Len(s))[i] = s[n + i]
    BY <1>1, SubSeqProperties
  <1> QED
    BY <1>2, SeqEqual

(* The k-th element from x on is within an array of c elements.            *)
LEMMA WrappedIndex ==
    ASSUME NEW c \in Nat, c <= MaxCap, NEW x \in 0..c, NEW k \in 1..c
    PROVE  (IF x + k <= c THEN x + k - 1 ELSE x + k - 1 - c) \in Index
  BY BufferAssumption DEF Index

(* The content is a sequence of _size elements.                            *)
LEMMA ContentSeq ==
    ASSUME TypeOK
    PROVE  /\ Content \in Seq(Elem) /\ Len(Content) = size
           /\ \A i \in 1..size : Content[i] = At(i)
  <1>1. \A i \in 1..size : At(i) \in Elem
    BY BufferAssumption DEF TypeOK, At, Index, Elem
  <1> QED
    BY <1>1 DEF Content, TypeOK
-----------------------------------------------------------------------------
(* The data of a write is a sequence of at least one and at most MaxLen    *)
(* bytes.                                                                  *)
LEMMA DataSeq ==
    ASSUME NEW d \in Data
    PROVE  /\ d \in Seq(Byte) /\ Len(d) \in 1..MaxLen
           /\ \A i \in 1..Len(d) : d[i] \in Byte
  <1>1. PICK n \in 1..MaxLen : d \in [1..n -> Byte]
    BY DEF Data
  <1>2. n \in Nat
    BY <1>1, BufferAssumption
  <1>3. d \in Seq(Byte) /\ Len(d) = n
    BY <1>1, <1>2
  <1> QED
    BY <1>1, <1>3

(* Type correctness and the place of _w hold initially.                    *)
LEMMA InitBufferInv == Init => BufferInv
  <1> SUFFICES ASSUME Init PROVE BufferInv
    OBVIOUS
  <1>1. /\ cap \in InitCap..MaxCap
        /\ size \in 0..cap /\ r \in 0..cap /\ w \in 0..cap /\ WriteIndex
    BY BufferAssumption DEF Init, WriteIndex
  <1>2. /\ use \in {"in", "out", "accept"} /\ exact \in BOOLEAN
        /\ aborted \in BOOLEAN /\ buf \in [Index -> Byte \cup {Junk}]
    BY DEF Init
  <1>3. got \in Seq(Byte \cup {Junk})
    BY EmptySeq DEF Init
  <1> QED
    BY <1>1, <1>2, <1>3 DEF BufferInv, TypeOK

(* write keeps the invariant: _w wraps as the content does.                *)
LEMMA WriteInv ==
    ASSUME BufferInv, NEW d \in Data, write(d)
    PROVE  BufferInv'
  <1> DEFINE n == Len(d)
  <1>1. n \in Nat /\ n >= 1 /\ \A i \in 1..n : d[i] \in Byte
    BY DataSeq, BufferAssumption
  <1>2. buf' \in [Index -> Elem]
    <2>1. \A j \in Index : j < cap /\ Offset(j) <= n => d[Offset(j)] \in Byte
      BY <1>1 DEF BufferInv, TypeOK, Offset, Index
    <2> QED
      BY <2>1 DEF write, BufferInv, TypeOK, Elem
  <1>3. /\ exact /\ n <= cap - size
        /\ w' = IF w + n <= cap THEN w + n ELSE n - (cap - w)
        /\ size' = size + n /\ got' = <<>>
        /\ UNCHANGED <<use, cap, r, exact, aborted>>
        /\ w = IF r + size <= cap THEN r + size ELSE r + size - cap
    BY DEF write, BufferInv, NextW, remainingSpace, WriteIndex, Running
  <1> HIDE DEF n
  <1>4. TypeOK' /\ WriteIndex'
    <2>1. cap \in Nat /\ size \in Nat /\ r \in Nat /\ w \in Nat
          /\ size <= cap /\ r <= cap /\ w <= cap
      BY DEF BufferInv, TypeOK
    <2>2. /\ size' \in Nat /\ size' <= cap
          /\ w' \in Nat /\ w' <= cap
      BY <1>1, <1>3, <2>1
    <2>3. WriteIndex'
      BY <1>1, <1>3, <2>1 DEF WriteIndex
    <2>4. TypeOK'
      BY <1>2, <1>3, <2>1, <2>2 DEF BufferInv, TypeOK, Elem
    <2> QED
      BY <2>3, <2>4
  <1> QED
    BY <1>4 DEF BufferInv

(* resize keeps the invariant: the content starts at index 0 afterwards.   *)
LEMMA ResizeInv ==
    ASSUME BufferInv, resize
    PROVE  BufferInv'
  <1>1. (3 * cap) \div 2 \in Nat /\ (3 * cap) \div 2 >= cap
    BY ResizeGrows, BufferAssumption DEF BufferInv, TypeOK
  <1>2. cap' \in InitCap..MaxCap /\ cap' >= cap
    BY <1>1, BufferAssumption DEF resize, BufferInv, TypeOK
  <1>3. buf' \in [Index -> Elem]
    <2>1. \A j \in Index : j < size => At(j + 1) \in Elem
      BY BufferAssumption DEF BufferInv, TypeOK, At, Index, Elem
    <2> QED
      BY <2>1 DEF resize, Elem
  <1>4. TypeOK'
    BY <1>2, <1>3, BufferAssumption
    DEF resize, BufferInv, TypeOK, ResizedW, Elem
  <1>5. exact' => WriteIndex'
    BY <1>2, BufferAssumption DEF resize, BufferInv, TypeOK, ResizedW,
        WriteIndex
  <1> QED
    BY <1>4, <1>5 DEF BufferInv

(* read keeps the invariant, also when _r has reached the capacity.        *)
LEMMA ReadInv ==
    ASSUME BufferInv, read
    PROVE  BufferInv'
  <1>1. got' \in Seq(Elem)
    BY BufferAssumption DEF read, BufferInv, TypeOK, Index, Elem
  <1>2. TypeOK'
    BY <1>1, BufferAssumption DEF read, BufferInv, TypeOK, Elem
  <1>3. exact' => WriteIndex'
    BY BufferAssumption DEF read, BufferInv, TypeOK, WriteIndex, Running
  <1> QED
    BY <1>2, <1>3 DEF BufferInv

(* A partial first write keeps the invariant: _r never passes the capacity.*)
LEMMA WriteFirstInv ==
    ASSUME BufferInv, NEW n \in 1..MaxCap, writeFirst(n)
    PROVE  BufferInv'
  <1>1. n \in Nat /\ r + n <= cap /\ n < size
    BY BufferAssumption
    DEF writeFirst, Writing, FirstPart, Wraps, BufferInv, TypeOK
  <1>2. got' \in Seq(Elem)
    <2>1. \A i \in 1..n : buf[r + i - 1] \in Elem
      BY <1>1, BufferAssumption DEF BufferInv, TypeOK, Index, Elem
    <2>2. got' = [i \in 1..n |-> buf[r + i - 1]]
      BY <1>1 DEF writeFirst, Span, BufferInv, TypeOK
    <2> QED
      BY <1>1, <2>1, <2>2
  <1>3. TypeOK'
    BY <1>1, <1>2, BufferAssumption DEF writeFirst, BufferInv, TypeOK, Elem
  <1>4. exact' => WriteIndex'
    BY <1>1, BufferAssumption DEF writeFirst, BufferInv, TypeOK, WriteIndex
  <1> QED
    BY <1>3, <1>4 DEF BufferInv

(* Two spans of the array one after the other are a sequence of elements.  *)
LEMMA SpansSeq ==
    ASSUME TypeOK, NEW lo \in 0..cap, NEW hi \in lo..cap,
           NEW from \in 0..cap, NEW to \in from..cap
    PROVE  /\ Span(lo, hi) \o Span(from, to) \in Seq(Elem)
           /\ Len(Span(lo, hi) \o Span(from, to)) = (hi - lo) + (to - from)
           /\ \A i \in 1..((hi - lo) + (to - from)) :
                 (Span(lo, hi) \o Span(from, to))[i] =
                   IF i <= hi - lo THEN buf[lo + i - 1]
                   ELSE buf[from + i - (hi - lo) - 1]
  <1>1. /\ \A i \in 1..(hi - lo) : buf[lo + i - 1] \in Elem
        /\ \A i \in 1..(to - from) : buf[from + i - 1] \in Elem
    BY BufferAssumption DEF TypeOK, Index, Elem
  <1>2. hi - lo \in Nat /\ to - from \in Nat
    BY BufferAssumption DEF TypeOK
  <1>3. /\ Span(lo, hi) \in Seq(Elem) /\ Len(Span(lo, hi)) = hi - lo
        /\ \A i \in 1..(hi - lo) : Span(lo, hi)[i] = buf[lo + i - 1]
    BY <1>1, <1>2 DEF Span
  <1>4. /\ Span(from, to) \in Seq(Elem) /\ Len(Span(from, to)) = to - from
        /\ \A i \in 1..(to - from) : Span(from, to)[i] = buf[from + i - 1]
    BY <1>1, <1>2 DEF Span
  <1>5. PICK a, b : a = Span(lo, hi) /\ b = Span(from, to)
    OBVIOUS
  <1>6. /\ a \in Seq(Elem) /\ Len(a) = hi - lo
        /\ b \in Seq(Elem) /\ Len(b) = to - from
    BY <1>3, <1>4, <1>5
  <1>7. /\ a \o b \in Seq(Elem)
        /\ Len(a \o b) = (hi - lo) + (to - from)
        /\ \A i \in 1..((hi - lo) + (to - from)) :
              (a \o b)[i] = IF i <= hi - lo THEN a[i] ELSE b[i - (hi - lo)]
    <2>1. /\ a \o b \in Seq(Elem) /\ Len(a \o b) = Len(a) + Len(b)
          /\ \A i \in 1..(Len(a) + Len(b)) :
                (a \o b)[i] = IF i <= Len(a) THEN a[i] ELSE b[i - Len(a)]
      BY <1>6, ConcatProperties
    <2> QED
      BY <1>6, <2>1
  <1>8. \A i \in 1..((hi - lo) + (to - from)) :
          (a \o b)[i] = IF i <= hi - lo THEN buf[lo + i - 1]
                        ELSE buf[from + i - (hi - lo) - 1]
    <2> TAKE i \in 1..((hi - lo) + (to - from))
    <2>1. CASE i <= hi - lo
      <3>1. i \in 1..(hi - lo)
        BY <2>1, <1>2
      <3> QED
        BY <2>1, <3>1, <1>3, <1>5, <1>7
    <2>2. CASE ~(i <= hi - lo)
      <3>1. i - (hi - lo) \in 1..(to - from)
        BY <2>2, <1>2
      <3>2. from + (i - (hi - lo)) - 1 = from + i - (hi - lo) - 1
        BY <1>2, BufferAssumption DEF TypeOK
      <3>3. (a \o b)[i] = b[i - (hi - lo)]
        BY <2>2, <1>7, Zenon
      <3>4. b[i - (hi - lo)] = buf[from + (i - (hi - lo)) - 1]
        BY <3>1, <1>4, <1>5, Zenon
      <3> QED
        BY <2>2, <3>2, <3>3, <3>4, Zenon
    <2> QED
      BY <2>1, <2>2
  <1> QED
    BY <1>5, <1>7, <1>8, Zenon

(* What readUntil does to the counters: the newline it was called for is   *)
(* found before _w unless it is in the tail of a wrapped buffer, which     *)
(* makes the operation inexact.                                            *)
LEMMA ReadUntilCounters ==
    ASSUME BufferInv, NEW stop \in 0..MaxCap, NEW end \in 0..MaxCap,
           readUntil(stop, end)
    PROVE  /\ r' \in 0..cap /\ size' \in 0..cap
           /\ r > w => /\ stop \in r..cap /\ end \in 0..w
                      /\ size = cap - r + w
                      /\ got' = Span(r, stop) \o Span(0, end)
           /\ ~(r > w) => /\ stop = r /\ end \in r..w /\ size = w - r
                         /\ got' = Span(r, r) \o Span(r, end)
           /\ exact' => /\ end < w /\ buf[end] = NL
                        /\ r' = end + 1 /\ size' = w - end - 1
                        /\ r > w => stop = cap
  <1> USE BufferAssumption
  <1>0. /\ Running /\ size > 0 /\ haveLine /\ WriteIndex
        /\ cap \in Nat /\ r \in 0..cap /\ w \in 0..cap /\ size \in 0..cap
    BY DEF readUntil, BufferInv, TypeOK, Running
  <1>1. CASE r > w
    <2>1. size = cap - r + w
      BY <1>0, <1>1 DEF WriteIndex
    <2>2. StopsAt(r, cap, stop) /\ StopsAt(0, w, end)
      BY <1>1 DEF readUntil
    <2>3. stop \in r..cap /\ end \in 0..w
      BY <2>2 DEF StopsAt
    <2>4. stop = cap => end < w /\ buf[end] = NL
      <3>1. stop = cap => \E j \in 0..(w - 1) : buf[j] = NL
        BY <1>0, <1>1, <2>2 DEF haveLine, contains, Has, StopsAt
      <3>2. end = w => \A j \in 0..(w - 1) : buf[j] # NL
        BY <2>2 DEF StopsAt
      <3>3. end < w => buf[end] = NL
        BY <2>2 DEF StopsAt
      <3> QED
        BY <1>0, <2>3, <3>1, <3>2, <3>3
    <2>5. exact' => stop = cap
      <3>1. exact' = ~(stop < cap)
        BY <1>1 DEF readUntil
      <3>2. ~(stop < cap) => stop = cap
        BY <1>0, <2>3
      <3> QED
        BY <3>1, <3>2, Zenon
    <2> DEFINE left == size - (stop - r) - (end - 0)
    <2>6. /\ r' = IF left > 0 THEN end + 1 ELSE end
          /\ size' = IF left > 0 THEN left - 1 ELSE left
          /\ got' = Span(r, stop) \o Span(0, end)
      BY <1>1 DEF readUntil
    <2>7. left = (cap - stop) + (w - end)
      BY <1>0, <2>1, <2>3
    <2> HIDE DEF left
    <2>8. left \in Nat /\ left <= cap
      BY <1>0, <1>1, <2>3, <2>7
    <2>9. r' \in 0..cap /\ size' \in 0..cap
      <3>1. CASE left > 0
        BY <1>0, <1>1, <2>3, <2>6, <2>8, <3>1
      <3>2. CASE ~(left > 0)
        BY <1>0, <1>1, <2>3, <2>6, <2>8, <3>2
      <3> QED
        BY <3>1, <3>2
    <2>10. exact' => /\ end < w /\ buf[end] = NL
                     /\ r' = end + 1 /\ size' = w - end - 1
      <3> SUFFICES ASSUME exact'
                   PROVE  /\ end < w /\ buf[end] = NL
                          /\ r' = end + 1 /\ size' = w - end - 1
        OBVIOUS
      <3>1. stop = cap /\ end < w /\ buf[end] = NL
        BY <2>4, <2>5
      <3>2. left = w - end /\ left > 0
        BY <1>0, <2>3, <2>7, <3>1
      <3> QED
        BY <2>6, <3>1, <3>2
    <2> QED
      BY <1>1, <2>1, <2>3, <2>5, <2>6, <2>9, <2>10
  <1>2. CASE ~(r > w)
    <2>1. r < w /\ Has(r, w, NL)
      BY <1>0, <1>2 DEF haveLine, contains
    <2>2. size = w - r
      BY <1>0, <2>1 DEF WriteIndex
    <2>3. stop = r /\ StopsAt(r, w, end)
      BY <1>2 DEF readUntil
    <2>4. end \in r..w /\ end < w /\ buf[end] = NL
      <3>1. \E j \in r..(w - 1) : buf[j] = NL
        BY <2>1 DEF Has
      <3>2. end \in r..w /\ \A j \in r..(end - 1) : buf[j] # NL
        BY <2>3 DEF StopsAt
      <3>3. end < w => buf[end] = NL
        BY <2>3 DEF StopsAt
      <3> QED
        BY <1>0, <3>1, <3>2, <3>3
    <2> DEFINE left == size - (stop - r) - (end - r)
    <2>5. /\ r' = IF left > 0 THEN end + 1 ELSE end
          /\ size' = IF left > 0 THEN left - 1 ELSE left
          /\ got' = Span(r, stop) \o Span(r, end)
      BY <1>2 DEF readUntil
    <2>6. left = w - end /\ left > 0
      BY <1>0, <2>2, <2>3, <2>4
    <2> HIDE DEF left
    <2> QED
      BY <1>0, <1>2, <2>2, <2>3, <2>4, <2>5, <2>6
  <1> QED
    BY <1>1, <1>2

(* readUntil keeps the invariant while it finds the newline it counted.    *)
LEMMA ReadUntilInv ==
    ASSUME BufferInv, NEW stop \in 0..MaxCap, NEW end \in 0..MaxCap,
           readUntil(stop, end)
    PROVE  BufferInv'
  <1> USE BufferAssumption
  <1>1. /\ r' \in 0..cap /\ size' \in 0..cap
        /\ exact' => r' = end + 1 /\ size' = w - end - 1
    BY ReadUntilCounters
  <1>2. got' \in Seq(Elem)
    <2>1. CASE r > w
      <3>1. /\ stop \in r..cap /\ end \in 0..w
            /\ got' = Span(r, stop) \o Span(0, end)
        BY <2>1, ReadUntilCounters
      <3>2. r \in 0..cap /\ 0 \in 0..cap /\ end \in 0..cap /\ TypeOK
        BY <3>1 DEF BufferInv, TypeOK
      <3> QED
        BY <3>1, <3>2, SpansSeq
    <2>2. CASE ~(r > w)
      <3>1. end \in r..w /\ got' = Span(r, r) \o Span(r, end)
        BY <2>2, ReadUntilCounters
      <3>2. r \in 0..cap /\ r \in r..cap /\ end \in r..cap /\ TypeOK
        BY <3>1 DEF BufferInv, TypeOK
      <3> QED
        BY <3>1, <3>2, SpansSeq
    <2> QED
      BY <2>1, <2>2
  <1>3. /\ use' = use /\ cap' = cap /\ w' = w /\ buf' = buf
        /\ aborted' = aborted /\ exact' \in BOOLEAN
    BY DEF readUntil
  <1>4. TypeOK'
    BY <1>1, <1>2, <1>3 DEF BufferInv, TypeOK, Elem
  <1>5. exact' => WriteIndex'
    BY <1>1, <1>3 DEF BufferInv, TypeOK, WriteIndex
  <1> QED
    BY <1>4, <1>5 DEF BufferInv

(* The other outcomes of writeToFd keep the invariant.                     *)
LEMMA WriteAllInv ==
    ASSUME BufferInv, writeAll
    PROVE  BufferInv'
  <1>1. got' \in Seq(Elem)
    BY ContentSeq DEF writeAll, BufferInv
  <1>2. TypeOK'
    BY <1>1, BufferAssumption DEF writeAll, BufferInv, TypeOK, Elem
  <1>3. exact' => WriteIndex'
    BY BufferAssumption DEF writeAll, BufferInv, TypeOK, WriteIndex
  <1> QED
    BY <1>2, <1>3 DEF BufferInv

(* A second write that takes less than all is inexact but stays in range.  *)
LEMMA WriteSecondInv ==
    ASSUME BufferInv, NEW n \in 1..MaxCap, writeSecond(n)
    PROVE  BufferInv'
  <1>1. n \in 0..cap /\ size - n \in 0..cap
    BY BufferAssumption
    DEF writeSecond, Writing, FirstPart, Wraps, BufferInv, TypeOK
  <1>2. r \in 0..cap /\ cap \in r..cap /\ 0 \in 0..cap /\ n \in 0..cap
    BY <1>1, BufferAssumption DEF BufferInv, TypeOK
  <1>3. Span(r, cap) \o Span(0, n) \in Seq(Elem)
    BY <1>2, SpansSeq DEF BufferInv
  <1>4. TypeOK'
    BY <1>1, <1>3 DEF writeSecond, BufferInv, TypeOK, Elem
  <1> QED
    BY <1>4 DEF writeSecond, BufferInv

(* A refused second write changes no counter.                              *)
LEMMA WriteRefusedInv ==
    ASSUME BufferInv, writeRefused
    PROVE  BufferInv'
  <1>1. cap - r \in Nat /\ \A i \in 1..(cap - r) : buf[r + i - 1] \in Elem
    BY BufferAssumption DEF BufferInv, TypeOK, Index, Elem
  <1>2. got' \in Seq(Elem)
    <2>1. got' = [i \in 1..(cap - r) |-> buf[r + i - 1]]
      BY DEF writeRefused, Span
    <2>2. r \in Int
      BY BufferAssumption DEF BufferInv, TypeOK
    <2> QED
      BY <1>1, <2>1, <2>2, SpanSeq
  <1>3. TypeOK'
    BY <1>2 DEF writeRefused, BufferInv, TypeOK, Elem
  <1> QED
    BY <1>3 DEF writeRefused, BufferInv

(* The whole step: type correctness, and _w where the content ends as long *)
(* as the bytes are in order.                                              *)
LEMMA StepBufferInv == BufferInv /\ [Next]_vars => BufferInv'
  <1> SUFFICES ASSUME BufferInv, [Next]_vars PROVE BufferInv'
    OBVIOUS
  <1>1. ASSUME NEW d \in Data, write(d) PROVE BufferInv'
    BY <1>1, WriteInv
  <1>2. CASE writeAborts
    BY <1>2 DEF writeAborts, BufferInv, TypeOK, WriteIndex
  <1>3. CASE resize
    BY <1>3, ResizeInv
  <1>4. CASE read
    BY <1>4, ReadInv
  <1>5. ASSUME NEW stop \in 0..MaxCap, NEW end \in 0..MaxCap,
               readUntil(stop, end)
        PROVE  BufferInv'
    BY <1>5, ReadUntilInv
  <1>6. CASE writeAll
    BY <1>6, WriteAllInv
  <1>7. CASE writeRefused
    BY <1>7, WriteRefusedInv
  <1>8. ASSUME NEW n \in 1..MaxCap, writeFirst(n) PROVE BufferInv'
    BY <1>8, WriteFirstInv
  <1>9. ASSUME NEW n \in 1..MaxCap, writeSecond(n) PROVE BufferInv'
    BY <1>9, WriteSecondInv
  <1>10. CASE UNCHANGED vars
    BY <1>10 DEF vars, BufferInv, TypeOK, WriteIndex
  <1> QED
    BY <1>1, <1>2, <1>3, <1>4, <1>5, <1>6, <1>7, <1>8, <1>9, <1>10 DEF Next

(* The inductive invariant holds in every behaviour of the buffer.         *)
THEOREM BufferInvariant == Spec => []BufferInv
  BY InitBufferInv, StepBufferInv, PTL DEF Spec

(* The indices and the size of a Buffer stay within its capacity, whatever *)
(* is written, read, resized or refused by the kernel.                     *)
THEOREM BufferTypes == Spec => []TypeOK
  <1>1. BufferInv => TypeOK
    BY DEF BufferInv
  <1> QED
    BY <1>1, BufferInvariant, PTL
-----------------------------------------------------------------------------
(* The content after a step is a sequence of the new size.                 *)
LEMMA NextContentSeq ==
    ASSUME TypeOK'
    PROVE  /\ Content' \in Seq(Elem) /\ Len(Content') = size'
           /\ \A i \in 1..size' : Content'[i] = At(i)'
  <1>1. ASSUME NEW i \in 1..size' PROVE At(i)' \in Elem
    <2>1. buf' \in [Index -> Elem]
      BY DEF TypeOK, Elem
    <2>2. (IF r' + i <= cap' THEN r' + i - 1 ELSE r' + i - 1 - cap') \in Index
      <3>1. /\ cap' \in Nat /\ cap' <= MaxCap /\ r' \in 0..cap'
            /\ i \in 1..cap' /\ MaxCap \in Nat
        BY BufferAssumption DEF TypeOK
      <3> QED
        BY <3>1, WrappedIndex
    <2> QED
      BY <2>1, <2>2, Zenon DEF At
  <1>2. size' \in Nat
    BY BufferAssumption DEF TypeOK
  <1> QED
    BY <1>1, <1>2 DEF Content

(* A step that keeps the elements where they were, counted from _r, and    *)
(* may add some after them, puts them into the queue.                      *)
LEMMA PutStep ==
    ASSUME TypeOK, TypeOK', size <= size', got' = <<>>,
           \A i \in 1..size : At(i)' = At(i)
    PROVE  Queue!Put
  <1>1. /\ Content \in Seq(Elem) /\ Len(Content) = size
        /\ \A i \in 1..size : Content[i] = At(i)
    BY ContentSeq
  <1>2. /\ Content' \in Seq(Elem) /\ Len(Content') = size'
        /\ \A i \in 1..size' : Content'[i] = At(i)'
    BY NextContentSeq
  <1>3. \A i \in 1..Len(Content) : Content[i] = Content'[i]
    BY <1>1, <1>2, BufferAssumption DEF TypeOK
  <1>4. SubSeq(Content', 1, Len(Content)) = Content
    BY <1>1, <1>2, <1>3, PrefixIsSubSeq
  <1> QED
    BY <1>1, <1>2, <1>4 DEF Queue!Put

(* What is left after n elements have gone is the rest of the queue.       *)
LEMMA RestStep ==
    ASSUME TypeOK, TypeOK', NEW n \in 1..size, size' = size - n,
           \A i \in 1..size' : At(i)' = At(n + i)
    PROVE  n \in 1..Len(Content) /\ Content' = Queue!Rest(n)
  <1>1. /\ Content \in Seq(Elem) /\ Len(Content) = size
        /\ \A i \in 1..size : Content[i] = At(i)
    BY ContentSeq
  <1>2. /\ Content' \in Seq(Elem) /\ Len(Content') = size'
        /\ \A i \in 1..size' : Content'[i] = At(i)'
    BY NextContentSeq
  <1>3. size \in Nat /\ n \in 0..Len(Content)
    BY <1>1, BufferAssumption DEF TypeOK
  <1>4. \A i \in 1..Len(Content') : Content'[i] = Content[n + i]
    BY <1>1, <1>2, <1>3
  <1>5. SubSeq(Content, n + 1, Len(Content)) = Content'
    BY <1>1, <1>2, <1>3, <1>4, SuffixIsSubSeq
  <1> QED
    BY <1>1, <1>5 DEF Queue!Rest

(* A step that returns the first n elements and leaves the others takes    *)
(* them from the queue.                                                    *)
LEMMA TakeStep ==
    ASSUME TypeOK, TypeOK', NEW n \in 1..size, size' = size - n,
           \A i \in 1..size' : At(i)' = At(n + i),
           Len(got') = n, \A i \in 1..n : got'[i] = At(i)
    PROVE  Queue!Take
  <1>1. /\ Content \in Seq(Elem) /\ Len(Content) = size
        /\ \A i \in 1..size : Content[i] = At(i)
    BY ContentSeq
  <1>2. got' \in Seq(Elem) /\ Len(got') <= Len(Content)
    BY <1>1, BufferAssumption DEF TypeOK, Elem
  <1>3. \A i \in 1..Len(got') : got'[i] = Content[i]
    BY <1>1, BufferAssumption DEF TypeOK
  <1>4. got' = SubSeq(Content, 1, n)
    BY <1>1, <1>2, <1>3, PrefixIsSubSeq
  <1> QED
    BY <1>4, RestStep DEF Queue!Take

(* A step that returns the elements before the first newline, the n-th,    *)
(* and leaves those after it takes a line from the queue.                  *)
LEMMA TakeLineStep ==
    ASSUME TypeOK, TypeOK', NEW n \in 1..size, size' = size - n,
           \A i \in 1..size' : At(i)' = At(n + i),
           At(n) = NL, \A i \in 1..(n - 1) : At(i) # NL,
           Len(got') = n - 1, \A i \in 1..(n - 1) : got'[i] = At(i)
    PROVE  Queue!TakeLine
  <1>1. /\ Content \in Seq(Elem) /\ Len(Content) = size
        /\ \A i \in 1..size : Content[i] = At(i)
    BY ContentSeq
  <1>2. got' \in Seq(Elem) /\ Len(got') <= Len(Content)
    BY <1>1, BufferAssumption DEF TypeOK, Elem
  <1>3. /\ \A i \in 1..Len(got') : got'[i] = Content[i]
        /\ Content[n] = NL /\ \A i \in 1..(n - 1) : Content[i] # NL
    BY <1>1, BufferAssumption DEF TypeOK
  <1>4. got' = SubSeq(Content, 1, n - 1)
    BY <1>1, <1>2, <1>3, PrefixIsSubSeq
  <1>5. n \in 1..Len(Content) /\ Content' = Queue!Rest(n)
    BY RestStep
  <1> QED
    BY <1>3, <1>4, <1>5 DEF Queue!TakeLine
-----------------------------------------------------------------------------
(* write puts the data behind the content.                                 *)
LEMMA WritePuts ==
    ASSUME BufferInv, BufferInv', NEW d \in Data, write(d)
    PROVE  Queue!Put
  <1>1. Len(d) \in Nat /\ Len(d) >= 1
    BY DataSeq, BufferAssumption
  <1>2. \A i \in 1..size : At(i)' = At(i)
    BY <1>1, BufferAssumption
    DEF write, BufferInv, TypeOK, WriteIndex, Running, At, Offset, Index,
        remainingSpace
  <1>3. size <= size' /\ got' = <<>>
    BY <1>1, BufferAssumption DEF write, BufferInv, TypeOK
  <1> QED
    BY <1>2, <1>3, PutStep DEF BufferInv

(* resize moves the content to the start of a larger array.                *)
LEMMA ResizePuts ==
    ASSUME BufferInv, BufferInv', resize
    PROVE  Queue!Put
  <1>1. (3 * cap) \div 2 >= cap /\ (3 * cap) \div 2 \in Nat
    BY ResizeGrows, BufferAssumption DEF BufferInv, TypeOK
  <1>2. ASSUME NEW i \in 1..size PROVE At(i)' = At(i)
    <2>1. i \in Int /\ i - 1 \in Index /\ i - 1 < size /\ (i - 1) + 1 = i
          /\ i <= cap'
      BY <1>1, BufferAssumption DEF resize, BufferInv, TypeOK, Index
    <2>2. buf'[i - 1] = At((i - 1) + 1)
      BY <2>1 DEF resize
    <2>3. At(i)' = buf'[i - 1]
      BY <2>1 DEF resize, At
    <2> QED
      BY <2>1, <2>2, <2>3
  <1>3. size <= size' /\ got' = <<>>
    BY BufferAssumption DEF resize, BufferInv, TypeOK
  <1> QED
    BY <1>2, <1>3, PutStep DEF BufferInv

(* read takes one element.                                                 *)
LEMMA ReadTakes ==
    ASSUME BufferInv, BufferInv', read
    PROVE  Queue!Take
  <1>1. 1 \in 1..size /\ size' = size - 1
    BY BufferAssumption DEF read, BufferInv, TypeOK
  <1>2. \A i \in 1..size' : At(i)' = At(1 + i)
    BY <1>1, BufferAssumption DEF read, BufferInv, TypeOK, At
  <1>3. Len(got') = 1 /\ \A i \in 1..1 : got'[i] = At(i)
    BY BufferAssumption DEF read, BufferInv, TypeOK, At
  <1> QED
    BY <1>1, <1>2, <1>3, TakeStep DEF BufferInv

(* writeToFd takes everything,                                             *)
LEMMA WriteAllTakes ==
    ASSUME BufferInv, BufferInv', writeAll
    PROVE  Queue!Take
  <1>1. size \in 1..size /\ size' = size - size
    BY BufferAssumption DEF writeAll, Writing, BufferInv, TypeOK
  <1>2. \A i \in 1..size' : At(i)' = At(size + i)
    BY BufferAssumption DEF writeAll, BufferInv, TypeOK
  <1>3. Len(got') = size /\ \A i \in 1..size : got'[i] = At(i)
    BY ContentSeq DEF writeAll, BufferInv
  <1> QED
    BY <1>1, <1>2, <1>3, TakeStep DEF BufferInv

(* or what the first write took.                                           *)
LEMMA WriteFirstTakes ==
    ASSUME BufferInv, BufferInv', NEW n \in 1..MaxCap, writeFirst(n)
    PROVE  Queue!Take
  <1>1. n \in 1..size /\ size' = size - n /\ r + n <= cap /\ n \in Nat
    BY BufferAssumption
    DEF writeFirst, Writing, FirstPart, Wraps, BufferInv, TypeOK
  <1>2. \A i \in 1..size' : At(i)' = At(n + i)
    BY <1>1, BufferAssumption DEF writeFirst, BufferInv, TypeOK, At
  <1>3. Len(got') = n /\ \A i \in 1..n : got'[i] = buf[r + i - 1]
    BY <1>1, BufferAssumption DEF writeFirst, Span, BufferInv, TypeOK
  <1>4. \A i \in 1..n : got'[i] = At(i)
    BY <1>1, <1>3, BufferAssumption DEF At, BufferInv, TypeOK
  <1> QED
    BY <1>1, <1>2, <1>3, <1>4, TakeStep DEF BufferInv

(* readUntil takes a line, unless it is inexact.                           *)
LEMMA ReadUntilTakesLine ==
    ASSUME BufferInv, BufferInv', NEW stop \in 0..MaxCap,
           NEW end \in 0..MaxCap, readUntil(stop, end), exact'
    PROVE  Queue!TakeLine
  <1> USE BufferAssumption
  <1>1. /\ cap \in Nat /\ r \in 0..cap /\ w \in 0..cap /\ size \in 0..cap
        /\ size' \in 0..cap /\ TypeOK /\ TypeOK'
        /\ cap' = cap /\ buf' = buf
        /\ end < w /\ buf[end] = NL /\ r' = end + 1 /\ size' = w - end - 1
    <2>1. cap \in Nat /\ r \in 0..cap /\ w \in 0..cap /\ size \in 0..cap
      BY DEF BufferInv, TypeOK
    <2>2. /\ size' \in 0..cap
          /\ end < w /\ buf[end] = NL /\ r' = end + 1 /\ size' = w - end - 1
      BY ReadUntilCounters
    <2>3. cap' = cap /\ buf' = buf
      BY DEF readUntil
    <2> QED
      BY <2>1, <2>2, <2>3 DEF BufferInv
  <1>2. CASE r > w
    <2>1. /\ stop = cap /\ end \in 0..w /\ size = cap - r + w
          /\ got' = Span(r, cap) \o Span(0, end)
      BY <1>2, ReadUntilCounters
    <2>2. /\ \A j \in r..(cap - 1) : buf[j] # NL
          /\ \A j \in 0..(end - 1) : buf[j] # NL
      BY <1>2, <2>1 DEF readUntil, StopsAt
    <2> DEFINE n == (cap - r) + end + 1
    <2>3. n \in 1..size /\ size' = size - n
      BY <1>1, <1>2, <2>1
    <2>4. \A i \in 1..size' : At(i)' = At(n + i)
      BY <1>1, <1>2, <2>1 DEF At
    <2>5. At(n) = NL
      BY <1>1, <1>2, <2>1 DEF At
    <2>6. \A i \in 1..(n - 1) : At(i) # NL
      BY <1>1, <1>2, <2>1, <2>2 DEF At
    <2>7. /\ Len(got') = (cap - r) + (end - 0)
          /\ \A i \in 1..((cap - r) + (end - 0)) :
                got'[i] = IF i <= cap - r THEN buf[r + i - 1]
                          ELSE buf[0 + i - (cap - r) - 1]
      <3>1. r \in 0..cap /\ cap \in r..cap /\ 0 \in 0..cap /\ end \in 0..cap
        BY <1>1, <2>1
      <3>2. TypeOK
        BY <1>1
      <3>3. Len(Span(r, cap) \o Span(0, end)) = (cap - r) + (end - 0)
        BY <3>1, <3>2, SpansSeq
      <3>4. \A i \in 1..((cap - r) + (end - 0)) :
              (Span(r, cap) \o Span(0, end))[i] =
                 IF i <= cap - r THEN buf[r + i - 1]
                 ELSE buf[0 + i - (cap - r) - 1]
        BY <3>1, <3>2, SpansSeq
      <3> QED
        BY <2>1, <3>3, <3>4, Zenon
    <2>8. Len(got') = n - 1 /\ \A i \in 1..(n - 1) : got'[i] = At(i)
      <3>1. n - 1 = (cap - r) + end /\ (cap - r) + (end - 0) = (cap - r) + end
        BY <1>1, <2>1
      <3>2. \A i \in 1..((cap - r) + end) :
               At(i) = IF i <= cap - r THEN buf[r + i - 1]
                       ELSE buf[0 + i - (cap - r) - 1]
        <4> SUFFICES ASSUME NEW i \in 1..((cap - r) + end)
                     PROVE  At(i) = IF i <= cap - r THEN buf[r + i - 1]
                                    ELSE buf[0 + i - (cap - r) - 1]
          OBVIOUS
        <4>1. r + i <= cap <=> i <= cap - r
          BY <1>1, <2>1
        <4>2. r + i - 1 - cap = 0 + i - (cap - r) - 1
          BY <1>1, <2>1
        <4> QED
          BY <4>1, <4>2 DEF At
      <3> QED
        BY <2>7, <3>1, <3>2
    <2> HIDE DEF n
    <2> QED
      BY <1>1, <2>3, <2>4, <2>5, <2>6, <2>8, TakeLineStep
  <1>3. CASE ~(r > w)
    <2>1. /\ stop = r /\ end \in r..w /\ size = w - r
          /\ got' = Span(r, r) \o Span(r, end)
      BY <1>3, ReadUntilCounters
    <2>2. \A j \in r..(end - 1) : buf[j] # NL
      BY <1>3, <2>1 DEF readUntil, StopsAt
    <2> DEFINE n == (end - r) + 1
    <2>3. n \in 1..size /\ size' = size - n
      BY <1>1, <1>3, <2>1
    <2>4. \A i \in 1..size' : At(i)' = At(n + i)
      BY <1>1, <1>3, <2>1 DEF At
    <2>5. At(n) = NL
      BY <1>1, <1>3, <2>1 DEF At
    <2>6. \A i \in 1..(n - 1) : At(i) # NL
      BY <1>1, <1>3, <2>1, <2>2 DEF At
    <2>7. /\ Len(got') = (r - r) + (end - r)
          /\ \A i \in 1..((r - r) + (end - r)) :
                got'[i] = IF i <= r - r THEN buf[r + i - 1]
                          ELSE buf[r + i - (r - r) - 1]
      <3>1. r \in 0..cap /\ r \in r..cap /\ end \in r..cap
        BY <1>1, <2>1
      <3>2. TypeOK
        BY <1>1
      <3>3. Len(Span(r, r) \o Span(r, end)) = (r - r) + (end - r)
        BY <3>1, <3>2, SpansSeq
      <3>4. \A i \in 1..((r - r) + (end - r)) :
              (Span(r, r) \o Span(r, end))[i] =
                 IF i <= r - r THEN buf[r + i - 1]
                 ELSE buf[r + i - (r - r) - 1]
        BY <3>1, <3>2, SpansSeq
      <3> QED
        BY <2>1, <3>3, <3>4, Zenon
    <2>8. Len(got') = n - 1 /\ \A i \in 1..(n - 1) : got'[i] = At(i)
      <3>1. /\ n - 1 = end - r /\ r - r = 0 /\ end - r \in Nat
            /\ (r - r) + (end - r) = end - r
        BY <1>1, <2>1
      <3>2. \A i \in 1..(end - r) : At(i) = buf[r + i - 1]
        BY <1>1, <1>3, <2>1 DEF At
      <3>3. \A i \in 1..(end - r) : i > r - r /\ r + i - (r - r) - 1 = r + i - 1
        BY <1>1, <3>1
      <3> QED
        BY <2>7, <3>1, <3>2, <3>3
    <2> HIDE DEF n
    <2> QED
      BY <1>1, <2>3, <2>4, <2>5, <2>6, <2>8, TakeLineStep
  <1> QED
    BY <1>2, <1>3
-----------------------------------------------------------------------------
(* The empty buffer is the empty queue.                                    *)
LEMMA InitIsQueueInit == Init => Queue!Init
  <1> SUFFICES ASSUME Init PROVE Queue!Init
    OBVIOUS
  <1>1. Content \in Seq(Elem) /\ Len(Content) = 0
    <2>1. TypeOK
      BY InitBufferInv DEF BufferInv
    <2> QED
      BY <2>1, ContentSeq DEF Init
  <1>2. Content = <<>>
    BY <1>1, EmptySeq
  <1> QED
    BY <1>2 DEF Init, Queue!Init

(* A step that changes none of the buffer's fields changes no content.     *)
LEMMA SameContent ==
    ASSUME cap' = cap, size' = size, r' = r, buf' = buf
    PROVE  Content' = Content
  BY DEF Content, At

(* Every step of the buffer is a step of the queue, or changes nothing in  *)
(* it: the two inexact outcomes of writeToFd and the inexact readUntil end *)
(* the promise, as exact tells.                                            *)
LEMMA StepIsQueueStep ==
    ASSUME BufferInv, BufferInv', [Next]_vars
    PROVE  [Queue!Next]_<<Content, got, exact>>
  <1>1. ASSUME NEW d \in Data, write(d) PROVE Queue!Next
    <2>1. exact /\ exact' = exact
      BY <1>1 DEF write, Running
    <2>2. exact = TRUE
      BY <2>1, Zenon DEF BufferInv, TypeOK
    <2> QED
      BY <1>1, <2>1, <2>2, WritePuts, Zenon DEF Queue!Next
  <1>2. CASE writeAborts
    BY <1>2, SameContent DEF writeAborts
  <1>3. CASE resize
    <2>1. exact /\ exact' = exact
      BY <1>3 DEF resize, Running
    <2>2. exact = TRUE
      BY <2>1, Zenon DEF BufferInv, TypeOK
    <2> QED
      BY <1>3, <2>1, <2>2, ResizePuts, Zenon DEF Queue!Next
  <1>4. CASE read
    <2>1. exact /\ exact' = exact
      BY <1>4 DEF read, Running
    <2>2. exact = TRUE
      BY <2>1, Zenon DEF BufferInv, TypeOK
    <2> QED
      BY <1>4, <2>1, <2>2, ReadTakes, Zenon DEF Queue!Next
  <1>5. ASSUME NEW stop \in 0..MaxCap, NEW end \in 0..MaxCap,
               readUntil(stop, end)
        PROVE  Queue!Next
    <2>1. exact /\ exact' \in BOOLEAN
      BY <1>5 DEF readUntil, Running
    <2>2. exact = TRUE
      BY <2>1, Zenon DEF BufferInv, TypeOK
    <2>3. CASE exact' = FALSE
      BY <2>3 DEF Queue!Next
    <2>4. CASE exact' = TRUE
      BY <1>5, <2>2, <2>4, ReadUntilTakesLine, Zenon DEF Queue!Next
    <2> QED
      BY <2>1, <2>3, <2>4, Zenon
  <1>6. CASE writeAll
    <2>1. exact /\ exact' = exact
      BY <1>6 DEF writeAll, Writing, Running
    <2>2. exact = TRUE
      BY <2>1, Zenon DEF BufferInv, TypeOK
    <2> QED
      BY <1>6, <2>1, <2>2, WriteAllTakes, Zenon DEF Queue!Next
  <1>7. CASE writeRefused
    BY <1>7 DEF writeRefused, Queue!Next
  <1>8. ASSUME NEW n \in 1..MaxCap, writeFirst(n) PROVE Queue!Next
    <2>1. exact /\ exact' = exact
      BY <1>8 DEF writeFirst, Writing, Running
    <2>2. exact = TRUE
      BY <2>1, Zenon DEF BufferInv, TypeOK
    <2> QED
      BY <1>8, <2>1, <2>2, WriteFirstTakes, Zenon DEF Queue!Next
  <1>9. ASSUME NEW n \in 1..MaxCap, writeSecond(n) PROVE Queue!Next
    BY <1>9 DEF writeSecond, Queue!Next
  <1>10. CASE UNCHANGED vars
    BY <1>10, SameContent DEF vars
  <1> QED
    BY <1>1, <1>2, <1>3, <1>4, <1>5, <1>6, <1>7, <1>8, <1>9, <1>10 DEF Next

(* The buffer implements the queue: until an operation is inexact, across  *)
(* wrapping, resizing and partial writes, the bytes come out once and in   *)
(* the order they went in, and readUntil returns exactly the next line.    *)
THEOREM RefinesQueue == Spec => ImplementsQueue
  <1>1. BufferInv /\ BufferInv' /\ [Next]_vars
          => [Queue!Next]_<<Content, got, exact>>
    BY StepIsQueueStep
  <1> QED
    BY <1>1, InitIsQueueInit, BufferInvariant, PTL
    DEF Spec, ImplementsQueue, Queue!Spec
-----------------------------------------------------------------------------
(* haveLine looks at the content, part by part, unless it is asked about a *)
(* full buffer whose content starts where it ends.                         *)
LEMMA HaveLineOfContent ==
    ASSUME TypeOK, WriteIndex, ~(size = cap /\ r = w)
    PROVE  haveLine <=> \E i \in 1..size : Content[i] = NL
  <1>1. /\ cap \in Nat /\ size \in 0..cap /\ r \in 0..cap /\ w \in 0..cap
    BY BufferAssumption DEF TypeOK
  <1>2. \A i \in 1..size : Content[i] = At(i)
    BY ContentSeq
  <1>3. CASE r + size <= cap
    <2>1. w = r + size
      BY <1>3 DEF WriteIndex
    <2>2. ~(r > w) /\ (r < w <=> size > 0)
      BY <1>1, <2>1
    <2>3. haveLine <=> size > 0 /\ \E j \in r..(w - 1) : buf[j] = NL
      BY <2>2 DEF haveLine, contains, Has
    <2>4. \A i \in 1..size : At(i) = buf[r + i - 1] /\ r + i - 1 \in r..(w - 1)
      BY <1>1, <1>3, <2>1 DEF At
    <2>5. \A j \in r..(w - 1) : j - r + 1 \in 1..size /\ At(j - r + 1) = buf[j]
      BY <1>1, <1>3, <2>1 DEF At
    <2>6. ASSUME haveLine PROVE \E i \in 1..size : Content[i] = NL
      <3>1. PICK j \in r..(w - 1) : buf[j] = NL
        BY <2>3, <2>6
      <3>2. j - r + 1 \in 1..size /\ At(j - r + 1) = NL
        BY <2>5, <3>1
      <3> QED
        BY <1>2, <3>2
    <2>7. ASSUME NEW i \in 1..size, Content[i] = NL PROVE haveLine
      <3>1. r + i - 1 \in r..(w - 1) /\ buf[r + i - 1] = NL
        BY <1>2, <2>4, <2>7
      <3>2. size > 0
        BY <1>1
      <3> QED
        BY <2>3, <3>1, <3>2
    <2> QED
      BY <2>6, <2>7
  <1>4. CASE ~(r + size <= cap)
    <2>1. w = r + size - cap
      BY <1>4 DEF WriteIndex
    <2>2. r > w
      BY <1>1, <1>4, <2>1
    <2>3. haveLine <=> \/ \E j \in r..(cap - 1) : buf[j] = NL
                       \/ \E j \in 0..(w - 1) : buf[j] = NL
      BY <1>1, <2>2 DEF haveLine, contains, Has
    <2>4. \A i \in 1..size :
             \/ r + i - 1 \in r..(cap - 1) /\ At(i) = buf[r + i - 1]
             \/ r + i - 1 - cap \in 0..(w - 1) /\ At(i) = buf[r + i - 1 - cap]
      BY <1>1, <1>4, <2>1 DEF At
    <2>5. /\ \A j \in r..(cap - 1) :
                j - r + 1 \in 1..size /\ At(j - r + 1) = buf[j]
          /\ \A j \in 0..(w - 1) :
                j - r + 1 + cap \in 1..size /\ At(j - r + 1 + cap) = buf[j]
      BY <1>1, <1>4, <2>1 DEF At
    <2>6. ASSUME haveLine PROVE \E i \in 1..size : Content[i] = NL
      <3>1. CASE \E j \in r..(cap - 1) : buf[j] = NL
        <4>1. PICK j \in r..(cap - 1) : buf[j] = NL
          BY <3>1
        <4>2. j - r + 1 \in 1..size /\ At(j - r + 1) = NL
          BY <2>5, <4>1
        <4> QED
          BY <1>2, <4>2
      <3>2. CASE \E j \in 0..(w - 1) : buf[j] = NL
        <4>1. PICK j \in 0..(w - 1) : buf[j] = NL
          BY <3>2
        <4>2. j - r + 1 + cap \in 1..size /\ At(j - r + 1 + cap) = NL
          BY <2>5, <4>1
        <4> QED
          BY <1>2, <4>2
      <3> QED
        BY <2>3, <2>6, <3>1, <3>2
    <2>7. ASSUME NEW i \in 1..size, Content[i] = NL PROVE haveLine
      <3>1. At(i) = NL
        BY <1>2, <2>7
      <3>2. \/ r + i - 1 \in r..(cap - 1) /\ buf[r + i - 1] = NL
            \/ r + i - 1 - cap \in 0..(w - 1) /\ buf[r + i - 1 - cap] = NL
        BY <2>4, <3>1
      <3> QED
        BY <2>3, <3>2
    <2> QED
      BY <2>6, <2>7
  <1> QED
    BY <1>3, <1>4

(* haveLine sees a newline wherever it is in the buffer, for every         *)
(* capacity, and none in a full buffer that wraps.                         *)
THEOREM HaveLineExactHolds == Spec => []HaveLineExact
  <1>1. BufferInv => HaveLineExact
    <2>1. BufferInv /\ r = w => ~haveLine
      <3>1. BufferInv => cap \in Nat /\ r \in 0..cap
        BY BufferAssumption DEF BufferInv, TypeOK
      <3> QED
        BY <3>1 DEF haveLine, contains
    <2> QED
      BY <2>1, HaveLineOfContent DEF BufferInv, HaveLineExact
  <1> QED
    BY <1>1, BufferInvariant, PTL
-----------------------------------------------------------------------------
(* A set of numbers that is not empty has a least element.                 *)
LEMMA Least ==
    ASSUME NEW S \in SUBSET Nat, S # {}
    PROVE  \E k \in S : \A m \in S : k <= m
<1>1. PICK k \in S : \A m \in S : ~(<<m, k>> \in OpToRel(<, Nat))
  BY NatLessThanWellFounded, WFMin
<1>2. \A m \in S : ~(m < k)
  <2> TAKE m \in S
  <2>1. <<m, k>> \in Nat \X Nat
    OBVIOUS
  <2>2. m < k => <<m, k>> \in OpToRel(<, Nat)
    BY <2>1, Zenon DEF OpToRel
  <2> QED
    BY <2>2, <1>1
<1>3. \A m \in S : m \in Nat /\ k \in Nat
  OBVIOUS
<1> QED
  BY <1>2, <1>3

(* The list PutAtHead builds, element by element: it exists, ...           *)
ListStepOf(s, S, list, i) ==
    IF i = 0 THEN <<>>
    ELSE IF s[i] \in S THEN <<s[i]>> \o list[i - 1] ELSE list[i - 1]
LEMMA ListExists ==
    ASSUME NEW s, NEW S, NEW n \in Nat
    PROVE  \E list : list = [i \in 0..n |-> ListStepOf(s, S, list, i)]
<1> DEFINE Is(list, m) == list = [i \in 0..m |-> ListStepOf(s, S, list, i)]
           Bad == {m \in Nat : ~\E list : Is(list, m)}
<1>1. SUFFICES ASSUME Bad # {} PROVE FALSE
  OBVIOUS
<1>2. PICK m \in Bad : \A k \in Bad : m <= k
  BY <1>1, Least
<1>3. CASE m = 0
  <2> DEFINE g == [i \in 0..0 |-> <<>>]
  <2>1. Is(g, 0)
    BY DEF ListStepOf
  <2> QED
    BY <1>2, <1>3, <2>1
<1>4. CASE m # 0
  <2>1. m - 1 \in Nat /\ m - 1 \notin Bad
    BY <1>2, <1>4
  <2>2. PICK f : Is(f, m - 1)
    BY <2>1
  <2> DEFINE x == ListStepOf(s, S, f, m)
             g == [i \in 0..m |-> IF i = m THEN x ELSE f[i]]
  <2>3. ASSUME NEW i \in 0..m PROVE g[i] = ListStepOf(s, S, g, i)
    <3>1. CASE i = m
      <4>1. g[m - 1] = f[m - 1]
        BY <2>1
      <4> QED
        BY <3>1, <4>1 DEF ListStepOf
    <3>2. CASE i # m
      <4>1. i \in 0..(m - 1) /\ g[i] = f[i]
        BY <2>1, <3>2
      <4>2. f[i] = ListStepOf(s, S, f, i)
        BY <2>2, <4>1, Zenon
      <4>3. i # 0 => i - 1 \in 0..m /\ i - 1 # m
        BY <4>1
      <4>4. i # 0 => g[i - 1] = f[i - 1]
        BY <4>3
      <4> QED
        BY <4>1, <4>2, <4>4 DEF ListStepOf
    <3> QED
      BY <3>1, <3>2
  <2>4. Is(g, m)
    <3> DEFINE h == [i \in 0..m |-> ListStepOf(s, S, g, i)]
    <3>1. g = h
      <4>1. \A i \in 0..m : g[i] = h[i]
        BY <2>3
      <4> HIDE DEF x
      <4> QED
        BY <4>1
    <3> QED
      BY <3>1
  <2> QED
    BY <1>2, <2>4
<1> QED
  BY <1>3, <1>4

(* ... it is what PutAtHead is defined by, ...                             *)
LEMMA HeadList ==
    ASSUME NEW s, NEW S, Len(s) \in Nat
    PROVE  \E list : /\ PutAtHead(s, S) = list[Len(s)]
                     /\ \A i \in 0..Len(s) : list[i] = ListStepOf(s, S, list, i)
<1> DEFINE list[i \in 0..Len(s)] == ListStepOf(s, S, list, i)
<1>1. PutAtHead(s, S) = list[Len(s)]
  BY Zenon DEF PutAtHead, ListStepOf
<1>2. list = [i \in 0..Len(s) |-> ListStepOf(s, S, list, i)]
  BY ListExists, Zenon
<1>3. \A i \in 0..Len(s) : list[i] = ListStepOf(s, S, list, i)
  <2> HIDE DEF list
  <2> QED
    BY <1>2, Zenon
<1> QED
  BY <1>1, <1>3

(* ... and has the elements of s that are in S, none twice if s has none   *)
(* twice, in the opposite order.                                           *)
Injective(s) == \A i, j \in 1..Len(s) : s[i] = s[j] => i = j
LEMMA PutAtHeadSeq ==
    ASSUME NEW T, NEW s \in Seq(T), NEW S
    PROVE  /\ PutAtHead(s, S) \in Seq(T)
           /\ \A i \in 1..Len(PutAtHead(s, S)) :
                 /\ PutAtHead(s, S)[i] \in S
                 /\ \E j \in 1..Len(s) : s[j] = PutAtHead(s, S)[i]
           /\ \A j \in 1..Len(s) : s[j] \in S =>
                 \E i \in 1..Len(PutAtHead(s, S)) : PutAtHead(s, S)[i] = s[j]
           /\ Injective(s) => Injective(PutAtHead(s, S))
           /\ \A i, j \in 1..Len(PutAtHead(s, S)) : i < j =>
                 \E x, y \in 1..Len(s) :
                    /\ y < x
                    /\ s[x] = PutAtHead(s, S)[i] /\ s[y] = PutAtHead(s, S)[j]
           /\ (\A j \in 1..Len(s) : s[j] \in S) =>
                 /\ Len(PutAtHead(s, S)) = Len(s)
                 /\ \A j \in 1..Len(s) : PutAtHead(s, S)[j] = s[Len(s) + 1 - j]
<1>0. Len(s) \in Nat
  OBVIOUS
<1>1. PICK list : /\ PutAtHead(s, S) = list[Len(s)]
                  /\ \A i \in 0..Len(s) : list[i] = ListStepOf(s, S, list, i)
  BY <1>0, HeadList
<1> DEFINE GoodList(h, m) ==
      /\ h \in Seq(T)
      /\ \A i \in 1..Len(h) : h[i] \in S /\ \E j \in 1..m : s[j] = h[i]
      /\ \A j \in 1..m : s[j] \in S => \E i \in 1..Len(h) : h[i] = s[j]
      /\ Injective(s) => Injective(h)
      /\ \A i, j \in 1..Len(h) : i < j =>
            \E x, y \in 1..m : y < x /\ s[x] = h[i] /\ s[y] = h[j]
      /\ (\A j \in 1..m : s[j] \in S) =>
            /\ Len(h) = m
            /\ \A j \in 1..m : h[j] = s[m + 1 - j]
<1> SUFFICES GoodList(PutAtHead(s, S), Len(s))
  OBVIOUS
<1> DEFINE Good(m) == GoodList(list[m], m)
<1> SUFFICES Good(Len(s))
  <2> HIDE DEF GoodList
  <2> QED
    BY <1>1
<1> DEFINE Bad == {m \in 0..Len(s) : ~Good(m)}
<1> SUFFICES ASSUME Bad # {} PROVE FALSE
  <2> HIDE DEF Good
  <2>1. Len(s) \in 0..Len(s)
    BY <1>0
  <2> QED
    BY <2>1
<1>2. PICK m \in Bad : \A k \in Bad : m <= k
  <2> HIDE DEF Good
  <2>1. Bad \in SUBSET Nat
    OBVIOUS
  <2> QED
    BY <2>1, Least
<1>3. m \in 0..Len(s) /\ ~Good(m)
  OBVIOUS
<1>4. CASE m = 0
  <2>1. list[m] = <<>>
    BY <1>0, <1>1, <1>4 DEF ListStepOf
  <2> QED
    BY <1>3, <1>4, <2>1 DEF Injective
<1>5. CASE m # 0
  <2> DEFINE n == m - 1
             l == list[n]
  <2>1. n \in 0..Len(s) /\ n < m /\ m = n + 1 /\ m \in 1..Len(s)
    BY <1>0, <1>3, <1>5
  <2>2. Good(n)
    <3> HIDE DEF Good
    <3> QED
      BY <1>2, <2>1
  <2>3. list[m] = IF s[m] \in S THEN <<s[m]>> \o l ELSE l
    BY <1>1, <1>3, <1>5 DEF ListStepOf
  <2>4. l \in Seq(T) /\ s[m] \in T /\ Len(l) \in Nat
    BY <2>1, <2>2
  <2>5. CASE s[m] \notin S
    <3>1. list[m] = l
      BY <2>3, <2>5
    <3>2. \A j \in 1..m : s[j] \in S => j \in 1..n
      BY <2>1, <2>5
    <3>3. \A j \in 1..n : j \in 1..m
      BY <2>1
    <3>4. ~\A j \in 1..m : s[j] \in S
      BY <2>1, <2>5
    <3> HIDE DEF n
    <3>5. Good(m)
      <4> HIDE DEF l
      <4> QED
        BY <2>2, <3>1, <3>2, <3>3, <3>4 DEF l
    <3> QED
      BY <1>3, <3>5
  <2>6. CASE s[m] \in S
    <3> HIDE DEF l, n
    <3>1. list[m] = <<s[m]>> \o l
      BY <2>3, <2>6
    <3>2. /\ list[m] \in Seq(T) /\ Len(list[m]) = Len(l) + 1
          /\ list[m][1] = s[m]
          /\ \A i \in 1..Len(l) : list[m][i + 1] = l[i]
      BY <2>4, <3>1
    <3>3. \A i \in 1..Len(list[m]) :
             i # 1 => i - 1 \in 1..Len(l) /\ list[m][i] = l[i - 1]
      <4> TAKE i \in 1..Len(list[m])
      <4>1. i # 1 => i - 1 \in 1..Len(l) /\ (i - 1) + 1 = i
        BY <2>4, <3>2
      <4> QED
        BY <3>2, <4>1
    <3>4. \A i \in 1..Len(l) : l[i] \in S /\ \E j \in 1..n : s[j] = l[i]
      BY <2>2 DEF l
    <3>5. ASSUME NEW i \in 1..Len(list[m])
          PROVE  list[m][i] \in S /\ \E j \in 1..m : s[j] = list[m][i]
      <4>1. \A j \in 1..n : j \in 1..m
        BY <2>1
      <4>2. CASE i = 1
        BY <2>1, <2>6, <3>2, <4>2
      <4>3. CASE i # 1
        <5>1. i - 1 \in 1..Len(l) /\ list[m][i] = l[i - 1]
          BY <3>3, <4>3
        <5>2. PICK j \in 1..n : s[j] = l[i - 1]
          BY <3>4, <5>1
        <5> QED
          BY <3>4, <4>1, <5>1, <5>2
      <4> QED
        BY <4>2, <4>3
    <3>6. ASSUME NEW j \in 1..m, s[j] \in S
          PROVE  \E i \in 1..Len(list[m]) : list[m][i] = s[j]
      <4>1. CASE j = m
        BY <2>4, <3>2, <4>1
      <4>2. CASE j # m
        <5>1. j \in 1..n
          BY <2>1, <4>2
        <5>2. PICK i \in 1..Len(l) : l[i] = s[j]
          BY <2>2, <3>6, <5>1 DEF l
        <5>3. i + 1 \in 1..Len(list[m])
          BY <2>4, <3>2
        <5> QED
          BY <3>2, <5>2, <5>3
      <4> QED
        BY <4>1, <4>2
    <3>7. ASSUME Injective(s) PROVE Injective(list[m])
      <4>1. Injective(l)
        BY <2>2, <3>7 DEF l
      <4>2. \A i \in 1..Len(l) : l[i] # s[m]
        <5> TAKE i \in 1..Len(l)
        <5>1. PICK j \in 1..n : s[j] = l[i]
          BY <3>4
        <5>2. j # m /\ j \in 1..Len(s) /\ m \in 1..Len(s)
          BY <2>1
        <5> QED
          BY <3>7, <5>1, <5>2 DEF Injective
      <4> SUFFICES ASSUME NEW i \in 1..Len(list[m]), NEW j \in 1..Len(list[m]),
                          list[m][i] = list[m][j]
                   PROVE  i = j
        BY DEF Injective
      <4>3. /\ i # 1 => i - 1 \in 1..Len(l) /\ list[m][i] = l[i - 1]
            /\ j # 1 => j - 1 \in 1..Len(l) /\ list[m][j] = l[j - 1]
            /\ list[m][1] = s[m]
        BY <3>2, <3>3
      <4>4. (i = 1) = (j = 1)
        BY <4>2, <4>3
      <4>5. CASE i # 1 /\ j # 1
        <5>1. i - 1 = j - 1
          BY <4>1, <4>3, <4>5 DEF Injective
        <5> QED
          BY <3>2, <5>1
      <4> QED
        BY <4>4, <4>5
    <3>8. ASSUME \A j \in 1..m : s[j] \in S
          PROVE  /\ Len(list[m]) = m
                 /\ \A j \in 1..m : list[m][j] = s[m + 1 - j]
      <4>1. \A j \in 1..n : s[j] \in S
        BY <2>1, <3>8
      <4>2. Len(l) = n /\ \A j \in 1..n : l[j] = s[n + 1 - j]
        BY <2>2, <4>1 DEF l
      <4>3. Len(list[m]) = m
        BY <2>1, <3>2, <4>2
      <4>4. ASSUME NEW j \in 1..m PROVE list[m][j] = s[m + 1 - j]
        <5>1. CASE j = 1
          BY <2>1, <3>2, <5>1
        <5>2. CASE j # 1
          <6>1. j - 1 \in 1..n /\ n + 1 - (j - 1) = m + 1 - j
            BY <2>1, <5>2
          <6>2. list[m][j] = l[j - 1]
            BY <3>3, <4>3, <5>2
          <6> QED
            BY <4>2, <6>1, <6>2
        <5> QED
          BY <5>1, <5>2
      <4> QED
        BY <4>3, <4>4
    <3>9. ASSUME NEW i \in 1..Len(list[m]), NEW j \in 1..Len(list[m]), i < j
          PROVE  \E x, y \in 1..m :
                    y < x /\ s[x] = list[m][i] /\ s[y] = list[m][j]
      <4>1. \A x \in 1..n : x \in 1..m /\ x < m
        BY <2>1
      <4>2. j # 1 /\ j - 1 \in 1..Len(l) /\ list[m][j] = l[j - 1]
        BY <3>2, <3>3, <3>9
      <4>3. CASE i = 1
        <5>1. PICK y \in 1..n : s[y] = l[j - 1]
          BY <3>4, <4>2
        <5> QED
          BY <2>1, <3>2, <4>1, <4>2, <4>3, <5>1
      <4>4. CASE i # 1
        <5>1. i - 1 \in 1..Len(l) /\ list[m][i] = l[i - 1] /\ i - 1 < j - 1
          BY <3>2, <3>3, <3>9, <4>4
        <5>2. PICK x, y \in 1..n : y < x /\ s[x] = l[i - 1] /\ s[y] = l[j - 1]
          BY <2>2, <4>2, <5>1 DEF l
        <5> QED
          BY <4>1, <4>2, <5>1, <5>2
      <4> QED
        BY <4>3, <4>4
    <3>10. Good(m)
      BY <3>2, <3>5, <3>6, <3>7, <3>8, <3>9
    <3> QED
      BY <1>3, <3>10
  <2> QED
    BY <2>5, <2>6
<1> QED
  BY <1>4, <1>5

(* A number is made of its quotient and its remainder.                     *)
LEMMA Divided ==
    ASSUME NEW h \in Int, NEW n \in Int, n > 0
    PROVE  /\ h % n \in 0..(n - 1) /\ h \div n \in Int
           /\ h = n * (h \div n) + (h % n)
  OBVIOUS

\* There is only one remainder.
LEMMA OneRemainder ==
    ASSUME NEW n \in Nat \ {0}, NEW p \in Int, NEW q \in Int,
           NEW x \in 0..(n - 1), NEW s \in 0..(n - 1), n * p + x = n * q + s
    PROVE  x = s
<1> DEFINE d == p - q
<1>1. d \in Int /\ n * d = n * p - n * q
  OBVIOUS
<1> HIDE DEF d
<1>2. n * d = s - x
  BY <1>1
<1>3. CASE d >= 1
  <2>1. n * d >= n
    BY <1>1, <1>3
  <2> QED
    BY <1>2, <2>1
<1>4. CASE d <= -1
  <2>1. n * d <= -n
    BY <1>1, <1>4
  <2> QED
    BY <1>2, <2>1
<1>5. CASE d = 0
  BY <1>2, <1>5
<1> QED
  BY <1>1, <1>3, <1>4, <1>5

(* The old bucket of an entry, found from its new one.                     *)
LEMMA OldBucket ==
    ASSUME NEW h \in Nat, NEW n \in Nat \ {0}
    PROVE  (h % (2 * n)) % n = h % n
<1> DEFINE x == h % (2 * n)
           q == h \div (2 * n)
<1>1. h \in Int /\ n \in Int /\ n > 0 /\ 2 * n \in Int /\ 2 * n > 0
  OBVIOUS
<1>2. /\ x \in 0..(2 * n - 1) /\ q \in Int /\ h = (2 * n) * q + x
  BY <1>1, Divided
<1> HIDE DEF x, q
<1>3. /\ x \in Nat /\ x % n \in 0..(n - 1) /\ x \div n \in Int
      /\ x = n * (x \div n) + (x % n)
  BY <1>1, <1>2, Divided
<1>4. /\ h % n \in 0..(n - 1) /\ h \div n \in Int
      /\ h = n * (h \div n) + (h % n)
  BY <1>1, Divided
<1> DEFINE u == x \div n
           t == x % n
           p == h \div n
           v == h % n
<1> HIDE DEF u, t, p, v
<1>5. /\ h = (2 * n) * q + (n * u + t) /\ h = n * p + v
      /\ n \in Int /\ q \in Int /\ u \in Int /\ t \in Int
  BY <1>2, <1>3, <1>4 DEF u, t, p, v
<1>6. n * (2 * q + u) + t = n * p + v
  BY <1>5
<1>7. /\ 2 * q + u \in Int /\ p \in Int /\ t \in 0..(n - 1)
      /\ v \in 0..(n - 1)
  BY <1>2, <1>3, <1>4 DEF u, t, p, v
<1>8. t = v
  BY <1>6, <1>7, OneRemainder
<1> QED
  BY <1>8 DEF x, t, v
-----------------------------------------------------------------------------
HEntry == [key : DOMAIN Hash, data : Datum \cup Nat]
ChainOf(t, b) == t.buckets[b].chain

(* The fields of a table, which the calls replace one by one.              *)
IsTable(t) ==
    /\ t = [num_buckets |-> t.num_buckets, buckets |-> t.buckets,
            num_items |-> t.num_items, ineff_expands |-> t.ineff_expands,
            noexpand |-> t.noexpand]
    /\ t.num_buckets \in Nat /\ t.num_buckets >= InitBuckets
    /\ t.buckets = [b \in 0..(t.num_buckets - 1) |-> t.buckets[b]]
    /\ \A b \in 0..(t.num_buckets - 1) :
          t.buckets[b] = [chain |-> t.buckets[b].chain,
                          count |-> t.buckets[b].count,
                          expand_mult |-> t.buckets[b].expand_mult]

\* The users of a table store a datum once.
Distinct(a) == \A p, q \in 1..Len(a) : a[p].data = a[q].data => p = q

\* The chain of a bucket has the entries that hash to it, each once.
Chained(t, a) ==
    /\ \A b \in 0..(t.num_buckets - 1) :
          /\ ChainOf(t, b) \in Seq(HEntry) /\ Injective(ChainOf(t, b))
          /\ \A i \in 1..Len(ChainOf(t, b)) :
                /\ BucketOf(ChainOf(t, b)[i].key, t.num_buckets) = b
                /\ \E p \in 1..Len(a) : a[p] = ChainOf(t, b)[i]
    /\ \A p \in 1..Len(a) :
          LET c == ChainOf(t, BucketOf(a[p].key, t.num_buckets))
          IN  \E i \in 1..Len(c) : c[i] = a[p]

\* The later ones come first, unless the chain has been turned since.
ChainOrder(t, a, turns) ==
    \A b \in 0..(t.num_buckets - 1) :
        \A i, j \in 1..Len(ChainOf(t, b)), p, q \in 1..Len(a) :
            i < j /\ a[p] = ChainOf(t, b)[i] /\ a[q] = ChainOf(t, b)[j]
                => Precedes(p, q, turns)

TableInv(t, a, turns) ==
    /\ a \in Seq(HEntry) /\ Distinct(a)
    /\ turns \in Seq(0..1) /\ Len(turns) = Len(a)
    /\ IsTable(t) /\ t.num_items = Len(a)
    /\ Chained(t, a) /\ ChainOrder(t, a, turns)

(* A table without entries stands for one that does not exist.             *)
HashInv ==
    /\ TableInv(tbl, app, turned)
    /\ app \in Seq([key : HKey, data : Datum])
    /\ app = <<>> => tbl = NewTable

(* The bucket of a key, and the one it has after an expansion.             *)
LEMMA BucketRange ==
    ASSUME NEW k \in DOMAIN Hash, NEW n \in Nat, n >= InitBuckets
    PROVE  /\ BucketOf(k, n) \in 0..(n - 1)
           /\ BucketOf(k, 2 * n) \in 0..(2 * n - 1)
           /\ BucketOf(k, 2 * n) % n = BucketOf(k, n) /\ n \in Nat \ {0}
<1>1. /\ Hash[k] \in Nat /\ Hash[k] \in Int /\ n \in Nat \ {0} /\ n \in Int
      /\ n > 0 /\ 2 * n \in Int /\ 2 * n > 0
  BY UtHashAssumption
<1> QED
  BY <1>1, Divided, OldBucket DEF BucketOf

(* A new table has no entries.                                             *)
LEMMA NewTableInv == TableInv(NewTable, <<>>, <<>>)
<1>1. IsTable(NewTable)
  <2> DEFINE n == InitBuckets
             bs == [b \in 0..(n - 1) |-> EmptyBucket]
  <2>1. /\ NewTable.num_buckets = n /\ NewTable.buckets = bs
        /\ NewTable.num_items = 0 /\ NewTable.ineff_expands = 0
        /\ NewTable.noexpand = FALSE
    BY DEF NewTable
  <2>2. \A b \in 0..(n - 1) : bs[b] = [chain |-> bs[b].chain,
           count |-> bs[b].count, expand_mult |-> bs[b].expand_mult]
    BY DEF EmptyBucket
  <2>3. bs = [b \in 0..(n - 1) |-> bs[b]]
    OBVIOUS
  <2>4. NewTable = [num_buckets |-> n, buckets |-> bs, num_items |-> 0,
                    ineff_expands |-> 0, noexpand |-> FALSE]
    BY DEF NewTable
  <2>5. n \in Nat
    BY UtHashAssumption
  <2> HIDE DEF bs
  <2> QED
    BY <2>1, <2>2, <2>3, <2>4, <2>5 DEF IsTable
<1>2. Chained(NewTable, <<>>)
  <2>1. \A b \in 0..(NewTable.num_buckets - 1) : ChainOf(NewTable, b) = <<>>
    BY DEF ChainOf, NewTable, EmptyBucket
  <2>2. /\ Len(<<>>) = 0 /\ <<>> \in Seq(HEntry)
        /\ \A i : i \notin 1..Len(<<>>)
    OBVIOUS
  <2> HIDE DEF HEntry
  <2> QED
    BY <2>1, <2>2 DEF Chained, Injective
<1>3. ChainOrder(NewTable, <<>>, <<>>)
  BY DEF ChainOrder
<1> QED
  BY <1>1, <1>2, <1>3 DEF TableInv, Distinct, NewTable

(* Where an element of a shorter sequence was, and where it goes.          *)
LEMMA UnlinkedSeq ==
    ASSUME NEW T, NEW s \in Seq(T), Injective(s), NEW n \in 1..Len(s)
    PROVE  /\ Unlinked(s, s[n]) = Ordered!Without(s, n)
           /\ Unlinked(s, s[n]) \in Seq(T)
           /\ Len(Unlinked(s, s[n])) = Len(s) - 1
           /\ \A i \in 1..(Len(s) - 1) :
                 Unlinked(s, s[n])[i] = IF i < n THEN s[i] ELSE s[i + 1]
           /\ Injective(Unlinked(s, s[n]))
<1> DEFINE f == Ordered!Without(s, n)
<1>1. (CHOOSE i \in 1..Len(s) : s[i] = s[n]) = n
  BY DEF Injective
<1>2. Unlinked(s, s[n]) = f
  BY <1>1 DEF Unlinked, WithoutAt, Ordered!Without
<1>3. f = [i \in 1..(Len(s) - 1) |-> IF i < n THEN s[i] ELSE s[i + 1]]
  BY DEF Ordered!Without
<1>4. /\ Len(s) - 1 \in Nat
      /\ \A i \in 1..(Len(s) - 1) : i \in 1..Len(s) /\ i + 1 \in 1..Len(s)
  OBVIOUS
<1>5. f \in [1..(Len(s) - 1) -> T]
  BY <1>3, <1>4
<1> HIDE DEF f
<1>6. f \in Seq(T) /\ Len(f) = Len(s) - 1
  BY <1>4, <1>5, SeqOfFun
<1>7. Injective(f)
  <2> SUFFICES ASSUME NEW i \in 1..Len(f), NEW j \in 1..Len(f), f[i] = f[j]
               PROVE  i = j
    BY DEF Injective
  <2> DEFINE old(k) == IF k < n THEN k ELSE k + 1
  <2>1. \A k \in 1..Len(f) : old(k) \in 1..Len(s) /\ f[k] = s[old(k)]
    BY <1>3, <1>4, <1>6
  <2>2. s[old(i)] = s[old(j)]
    BY <2>1
  <2>3. old(i) = old(j)
    <3> HIDE DEF old
    <3> QED
      BY <2>1, <2>2 DEF Injective
  <2> QED
    BY <1>6, <2>3
<1> QED
  BY <1>2, <1>3, <1>6, <1>7 DEF f

(* What a call changes in a table: the number of items, and one bucket.    *)
Changed(t, m, b, c, k) ==
    [t EXCEPT !.num_items = m,
              !.buckets[b] = [@ EXCEPT !.count = k, !.chain = c]]
LEMMA BucketChanged ==
    ASSUME NEW t, IsTable(t), NEW b \in 0..(t.num_buckets - 1),
           NEW m, NEW c, NEW k
    PROVE  /\ IsTable(Changed(t, m, b, c, k))
           /\ Changed(t, m, b, c, k).num_buckets = t.num_buckets
           /\ Changed(t, m, b, c, k).num_items = m
           /\ \A a \in 0..(t.num_buckets - 1) :
                 ChainOf(Changed(t, m, b, c, k), a) =
                    IF a = b THEN c ELSE ChainOf(t, a)
<1> DEFINE u == Changed(t, m, b, c, k)
           x == [t.buckets[b] EXCEPT !.count = k, !.chain = c]
           bs == [t.buckets EXCEPT ![b] = x]
<1>1. /\ x.chain = c /\ x.count = k /\ x.expand_mult = t.buckets[b].expand_mult
      /\ x = [chain |-> c, count |-> k,
              expand_mult |-> t.buckets[b].expand_mult]
  <2> DEFINE y == t.buckets[b]
  <2>1. y = [chain |-> y.chain, count |-> y.count,
             expand_mult |-> y.expand_mult]
    BY DEF IsTable
  <2>2. x = [y EXCEPT !.count = k, !.chain = c]
    OBVIOUS
  <2> HIDE DEF x, y
  <2>3. /\ x = [chain |-> c, count |-> k, expand_mult |-> y.expand_mult]
        /\ x.chain = c /\ x.count = k /\ x.expand_mult = y.expand_mult
    BY <2>1, <2>2
  <2> QED
    BY <2>3 DEF y
<1> HIDE DEF x
<1>2. /\ bs = [a \in 0..(t.num_buckets - 1) |-> bs[a]]
      /\ \A a \in 0..(t.num_buckets - 1) :
            bs[a] = IF a = b THEN x ELSE t.buckets[a]
  BY DEF IsTable
<1> HIDE DEF bs
<1>3. /\ u = [num_buckets |-> t.num_buckets, buckets |-> bs, num_items |-> m,
              ineff_expands |-> t.ineff_expands, noexpand |-> t.noexpand]
      /\ u.num_buckets = t.num_buckets /\ u.buckets = bs /\ u.num_items = m
      /\ u.ineff_expands = t.ineff_expands /\ u.noexpand = t.noexpand
  <2>1. u = [t EXCEPT !.num_items = m,
                      !.buckets[b] = [@ EXCEPT !.count = k, !.chain = c]]
    BY DEF Changed
  <2> HIDE DEF u
  <2> QED
    BY <2>1 DEF IsTable, bs, x
<1>4. \A a \in 0..(t.num_buckets - 1) :
         /\ bs[a] = [chain |-> bs[a].chain, count |-> bs[a].count,
                     expand_mult |-> bs[a].expand_mult]
         /\ bs[a].chain = IF a = b THEN c ELSE ChainOf(t, a)
  BY <1>1, <1>2 DEF IsTable, ChainOf
<1> QED
  BY <1>2, <1>3, <1>4 DEF IsTable, ChainOf

(* An entry added at the head of its chain.                                *)
LEMMA AddedInv ==
    ASSUME NEW t, NEW a, NEW turns, TableInv(t, a, turns), NEW e \in HEntry,
           \A p \in 1..Len(a) : a[p].data # e.data,
           NEW u, IsTable(u), u.num_buckets = t.num_buckets,
           u.num_items = t.num_items + 1,
           \A c \in 0..(t.num_buckets - 1) : ChainOf(u, c) =
              IF c = BucketOf(e.key, t.num_buckets)
              THEN <<e>> \o ChainOf(t, c) ELSE ChainOf(t, c)
    PROVE  TableInv(u, Append(a, e), Append(turns, 0))
<1> DEFINE n == t.num_buckets
           b == BucketOf(e.key, n)
           a2 == Append(a, e)
           turns2 == Append(turns, 0)
<1>1. /\ a \in Seq(HEntry) /\ Len(a) \in Nat /\ a2 \in Seq(HEntry)
      /\ Len(a2) = Len(a) + 1 /\ a2[Len(a) + 1] = e
      /\ \A p \in 1..Len(a) :
            a2[p] = a[p] /\ a[p] \in HEntry /\ p \in 1..Len(a2)
      /\ \A p \in 1..Len(a2) : p \in 1..Len(a) \/ p = Len(a) + 1
  BY DEF TableInv
<1>2. /\ n \in Nat /\ n >= InitBuckets /\ b \in 0..(n - 1)
      /\ e.key \in DOMAIN Hash
  BY BucketRange DEF TableInv, IsTable, HEntry
<1>3. /\ ChainOf(u, b) = <<e>> \o ChainOf(t, b)
      /\ \A c \in 0..(n - 1) : c # b => ChainOf(u, c) = ChainOf(t, c)
      /\ u.num_buckets = n
  BY <1>2
<1> HIDE DEF a2
<1>4. Distinct(a2)
  BY <1>1 DEF Distinct, TableInv
<1>5. /\ Chained(t, a) /\ ChainOrder(t, a, turns)
      /\ turns \in Seq(0..1) /\ Len(turns) = Len(a)
  BY DEF TableInv
<1>6. ChainOf(t, b) \in Seq(HEntry) /\ Len(ChainOf(t, b)) \in Nat
  BY <1>2, <1>5 DEF Chained
<1>7. /\ ChainOf(u, b) \in Seq(HEntry)
      /\ Len(ChainOf(u, b)) = Len(ChainOf(t, b)) + 1
      /\ ChainOf(u, b)[1] = e
      /\ \A i \in 1..Len(ChainOf(t, b)) :
            ChainOf(u, b)[i + 1] = ChainOf(t, b)[i]
  BY <1>3, <1>6
<1>8. \A i \in 1..Len(ChainOf(u, b)) : i # 1 =>
         /\ i - 1 \in 1..Len(ChainOf(t, b))
         /\ ChainOf(u, b)[i] = ChainOf(t, b)[i - 1]
  <2> TAKE i \in 1..Len(ChainOf(u, b))
  <2>1. i # 1 => i - 1 \in 1..Len(ChainOf(t, b)) /\ (i - 1) + 1 = i
    BY <1>6, <1>7
  <2> QED
    BY <1>7, <2>1
<1>9. \A c \in 0..(n - 1) :
         \A i \in 1..Len(ChainOf(t, c)) : ChainOf(t, c)[i] # e
  BY <1>2, <1>5 DEF Chained
<1> HIDE DEF n, b
<1>10. \A c \in 0..(n - 1) :
          /\ ChainOf(u, c) \in Seq(HEntry) /\ Injective(ChainOf(u, c))
          /\ \A i \in 1..Len(ChainOf(u, c)) :
                /\ BucketOf(ChainOf(u, c)[i].key, n) = c
                /\ \E p \in 1..Len(a2) : a2[p] = ChainOf(u, c)[i]
  <2> TAKE c \in 0..(n - 1)
  <2>0. /\ ChainOf(t, c) \in Seq(HEntry) /\ Injective(ChainOf(t, c))
        /\ \A i \in 1..Len(ChainOf(t, c)) :
              /\ BucketOf(ChainOf(t, c)[i].key, n) = c
              /\ \E p \in 1..Len(a2) : a2[p] = ChainOf(t, c)[i]
    <3>1. \A i \in 1..Len(ChainOf(t, c)) :
             \E p \in 1..Len(a) : a[p] = ChainOf(t, c)[i]
      BY <1>5 DEF Chained, n
    <3>2. \A i \in 1..Len(ChainOf(t, c)) :
             \E p \in 1..Len(a2) : a2[p] = ChainOf(t, c)[i]
      BY <1>1, <3>1
    <3> QED
      BY <1>5, <3>2 DEF Chained, n
  <2>1. CASE c # b
    BY <1>3, <2>0, <2>1
  <2>2. CASE c = b
    <3>1. Injective(ChainOf(u, b))
      <4> SUFFICES ASSUME NEW i \in 1..Len(ChainOf(u, b)),
                          NEW j \in 1..Len(ChainOf(u, b)),
                          ChainOf(u, b)[i] = ChainOf(u, b)[j]
                   PROVE  i = j
        BY DEF Injective
      <4>1. /\ i # 1 => i - 1 \in 1..Len(ChainOf(t, b))
                        /\ ChainOf(u, b)[i] = ChainOf(t, b)[i - 1]
            /\ j # 1 => j - 1 \in 1..Len(ChainOf(t, b))
                        /\ ChainOf(u, b)[j] = ChainOf(t, b)[j - 1]
        BY <1>8
      <4>2. (i = 1) = (j = 1)
        BY <1>7, <1>9, <2>2, <4>1
      <4>3. CASE i # 1 /\ j # 1
        <5>1. i - 1 = j - 1
          BY <2>0, <2>2, <4>1, <4>3 DEF Injective
        <5> QED
          BY <5>1
      <4> QED
        BY <4>2, <4>3
    <3>2. ASSUME NEW i \in 1..Len(ChainOf(u, b))
          PROVE  /\ BucketOf(ChainOf(u, b)[i].key, n) = b
                 /\ \E p \in 1..Len(a2) : a2[p] = ChainOf(u, b)[i]
      <4>1. CASE i = 1
        <5>1. Len(a) + 1 \in 1..Len(a2)
          BY <1>1
        <5> QED
          BY <1>1, <1>7, <4>1, <5>1 DEF b
      <4>2. CASE i # 1
        BY <1>8, <2>0, <2>2, <4>2
      <4> QED
        BY <4>1, <4>2
    <3> QED
      BY <1>7, <2>2, <3>1, <3>2
  <2> QED
    BY <2>1, <2>2
<1>11. ASSUME NEW p \in 1..Len(a2)
       PROVE  \E i \in 1..Len(ChainOf(u, BucketOf(a2[p].key, n))) :
                 ChainOf(u, BucketOf(a2[p].key, n))[i] = a2[p]
  <2>1. CASE p = Len(a) + 1
    <3>1. a2[p] = e /\ BucketOf(a2[p].key, n) = b /\ 1 \in 1..Len(ChainOf(u, b))
      BY <1>1, <1>6, <1>7, <2>1 DEF b
    <3> QED
      BY <1>7, <3>1
  <2>2. CASE p \in 1..Len(a)
    <3> DEFINE c == BucketOf(a[p].key, n)
    <3>1. a2[p] = a[p] /\ a[p] \in HEntry /\ c \in 0..(n - 1)
      BY <1>1, <1>2, <2>2, BucketRange DEF HEntry
    <3>2. PICK i \in 1..Len(ChainOf(t, c)) : ChainOf(t, c)[i] = a[p]
      BY <1>5, <2>2 DEF Chained, n
    <3> HIDE DEF c
    <3>3. CASE c # b
      BY <1>3, <3>1, <3>2, <3>3 DEF c
    <3>4. CASE c = b
      <4>1. i + 1 \in 1..Len(ChainOf(u, b)) /\ ChainOf(u, b)[i + 1] = a[p]
        BY <1>6, <1>7, <3>2, <3>4
      <4> QED
        BY <3>1, <3>4, <4>1 DEF c
    <3> QED
      BY <3>3, <3>4
  <2> QED
    BY <1>1, <2>1, <2>2
<1>12. Chained(u, a2)
  BY <1>3, <1>10, <1>11 DEF Chained
<1>13. /\ turns2 \in Seq(0..1) /\ Len(turns2) = Len(a2)
       /\ turns2[Len(a) + 1] = 0
       /\ \A p \in 1..Len(a) : turns2[p] = turns[p]
  BY <1>1, <1>5
<1> HIDE DEF turns2
<1>14. ChainOrder(u, a2, turns2)
  <2> SUFFICES ASSUME NEW c \in 0..(n - 1),
                      NEW i \in 1..Len(ChainOf(u, c)),
                      NEW j \in 1..Len(ChainOf(u, c)),
                      NEW p \in 1..Len(a2), NEW q \in 1..Len(a2),
                      i < j, a2[p] = ChainOf(u, c)[i], a2[q] = ChainOf(u, c)[j]
               PROVE  Precedes(p, q, turns2)
    BY <1>3 DEF ChainOrder
  <2>1. \A k \in 1..Len(ChainOf(t, c)) : ChainOf(t, c)[k] # e
    BY <1>9
  <2>2. \E k \in 1..Len(ChainOf(t, c)) : ChainOf(u, c)[j] = ChainOf(t, c)[k]
    <3>1. CASE c = b
      <4>1. j # 1
        OBVIOUS
      <4> QED
        BY <1>8, <3>1, <4>1
    <3>2. CASE c # b
      BY <1>3, <3>2
    <3> QED
      BY <3>1, <3>2
  <2>3. q # Len(a) + 1 /\ q \in 1..Len(a)
    BY <1>1, <2>1, <2>2
  <2>4. CASE p = Len(a) + 1
    <3>1. q < p
      BY <1>1, <2>3, <2>4
    <3> QED
      BY <1>13, <2>4, <3>1 DEF Precedes
  <2>5. CASE p \in 1..Len(a)
    <3>1. a[p] = ChainOf(u, c)[i] /\ a[q] = ChainOf(u, c)[j] /\ a[p] # e
      BY <1>1, <2>3, <2>5
    <3>2. \A k, l \in 1..Len(ChainOf(t, c)) :
             k < l /\ a[p] = ChainOf(t, c)[k] /\ a[q] = ChainOf(t, c)[l]
                => Precedes(p, q, turns)
      BY <1>5, <2>3, <2>5 DEF ChainOrder, n
    <3>3. CASE c # b
      <4>1. Precedes(p, q, turns)
        BY <1>3, <3>1, <3>2, <3>3
      <4> QED
        BY <1>13, <2>3, <2>5, <4>1 DEF Precedes
    <3>4. CASE c = b
      <4>1. i # 1 /\ j # 1
        BY <1>7, <3>1, <3>4
      <4>2. /\ i - 1 \in 1..Len(ChainOf(t, b))
            /\ j - 1 \in 1..Len(ChainOf(t, b))
            /\ ChainOf(u, b)[i] = ChainOf(t, b)[i - 1]
            /\ ChainOf(u, b)[j] = ChainOf(t, b)[j - 1]
        BY <1>8, <3>4, <4>1
      <4>3. i - 1 < j - 1
        BY <1>6
      <4>4. Precedes(p, q, turns)
        BY <3>1, <3>2, <3>4, <4>2, <4>3
      <4> QED
        BY <1>13, <2>3, <2>5, <4>4 DEF Precedes
    <3> QED
      BY <3>3, <3>4
  <2> QED
    BY <1>1, <2>4, <2>5
<1>15. u.num_items = Len(a2)
  BY <1>1 DEF TableInv
<1> QED
  BY <1>1, <1>4, <1>12, <1>13, <1>14, <1>15 DEF TableInv, a2, turns2

(* A table expanded: every entry has gone to the new bucket it hashes to.  *)
LEMMA ExpandedTable ==
    ASSUME NEW t, IsTable(t)
    PROVE  /\ IsTable(Expanded(t))
           /\ Expanded(t).num_buckets = 2 * t.num_buckets
           /\ Expanded(t).num_items = t.num_items
           /\ \A b \in 0..(2 * t.num_buckets - 1) :
                 ChainOf(Expanded(t), b) = Moved(t, b)
<1> DEFINE n == 2 * t.num_buckets
           ideal == (t.num_items + n - 1) \div n
           count(b) == Len(Moved(t, b))
           ineff == IF NonIdeal(t, ideal) > t.num_items \div 2
                    THEN t.ineff_expands + 1 ELSE 0
           off == t.noexpand \/ ineff > 1
           mult(b) == IF count(b) > ideal THEN count(b) \div ideal ELSE 0
           bs == [b \in 0..(n - 1) |->
                    [chain |-> Moved(t, b), count |-> count(b),
                     expand_mult |-> mult(b)]]
           u == [num_buckets |-> n, buckets |-> bs, num_items |-> t.num_items,
                 ineff_expands |-> ineff, noexpand |-> off]
<1>1. Expanded(t) = u
  BY Zenon DEF Expanded
<1> HIDE DEF mult, count, ideal, ineff, off, n
<1>2. \A b \in 0..(n - 1) :
         /\ bs[b].chain = Moved(t, b)
         /\ bs[b] = [chain |-> bs[b].chain, count |-> bs[b].count,
                     expand_mult |-> bs[b].expand_mult]
  OBVIOUS
<1>3. bs = [b \in 0..(n - 1) |-> bs[b]]
  OBVIOUS
<1> HIDE DEF bs
<1>4. /\ u.num_buckets = n /\ u.buckets = bs /\ u.num_items = t.num_items
      /\ u.ineff_expands = ineff /\ u.noexpand = off
  OBVIOUS
<1>5. n \in Nat /\ n >= InitBuckets
  BY UtHashAssumption DEF IsTable, n
<1>6. IsTable(u)
  BY <1>2, <1>3, <1>4, <1>5 DEF IsTable
<1> QED
  BY <1>1, <1>2, <1>4, <1>6 DEF ChainOf, n

(* The expansion keeps every entry in the chain of its bucket, and turns   *)
(* the chains round.                                                       *)
LEMMA ExpandedInv ==
    ASSUME NEW t, NEW a, NEW turns, TableInv(t, a, turns)
    PROVE  TableInv(Expanded(t), a, [i \in 1..Len(turns) |-> 1 - turns[i]])
<1> DEFINE n == t.num_buckets
           u == Expanded(t)
           turns2 == [i \in 1..Len(turns) |-> 1 - turns[i]]
<1>1. /\ IsTable(u) /\ u.num_buckets = 2 * n /\ u.num_items = t.num_items
      /\ \A b \in 0..(2 * n - 1) : ChainOf(u, b) = Moved(t, b)
  BY ExpandedTable DEF TableInv
<1> HIDE DEF u
<1>2. /\ n \in Nat /\ n >= InitBuckets /\ InitBuckets \in Nat \ {0}
      /\ n \in Int /\ n > 0
      /\ a \in Seq(HEntry) /\ \A p \in 1..Len(a) : a[p] \in HEntry
  BY UtHashAssumption DEF TableInv, IsTable
<1>3. /\ Chained(t, a) /\ ChainOrder(t, a, turns)
      /\ turns \in Seq(0..1) /\ Len(turns) = Len(a) /\ Len(a) \in Nat
  BY DEF TableInv
<1>4. ASSUME NEW b \in 0..(2 * n - 1)
      PROVE  /\ b % n \in 0..(n - 1) /\ ChainOf(t, b % n) \in Seq(HEntry)
             /\ Injective(ChainOf(t, b % n))
             /\ ChainOf(u, b) = PutAtHead(ChainOf(t, b % n),
                                  InBucket(ChainOf(t, b % n), b, 2 * n))
  <2>1. b \in Int /\ b % n \in 0..(n - 1)
    BY <1>2, Divided
  <2>2. ChainOf(u, b) = PutAtHead(ChainOf(t, b % n),
                           InBucket(ChainOf(t, b % n), b, 2 * n))
    BY <1>1 DEF Moved, ChainOf
  <2> QED
    BY <1>3, <2>1, <2>2 DEF Chained
<1>5. ASSUME NEW b \in 0..(2 * n - 1)
      PROVE  /\ ChainOf(u, b) \in Seq(HEntry) /\ Injective(ChainOf(u, b))
             /\ \A i \in 1..Len(ChainOf(u, b)) :
                   /\ BucketOf(ChainOf(u, b)[i].key, 2 * n) = b
                   /\ \E p \in 1..Len(a) : a[p] = ChainOf(u, b)[i]
  <2> DEFINE s == ChainOf(t, b % n)
             S == InBucket(s, b, 2 * n)
  <2>1. /\ s \in Seq(HEntry) /\ Injective(s) /\ ChainOf(u, b) = PutAtHead(s, S)
        /\ b % n \in 0..(n - 1)
    BY <1>4
  <2> HIDE DEF S
  <2>2. /\ PutAtHead(s, S) \in Seq(HEntry) /\ Injective(PutAtHead(s, S))
        /\ \A i \in 1..Len(PutAtHead(s, S)) :
              /\ PutAtHead(s, S)[i] \in S
              /\ \E j \in 1..Len(s) : s[j] = PutAtHead(s, S)[i]
    BY <2>1, PutAtHeadSeq
  <2>3. \A x \in S : BucketOf(x.key, 2 * n) = b
    BY DEF InBucket, S
  <2> HIDE DEF s
  <2>4. \A j \in 1..Len(s) : \E p \in 1..Len(a) : a[p] = s[j]
    BY <1>3, <2>1 DEF Chained, s
  <2>5. ASSUME NEW i \in 1..Len(PutAtHead(s, S))
        PROVE  \E p \in 1..Len(a) : a[p] = PutAtHead(s, S)[i]
    <3>1. PICK j \in 1..Len(s) : s[j] = PutAtHead(s, S)[i]
      BY <2>2
    <3> QED
      BY <2>4, <3>1
  <2> QED
    BY <2>1, <2>2, <2>3, <2>5
<1>6. ASSUME NEW p \in 1..Len(a)
      PROVE  \E i \in 1..Len(ChainOf(u, BucketOf(a[p].key, 2 * n))) :
                ChainOf(u, BucketOf(a[p].key, 2 * n))[i] = a[p]
  <2> DEFINE b == BucketOf(a[p].key, 2 * n)
             s == ChainOf(t, b % n)
             S == InBucket(s, b, 2 * n)
  <2>1. a[p] \in HEntry /\ a[p].key \in DOMAIN Hash
    BY <1>2 DEF HEntry
  <2>2. b \in 0..(2 * n - 1) /\ b % n = BucketOf(a[p].key, n)
    BY <1>2, <2>1, BucketRange
  <2>3. PICK j \in 1..Len(s) : s[j] = a[p]
    BY <1>3, <2>2 DEF Chained
  <2>4. a[p] \in S
    BY <2>3 DEF InBucket
  <2> HIDE DEF b
  <2>5. /\ s \in Seq(HEntry) /\ ChainOf(u, b) = PutAtHead(s, S)
    BY <1>4, <2>2
  <2> HIDE DEF s, S
  <2>6. \E i \in 1..Len(PutAtHead(s, S)) : PutAtHead(s, S)[i] = s[j]
    <3>1. \A i \in 1..Len(s) : s[i] \in S =>
             \E l \in 1..Len(PutAtHead(s, S)) : PutAtHead(s, S)[l] = s[i]
      BY <2>5, PutAtHeadSeq
    <3> QED
      BY <2>3, <2>4, <3>1
  <2> QED
    BY <2>3, <2>5, <2>6 DEF b
<1>7. Chained(u, a)
  BY <1>1, <1>5, <1>6 DEF Chained
<1>8. /\ turns2 \in Seq(0..1) /\ Len(turns2) = Len(a)
      /\ \A p \in 1..Len(a) : /\ turns[p] \in 0..1
                              /\ turns2[p] = 1 - turns[p]
  <2>1. \A p \in 1..Len(turns) : turns[p] \in 0..1 /\ 1 - turns[p] \in 0..1
    BY <1>3
  <2>2. turns2 \in [1..Len(turns) -> 0..1]
    BY <2>1
  <2>3. turns2 \in Seq(0..1) /\ Len(turns2) = Len(turns)
    BY <1>3, <2>2, SeqOfFun
  <2> QED
    BY <1>3, <2>1, <2>3
<1> HIDE DEF turns2
<1>9. ChainOrder(u, a, turns2)
  <2> SUFFICES ASSUME NEW b \in 0..(2 * n - 1),
                      NEW i \in 1..Len(ChainOf(u, b)),
                      NEW j \in 1..Len(ChainOf(u, b)),
                      NEW p \in 1..Len(a), NEW q \in 1..Len(a),
                      i < j, a[p] = ChainOf(u, b)[i], a[q] = ChainOf(u, b)[j]
               PROVE  Precedes(p, q, turns2)
    BY <1>1 DEF ChainOrder
  <2> DEFINE s == ChainOf(t, b % n)
             S == InBucket(s, b, 2 * n)
  <2>1. /\ s \in Seq(HEntry) /\ ChainOf(u, b) = PutAtHead(s, S)
        /\ b % n \in 0..(n - 1)
    BY <1>4
  <2> HIDE DEF S
  <2>2. PICK x, y \in 1..Len(s) :
           y < x /\ s[x] = ChainOf(u, b)[i] /\ s[y] = ChainOf(u, b)[j]
    <3> HIDE DEF s
    <3>1. \A k, l \in 1..Len(PutAtHead(s, S)) : k < l =>
             \E x, y \in 1..Len(s) :
                y < x /\ s[x] = PutAtHead(s, S)[k] /\ s[y] = PutAtHead(s, S)[l]
      BY <2>1, PutAtHeadSeq
    <3> QED
      BY <2>1, <3>1
  <2>3. Precedes(q, p, turns)
    BY <1>3, <2>1, <2>2 DEF ChainOrder
  <2>4. p # q
    <3>1. Injective(ChainOf(u, b))
      BY <1>5
    <3> QED
      BY <3>1 DEF Injective
  <2> QED
    BY <1>3, <1>8, <2>3, <2>4 DEF Precedes
<1> QED
  BY <1>1, <1>7, <1>8, <1>9 DEF TableInv, u, turns2

(* An entry taken out of its chain.                                        *)
LEMMA DeletedInv ==
    ASSUME NEW t, NEW a, NEW turns, TableInv(t, a, turns), NEW m \in 1..Len(a),
           NEW u, IsTable(u), u.num_buckets = t.num_buckets,
           u.num_items = t.num_items - 1,
           \A c \in 0..(t.num_buckets - 1) : ChainOf(u, c) =
              IF c = BucketOf(a[m].key, t.num_buckets)
              THEN Unlinked(ChainOf(t, c), a[m]) ELSE ChainOf(t, c)
    PROVE  /\ TableInv(u, Unlinked(a, a[m]), WithoutAt(turns, m))
           /\ Unlinked(a, a[m]) = Ordered!Without(a, m)
<1> DEFINE n == t.num_buckets
           b == BucketOf(a[m].key, n)
           c == ChainOf(t, b)
           a2 == Unlinked(a, a[m])
           turns2 == WithoutAt(turns, m)
<1>1. /\ a \in Seq(HEntry) /\ Len(a) \in Nat /\ Distinct(a) /\ Chained(t, a)
      /\ ChainOrder(t, a, turns) /\ \A p \in 1..Len(a) : a[p] \in HEntry
      /\ turns \in Seq(0..1) /\ Len(turns) = Len(a)
  BY DEF TableInv
<1>2. Injective(a)
  BY <1>1 DEF Injective, Distinct
<1>3. /\ a2 = Ordered!Without(a, m) /\ a2 \in Seq(HEntry)
      /\ Len(a2) = Len(a) - 1
      /\ \A p \in 1..(Len(a) - 1) : a2[p] = IF p < m THEN a[p] ELSE a[p + 1]
  BY <1>1, <1>2, UnlinkedSeq
<1>4. /\ n \in Nat /\ n >= InitBuckets /\ b \in 0..(n - 1) /\ u.num_buckets = n
  BY <1>1, BucketRange DEF TableInv, IsTable, HEntry
<1>5. PICK k \in 1..Len(c) : c[k] = a[m]
  BY <1>1 DEF Chained
<1>6. c \in Seq(HEntry) /\ Injective(c) /\ Len(c) \in Nat
  BY <1>1, <1>4 DEF Chained
<1>7. /\ Unlinked(c, c[k]) \in Seq(HEntry)
      /\ Len(Unlinked(c, c[k])) = Len(c) - 1
      /\ Injective(Unlinked(c, c[k]))
      /\ \A i \in 1..(Len(c) - 1) :
            Unlinked(c, c[k])[i] = IF i < k THEN c[i] ELSE c[i + 1]
  BY <1>6, UnlinkedSeq
<1> DEFINE d == ChainOf(u, b)
<1>8. /\ d = Unlinked(c, c[k])
      /\ \A x \in 0..(n - 1) : x # b => ChainOf(u, x) = ChainOf(t, x)
  BY <1>4, <1>5
<1> HIDE DEF c, d
<1> DEFINE olda(p) == IF p < m THEN p ELSE p + 1
           oldc(i) == IF i < k THEN i ELSE i + 1
<1>9. /\ \A p \in 1..Len(a2) : /\ olda(p) \in 1..Len(a) /\ a2[p] = a[olda(p)]
                               /\ olda(p) # m
      /\ \A p \in 1..Len(a) : p # m => \E q \in 1..Len(a2) : a2[q] = a[p]
  <2>1. \A p \in 1..Len(a2) : /\ olda(p) \in 1..Len(a) /\ a2[p] = a[olda(p)]
                              /\ olda(p) # m
    BY <1>1, <1>3
  <2>2. ASSUME NEW p \in 1..Len(a), p # m
        PROVE  \E q \in 1..Len(a2) : a2[q] = a[p]
    <3> DEFINE q == IF p < m THEN p ELSE p - 1
    <3>1. q \in 1..Len(a2) /\ olda(q) = p
      BY <1>1, <1>3, <2>2
    <3> QED
      BY <2>1, <3>1
  <2> QED
    BY <2>1, <2>2
<1>10. /\ \A i \in 1..Len(d) : /\ oldc(i) \in 1..Len(c) /\ d[i] = c[oldc(i)]
                              /\ oldc(i) # k
       /\ \A i \in 1..Len(c) : i # k => \E j \in 1..Len(d) : d[j] = c[i]
  <2>1. \A i \in 1..Len(d) : /\ oldc(i) \in 1..Len(c) /\ d[i] = c[oldc(i)]
                             /\ oldc(i) # k
    BY <1>6, <1>7, <1>8
  <2>2. ASSUME NEW i \in 1..Len(c), i # k PROVE \E j \in 1..Len(d) : d[j] = c[i]
    <3> DEFINE j == IF i < k THEN i ELSE i - 1
    <3>1. j \in 1..Len(d) /\ oldc(j) = i
      BY <1>6, <1>7, <1>8, <2>2
    <3> QED
      BY <2>1, <3>1
  <2> QED
    BY <2>1, <2>2
<1> HIDE DEF a2, olda, oldc, n, b
<1>11. Distinct(a2)
  <2> SUFFICES ASSUME NEW p \in 1..Len(a2), NEW q \in 1..Len(a2),
                      a2[p].data = a2[q].data
               PROVE  p = q
    BY DEF Distinct
  <2>1. /\ olda(p) \in 1..Len(a) /\ olda(q) \in 1..Len(a)
        /\ a[olda(p)].data = a[olda(q)].data
    BY <1>9
  <2>2. olda(p) = olda(q)
    BY <1>1, <2>1 DEF Distinct
  <2> QED
    BY <1>3, <2>2 DEF olda
<1>12. ASSUME NEW x \in 0..(n - 1)
       PROVE  /\ ChainOf(u, x) \in Seq(HEntry) /\ Injective(ChainOf(u, x))
              /\ \A i \in 1..Len(ChainOf(u, x)) :
                    /\ BucketOf(ChainOf(u, x)[i].key, n) = x
                    /\ \E p \in 1..Len(a2) : a2[p] = ChainOf(u, x)[i]
  <2>1. /\ ChainOf(t, x) \in Seq(HEntry) /\ Injective(ChainOf(t, x))
        /\ \A i \in 1..Len(ChainOf(t, x)) :
              /\ BucketOf(ChainOf(t, x)[i].key, n) = x
              /\ \E p \in 1..Len(a) : a[p] = ChainOf(t, x)[i]
    BY <1>1 DEF Chained, n
  <2>2. CASE x # b
    <3>1. ASSUME NEW i \in 1..Len(ChainOf(t, x))
          PROVE  \E p \in 1..Len(a2) : a2[p] = ChainOf(t, x)[i]
      <4>1. PICK p \in 1..Len(a) : a[p] = ChainOf(t, x)[i]
        BY <2>1
      <4>2. p # m
        BY <2>1, <2>2, <4>1 DEF b
      <4> QED
        BY <1>9, <4>1, <4>2
    <3> QED
      BY <1>8, <2>1, <2>2, <3>1
  <2>3. CASE x = b
    <3>1. ASSUME NEW i \in 1..Len(d)
          PROVE  /\ BucketOf(d[i].key, n) = b
                 /\ \E p \in 1..Len(a2) : a2[p] = d[i]
      <4>1. oldc(i) \in 1..Len(c) /\ d[i] = c[oldc(i)] /\ oldc(i) # k
        BY <1>10
      <4>2. d[i] # a[m]
        BY <1>5, <1>6, <4>1 DEF Injective
      <4>3. BucketOf(d[i].key, n) = b /\ \E p \in 1..Len(a) : a[p] = d[i]
        BY <2>1, <2>3, <4>1 DEF c
      <4> QED
        BY <1>9, <4>2, <4>3
    <3> QED
      BY <1>7, <1>8, <2>3, <3>1 DEF d
  <2> QED
    BY <2>2, <2>3
<1>13. ASSUME NEW p \in 1..Len(a2)
       PROVE  \E i \in 1..Len(ChainOf(u, BucketOf(a2[p].key, n))) :
                 ChainOf(u, BucketOf(a2[p].key, n))[i] = a2[p]
  <2> DEFINE q == olda(p)
             x == BucketOf(a[q].key, n)
  <2>1. q \in 1..Len(a) /\ a2[p] = a[q] /\ q # m
    BY <1>9
  <2> HIDE DEF q
  <2>2. x \in 0..(n - 1)
    BY <1>1, <1>4, <2>1, BucketRange DEF HEntry
  <2>3. PICK i \in 1..Len(ChainOf(t, x)) : ChainOf(t, x)[i] = a[q]
    BY <1>1, <2>1 DEF Chained, n
  <2> HIDE DEF x
  <2>4. CASE x # b
    BY <1>8, <2>1, <2>2, <2>3, <2>4 DEF x
  <2>5. CASE x = b
    <3>1. i \in 1..Len(c) /\ c[i] = a[q]
      BY <2>3, <2>5 DEF c
    <3>2. i # k
      BY <1>2, <1>5, <2>1, <3>1 DEF Injective
    <3>3. \E j \in 1..Len(d) : d[j] = c[i]
      BY <1>10, <3>1, <3>2
    <3> QED
      BY <2>1, <2>5, <3>1, <3>3 DEF x, d
  <2> QED
    BY <2>4, <2>5
<1>14. Chained(u, a2)
  BY <1>4, <1>12, <1>13 DEF Chained
<1>15. /\ turns2 \in Seq(0..1) /\ Len(turns2) = Len(a2)
       /\ \A p \in 1..Len(a2) : turns2[p] = turns[olda(p)]
  <2>1. turns2 = [p \in 1..(Len(a) - 1) |->
                     IF p < m THEN turns[p] ELSE turns[p + 1]]
    BY <1>1 DEF WithoutAt
  <2>2. Len(a) - 1 \in Nat /\ turns2 \in [1..(Len(a) - 1) -> 0..1]
    BY <1>1, <2>1
  <2>3. turns2 \in Seq(0..1) /\ Len(turns2) = Len(a) - 1
    BY <2>2, SeqOfFun
  <2> QED
    BY <1>3, <2>1, <2>3 DEF olda
<1> HIDE DEF turns2
<1>16. ChainOrder(u, a2, turns2)
  <2> SUFFICES ASSUME NEW x \in 0..(n - 1),
                      NEW i \in 1..Len(ChainOf(u, x)),
                      NEW j \in 1..Len(ChainOf(u, x)),
                      NEW p \in 1..Len(a2), NEW q \in 1..Len(a2),
                      i < j, a2[p] = ChainOf(u, x)[i], a2[q] = ChainOf(u, x)[j]
               PROVE  Precedes(p, q, turns2)
    BY <1>4 DEF ChainOrder
  <2>1. /\ olda(p) \in 1..Len(a) /\ a2[p] = a[olda(p)]
        /\ olda(q) \in 1..Len(a) /\ a2[q] = a[olda(q)]
    BY <1>9
  <2>2. (olda(q) < olda(p)) = (q < p)
    BY <1>1 DEF olda
  <2>3. \A e, f \in 1..Len(ChainOf(t, x)), y, z \in 1..Len(a) :
           e < f /\ a[y] = ChainOf(t, x)[e] /\ a[z] = ChainOf(t, x)[f]
                => Precedes(y, z, turns)
    BY <1>1 DEF ChainOrder, n
  <2>4. Precedes(olda(p), olda(q), turns)
    <3>1. CASE x # b
      <4>1. ChainOf(u, x) = ChainOf(t, x)
        BY <1>8, <3>1
      <4> QED
        BY <2>1, <2>3, <4>1
    <3>2. CASE x = b
      <4>1. /\ i \in 1..Len(d) /\ j \in 1..Len(d)
            /\ ChainOf(u, x) = d /\ ChainOf(t, x) = c
        BY <3>2 DEF d, c
      <4>2. /\ oldc(i) \in 1..Len(c) /\ d[i] = c[oldc(i)]
            /\ oldc(j) \in 1..Len(c) /\ d[j] = c[oldc(j)]
        BY <1>10, <4>1
      <4>3. oldc(i) < oldc(j)
        BY <1>6, <4>1 DEF oldc
      <4> QED
        BY <2>1, <2>3, <4>1, <4>2, <4>3
    <3> QED
      BY <3>1, <3>2
  <2> QED
    BY <1>15, <2>2, <2>4 DEF Precedes
<1>17. IsTable(u) /\ u.num_items = Len(a2)
  BY <1>3 DEF TableInv
<1> QED
  BY <1>3, <1>11, <1>14, <1>15, <1>16, <1>17 DEF TableInv, a2, turns2

(* What HASH_FIND finds: an entry with the key if there is one, of several *)
(* the one that comes before the others.                                   *)
FoundIn(t, a, turns, k) ==
    \/ HashFind(t, k) = <<>> /\ \A p \in 1..Len(a) : a[p].key # k
    \/ \E p \in 1..Len(a) :
          /\ HashFind(t, k) = <<a[p]>> /\ a[p].key = k
          /\ FoundOf({q \in 1..Len(a) : a[q].key = k}, p, turns)
LEMMA FoundInTable ==
    ASSUME NEW t, NEW a, NEW turns, TableInv(t, a, turns), NEW k \in DOMAIN Hash
    PROVE  FoundIn(t, a, turns, k)
<1> DEFINE n == t.num_buckets
           b == BucketOf(k, n)
           c == ChainOf(t, b)
           hits == {i \in 1..Len(c) : c[i].key = k}
           first == CHOOSE i \in hits : \A j \in hits : i <= j
<1>1. /\ a \in Seq(HEntry) /\ Chained(t, a) /\ ChainOrder(t, a, turns)
      /\ n \in Nat /\ n >= InitBuckets /\ b \in 0..(n - 1)
  BY BucketRange DEF TableInv, IsTable
<1>2. HashFind(t, k) = IF hits = {} THEN <<>> ELSE <<c[first]>>
  BY Zenon DEF HashFind, FindInBucket, ChainOf
<1> HIDE DEF hits, first
<1>3. /\ c \in Seq(HEntry) /\ Len(c) \in Nat
      /\ \A i \in 1..Len(c) : \E p \in 1..Len(a) : a[p] = c[i]
  <2>1. \A x \in 0..(n - 1) :
           /\ ChainOf(t, x) \in Seq(HEntry)
           /\ \A i \in 1..Len(ChainOf(t, x)) :
                 \E p \in 1..Len(a) : a[p] = ChainOf(t, x)[i]
    BY <1>1 DEF Chained
  <2> HIDE DEF b
  <2>2. /\ c \in Seq(HEntry)
        /\ \A i \in 1..Len(c) : \E p \in 1..Len(a) : a[p] = c[i]
    BY <1>1, <2>1
  <2> HIDE DEF c
  <2>3. Len(c) \in Nat
    BY <2>2, LenProperties
  <2> QED
    BY <2>2, <2>3
<1>4. ASSUME NEW p \in 1..Len(a), a[p].key = k
      PROVE  \E i \in hits : c[i] = a[p]
  BY <1>1, <1>4 DEF Chained, hits
<1>5. CASE hits = {}
  BY <1>2, <1>4, <1>5 DEF FoundIn
<1>6. CASE hits # {}
  <2>1. \E i \in hits : \A j \in hits : i <= j
    <3>1. hits \in SUBSET Nat
      BY DEF hits
    <3> QED
      BY <1>6, <3>1, Least
  <2>2. first \in hits /\ \A j \in hits : first <= j
    BY <2>1 DEF first
  <2>3. PICK p \in 1..Len(a) : a[p] = c[first]
    BY <1>3, <2>2 DEF hits
  <2>4. HashFind(t, k) = <<a[p]>> /\ a[p].key = k
    BY <1>2, <1>6, <2>2, <2>3 DEF hits
  <2>5. ASSUME NEW q \in 1..Len(a), a[q].key = k, q # p
        PROVE  Precedes(p, q, turns)
    <3>1. PICK j \in hits : c[j] = a[q]
      BY <1>4, <2>5
    <3>2. j # first
      <4>1. Distinct(a)
        BY DEF TableInv
      <4> QED
        BY <2>3, <2>5, <3>1, <4>1 DEF Distinct
    <3>3. first < j
      BY <1>3, <2>2, <3>1, <3>2 DEF hits
    <3> QED
      BY <1>1, <2>2, <2>3, <3>1, <3>3 DEF ChainOrder, hits
  <2> QED
    BY <2>4, <2>5 DEF FoundOf, FoundIn
<1> QED
  BY <1>5, <1>6

(* HASH_ADD_KEYPTR keeps the invariant of any table.                       *)
LEMMA TableAddedInv ==
    ASSUME NEW t, NEW a, NEW turns, TableInv(t, a, turns), NEW e \in HEntry,
           \A p \in 1..Len(a) : a[p].data # e.data
    PROVE  TableInv(TableAdded(t, e), Append(a, e),
                    Turned(turns, Grown(t, TableAdded(t, e))))
<1> DEFINE b == BucketOf(e.key, t.num_buckets)
           u0 == [t EXCEPT !.num_items = @ + 1]
           added == [u0 EXCEPT !.buckets[b].count = @ + 1,
                               !.buckets[b].chain = <<e>> \o @]
           turns2 == Append(turns, 0)
           u == TableAdded(t, e)
<1>1. /\ IsTable(t) /\ e.key \in DOMAIN Hash
      /\ b \in 0..(t.num_buckets - 1) /\ t.num_buckets \in Nat \ {0}
  BY BucketRange DEF TableInv, IsTable, HEntry
<1>2. u = AddToBucket(u0, e)
  BY DEF TableAdded
<1>3. u0.num_buckets = t.num_buckets /\ u0.buckets = t.buckets
  BY <1>1 DEF IsTable
<1>4. u = Expanded(added) \/ u = added
  BY <1>2, <1>3, Zenon DEF AddToBucket
<1> DEFINE m == t.num_items + 1
           k == t.buckets[b].count + 1
           front == <<e>> \o ChainOf(t, b)
<1>5. added = Changed(t, m, b, front, k)
  BY <1>1, <1>3 DEF IsTable, ChainOf, Changed
<1> HIDE DEF added, m, k, front, b, u
<1>6. /\ IsTable(added) /\ added.num_buckets = t.num_buckets
      /\ added.num_items = t.num_items + 1
      /\ \A c \in 0..(t.num_buckets - 1) : ChainOf(added, c) =
            IF c = b THEN <<e>> \o ChainOf(t, b) ELSE ChainOf(t, c)
  <2>1. /\ IsTable(added) /\ added.num_buckets = t.num_buckets
        /\ added.num_items = m
        /\ \A c \in 0..(t.num_buckets - 1) :
              ChainOf(added, c) = IF c = b THEN front ELSE ChainOf(t, c)
    BY <1>1, <1>5, BucketChanged
  <2> QED
    BY <2>1 DEF m, front
<1>7. TableInv(added, Append(a, e), turns2)
  BY <1>1, <1>6, AddedInv DEF b
<1>8. CASE u = added
  <2>1. Turned(turns, Grown(t, u)) = turns2
    BY <1>6, <1>8 DEF Turned, Grown
  <2> QED
    BY <1>7, <1>8, <2>1 DEF u
<1>9. CASE u = Expanded(added)
  <2>1. u.num_buckets = 2 * t.num_buckets
    BY <1>6, <1>9, ExpandedTable
  <2>2. Grown(t, u)
    BY <1>1, <2>1 DEF Grown
  <2>3. Turned(turns, Grown(t, u)) = [i \in 1..Len(turns2) |-> 1 - turns2[i]]
    BY <2>2 DEF Turned
  <2>4. TableInv(u, Append(a, e), [i \in 1..Len(turns2) |-> 1 - turns2[i]])
    <3> HIDE DEF turns2
    <3> QED
      BY <1>7, <1>9, ExpandedInv
  <2> QED
    BY <2>3, <2>4 DEF u
<1> QED
  BY <1>4, <1>8, <1>9

(* HASH_ADD_KEYPTR, HASH_FIND and HASH_DELETE in a hash_table.             *)
LEMMA FoundFacts ==
    ASSUME HashInv, NEW k \in HKey
    PROVE  \/ Found(k) = <<>> /\ \A p \in 1..Len(app) : app[p].key # k
           \/ \E p \in 1..Len(app) :
                 /\ Found(k) = <<app[p]>> /\ app[p].key = k
                 /\ FoundOf({q \in 1..Len(app) : app[q].key = k}, p, turned)
<1>1. CASE app = <<>>
  BY <1>1 DEF Found
<1>2. CASE app # <<>>
  <2>1. k \in DOMAIN Hash /\ TableInv(tbl, app, turned)
    BY HashAssumption DEF HashInv
  <2>2. Found(k) = HashFind(tbl, k)
    BY <1>2 DEF Found
  <2>3. FoundIn(tbl, app, turned, k)
    BY <2>1, FoundInTable
  <2>4. CASE HashFind(tbl, k) = <<>> /\ \A p \in 1..Len(app) : app[p].key # k
    BY <2>2, <2>4
  <2>5. CASE \E p \in 1..Len(app) :
                /\ HashFind(tbl, k) = <<app[p]>> /\ app[p].key = k
                /\ FoundOf({q \in 1..Len(app) : app[q].key = k}, p, turned)
    BY <2>2, <2>5
  <2> QED
    BY <2>3, <2>4, <2>5, Zenon DEF FoundIn
<1> QED
  BY <1>1, <1>2, Zenon

LEMMA AddStep ==
    ASSUME HashInv, NEW k \in HKey, NEW d \in Datum, d \notin Stored,
           HashAdd(Entry(k, d))
    PROVE  HashInv' /\ app' = Append(app, Entry(k, d))
<1> DEFINE e == Entry(k, d)
<1>1. /\ e \in HEntry /\ e \in [key : HKey, data : Datum] /\ e.data = d
  BY HashAssumption DEF Entry, HEntry
<1>2. TableInv(tbl, app, turned) /\ app \in Seq([key : HKey, data : Datum])
  BY DEF HashInv
<1>3. (IF app = <<>> THEN NewTable ELSE tbl) = tbl
  BY DEF HashInv
<1>4. /\ app' = Append(app, e) /\ tbl' = TableAdded(tbl, e)
      /\ turned' = Turned(turned, Grown(tbl, tbl'))
  BY <1>3 DEF HashAdd
<1> HIDE DEF e
<1>5. \A p \in 1..Len(app) : app[p].data # e.data
  BY <1>1 DEF Stored
<1>6. TableInv(tbl', app', turned')
  BY <1>1, <1>2, <1>4, <1>5, TableAddedInv
<1>7. app' \in Seq([key : HKey, data : Datum]) /\ app' # <<>>
  BY <1>1, <1>2, <1>4
<1> QED
  BY <1>4, <1>6, <1>7 DEF HashInv, e

LEMMA DeleteStep ==
    ASSUME HashInv, NEW m \in 1..Len(app), HashDelete(app[m])
    PROVE  HashInv' /\ app' = Ordered!Without(app, m)
<1> DEFINE e == app[m]
           b == BucketOf(e.key, tbl.num_buckets)
           c == Unlinked(ChainOf(tbl, b), e)
           i == tbl.num_items - 1
           k == tbl.buckets[b].count - 1
           v == Changed(tbl, i, b, c, k)
<1>1. /\ TableInv(tbl, app, turned) /\ IsTable(tbl) /\ app \in Seq(HEntry)
      /\ app \in Seq([key : HKey, data : Datum]) /\ Injective(app)
      /\ Len(app) \in Nat /\ e \in HEntry /\ e.key \in DOMAIN Hash
      /\ b \in 0..(tbl.num_buckets - 1)
  <2>1. /\ TableInv(tbl, app, turned) /\ IsTable(tbl) /\ app \in Seq(HEntry)
        /\ app \in Seq([key : HKey, data : Datum])
    BY DEF HashInv, TableInv
  <2>2. Len(app) \in Nat /\ e \in HEntry
    BY <2>1
  <2>3. e.key \in DOMAIN Hash
    BY <2>2 DEF HEntry
  <2>4. Injective(app)
    BY DEF HashInv, TableInv, Distinct, Injective
  <2> QED
    BY <2>1, <2>2, <2>3, <2>4, BucketRange DEF IsTable
<1>2. /\ app' = Unlinked(app, e)
      /\ tbl' = IF Len(app) = 1 THEN NewTable ELSE v
      /\ turned' = WithoutAt(turned, m)
  <2>1. (CHOOSE x \in 1..Len(app) : app[x] = e) = m
    BY <1>1 DEF Injective
  <2> QED
    BY <2>1 DEF HashDelete, TableDeleted, DelInBucket, ChainOf, Changed
<1> HIDE DEF c, i, k, b
<1>3. /\ IsTable(v) /\ v.num_buckets = tbl.num_buckets
      /\ v.num_items = tbl.num_items - 1
      /\ \A x \in 0..(tbl.num_buckets - 1) : ChainOf(v, x) =
            IF x = b THEN c ELSE ChainOf(tbl, x)
  <2>1. /\ IsTable(v) /\ v.num_buckets = tbl.num_buckets /\ v.num_items = i
        /\ \A x \in 0..(tbl.num_buckets - 1) :
              ChainOf(v, x) = IF x = b THEN c ELSE ChainOf(tbl, x)
    BY <1>1, BucketChanged
  <2> QED
    BY <2>1 DEF i
<1> HIDE DEF v
<1>4. /\ TableInv(v, Unlinked(app, e), WithoutAt(turned, m))
      /\ Unlinked(app, e) = Ordered!Without(app, m)
      /\ Unlinked(app, e) \in Seq([key : HKey, data : Datum])
  BY <1>1, <1>3, UnlinkedSeq, DeletedInv DEF c, b
<1>5. CASE Len(app) = 1
  <2>1. app' = <<>>
    BY <1>2, <1>4, <1>5 DEF Ordered!Without
  <2>2. turned' = <<>>
    <3>1. Len(turned) = 1
      BY <1>1, <1>5 DEF TableInv
    <3> QED
      BY <1>2, <3>1 DEF WithoutAt
  <2>3. app' \in Seq([key : HKey, data : Datum])
    BY <1>2, <1>4
  <2>4. tbl' = NewTable
    BY <1>2, <1>5
  <2>5. TableInv(tbl', app', turned')
    BY <2>1, <2>2, <2>4, NewTableInv
  <2>6. HashInv'
    BY <2>3, <2>4, <2>5 DEF HashInv
  <2> QED
    BY <1>2, <1>4, <2>6
<1>6. CASE Len(app) # 1
  <2>1. app' # <<>>
    <3>1. Len(app') = Len(app) - 1
      BY <1>1, <1>2, UnlinkedSeq
    <3> QED
      BY <1>1, <1>6, <3>1
  <2> QED
    BY <1>2, <1>4, <1>6, <2>1 DEF HashInv
<1> QED
  BY <1>4, <1>2, <1>5, <1>6

(* ht_to_list has the data in the opposite order.                          *)
LEMMA ToListReverses ==
    ASSUME HashInv
    PROVE  PutAtHead(Ordered!DataOf(app), Datum) =
              Ordered!DataOf(Ordered!Reversed(app))
<1> DEFINE s == Ordered!DataOf(app)
           h == PutAtHead(s, Datum)
           g == Ordered!DataOf(Ordered!Reversed(app))
<1> DEFINE Pair == [key : HKey, data : Datum]
<1>1. /\ app \in Seq(Pair) /\ Len(app) \in Nat
      /\ \A i \in 1..Len(app) : app[i] \in Pair /\ app[i].data \in Datum
  <2>1. app \in Seq(Pair)
    BY DEF HashInv
  <2> HIDE DEF Pair
  <2>2. Len(app) \in Nat /\ \A i \in 1..Len(app) : app[i] \in Pair
    BY <2>1
  <2> QED
    BY <2>1, <2>2 DEF Pair
<1>2. s = [i \in 1..Len(app) |-> app[i].data] /\ s \in [1..Len(app) -> Datum]
  <2> QED
    BY <1>1 DEF Ordered!DataOf
<1> HIDE DEF s
<1>3. /\ s \in Seq(Datum) /\ Len(s) = Len(app)
      /\ \A i \in 1..Len(app) : s[i] = app[i].data /\ s[i] \in Datum
  BY <1>1, <1>2, SeqOfFun
<1>4. /\ h \in Seq(Datum) /\ Len(h) = Len(app)
      /\ \A i \in 1..Len(app) : h[i] = s[Len(app) + 1 - i]
  <2>1. /\ PutAtHead(s, Datum) \in Seq(Datum)
        /\ (\A i \in 1..Len(s) : s[i] \in Datum) =>
              /\ Len(PutAtHead(s, Datum)) = Len(s)
              /\ \A i \in 1..Len(s) : PutAtHead(s, Datum)[i] = s[Len(s) + 1 - i]
    <3>1. s \in Seq(Datum)
      BY <1>3
    <3> QED
      BY <3>1, PutAtHeadSeq
  <2> QED
    BY <1>3, <2>1
<1>5. /\ Ordered!Reversed(app) = [i \in 1..Len(app) |-> app[Len(app) + 1 - i]]
      /\ \A i \in 1..Len(app) : Len(app) + 1 - i \in 1..Len(app)
  BY <1>1 DEF Ordered!Reversed
<1>6. /\ Ordered!Reversed(app) \in [1..Len(app) -> Pair]
      /\ \A i \in 1..Len(app) :
            /\ Ordered!Reversed(app)[i] = app[Len(app) + 1 - i]
            /\ Ordered!Reversed(app)[i].data \in Datum
  <2> HIDE DEF Pair
  <2> QED
    BY <1>1, <1>5
<1>7. Len(Ordered!Reversed(app)) = Len(app)
  BY <1>1, <1>6, SeqOfFun
<1>8. g = [i \in 1..Len(app) |-> Ordered!Reversed(app)[i].data]
  BY <1>7 DEF Ordered!DataOf
<1>9. g \in [1..Len(app) -> Datum]
  BY <1>6, <1>8
<1> HIDE DEF g, h
<1>10. g \in Seq(Datum) /\ Len(g) = Len(app)
  BY <1>1, <1>9, SeqOfFun
<1>11. \A i \in 1..Len(app) : g[i] = h[i]
  BY <1>3, <1>4, <1>5, <1>6, <1>8
<1>12. g = h
  BY <1>4, <1>10, <1>11, SeqEqual
<1> QED
  BY <1>12 DEF g, h, s

(* Every call keeps the invariant and is the call of the plain table.      *)
LEMMA HashStep ==
    ASSUME HashInv, HashNext
    PROVE  HashInv' /\ Ordered!TNext
<1> USE DEF Ordered!TNext, Ordered!Answer, Answer, Ordered!Failed, Failed
<1>1. UNCHANGED entries => HashInv'
  BY DEF HashInv, entries
<1>2. ASSUME NEW k \in HKey
      PROVE  (Found(k) = <<>>) = ~Ordered!HasKey(k)
  <2>1. \/ Found(k) = <<>> /\ \A p \in 1..Len(app) : app[p].key # k
        \/ \E p \in 1..Len(app) : Found(k) = <<app[p]>> /\ app[p].key = k
    BY FoundFacts, Zenon
  <2> QED
    BY <2>1 DEF Ordered!HasKey
<1>3. ASSUME NEW k \in HKey, NEW d \in Datum, ht_add_entry(k, d)
      PROVE  HashInv' /\ Ordered!TAdd(k, d)
  <2>1. HashInv' /\ app' = Append(app, Entry(k, d))
    BY <1>3, AddStep DEF ht_add_entry
  <2> QED
    BY <1>3, <2>1 DEF ht_add_entry, Entry, Ordered!TAdd
<1>4. ASSUME NEW k \in HKey, NEW d \in Datum, ht_add_unique_entry(k, d)
      PROVE  HashInv' /\ Ordered!TAddUnique(k, d)
  <2>1. CASE Found(k) = <<>>
    <3>1. ht_add_entry(k, d)
      BY <1>4, <2>1 DEF ht_add_unique_entry, ht_add_entry
    <3> QED
      BY <1>2, <1>3, <2>1, <3>1 DEF Ordered!TAddUnique
  <2>2. CASE Found(k) # <<>>
    <3>1. hret' = Failed(k) /\ UNCHANGED entries
      BY <1>4, <2>2 DEF ht_add_unique_entry
    <3> QED
      BY <1>1, <1>2, <2>2, <3>1 DEF Ordered!TAddUnique, entries
  <2> QED
    BY <2>1, <2>2
<1>5. ASSUME NEW k \in HKey, ht_remove_entry(k)
      PROVE  HashInv' /\ Ordered!TRemove(k)
  <2>1. CASE Found(k) = <<>>
    <3>1. hret' = Failed(k) /\ UNCHANGED entries
      BY <1>5, <2>1 DEF ht_remove_entry
    <3> QED
      BY <1>1, <1>2, <2>1, <3>1 DEF Ordered!TRemove, entries
  <2>2. CASE Found(k) # <<>>
    <3>1. PICK m \in 1..Len(app) : Found(k) = <<app[m]>> /\ app[m].key = k
      BY <2>2, FoundFacts
    <3>2. HashDelete(app[m]) /\ hret' = Answer(k, 0, <<>>)
      BY <1>5, <2>2, <3>1 DEF ht_remove_entry
    <3>3. HashInv' /\ app' = Ordered!Without(app, m)
      BY <3>2, DeleteStep
    <3> QED
      BY <3>1, <3>2, <3>3 DEF Ordered!TRemove
  <2> QED
    BY <2>1, <2>2
<1>6. ASSUME NEW k \in HKey, ht_get_entry(k)
      PROVE  HashInv' /\ Ordered!TGet(k)
  <2>1. UNCHANGED entries /\ hret' = IF Found(k) = <<>> THEN Failed(k)
                                         ELSE Answer(k, 0, <<Found(k)[1].data>>)
    BY <1>6 DEF ht_get_entry
  <2>2. CASE Found(k) = <<>>
    BY <1>1, <1>2, <2>1, <2>2 DEF Ordered!TGet, entries
  <2>3. CASE Found(k) # <<>>
    <3>1. PICK m \in 1..Len(app) : Found(k) = <<app[m]>> /\ app[m].key = k
      BY <2>3, FoundFacts
    <3>2. hret' = Answer(k, 0, <<app[m].data>>)
      BY <2>1, <2>3, <3>1
    <3> QED
      BY <1>1, <2>1, <3>1, <3>2 DEF Ordered!TGet, entries
  <2> QED
    BY <2>2, <2>3
<1>7. ASSUME NEW k \in HKey, ht_has_entry(k)
      PROVE  HashInv' /\ Ordered!THas(k)
  BY <1>1, <1>2, <1>7 DEF ht_has_entry, Ordered!THas, entries
<1>8. ASSUME ht_entry_count
      PROVE  HashInv' /\ Ordered!TCount
  <2>1. HashCount = Len(app)
    BY DEF HashCount, HashInv, TableInv
  <2> QED
    BY <1>1, <1>8, <2>1 DEF ht_entry_count, Ordered!TCount, entries
<1>9. ASSUME ht_for_each
      PROVE  HashInv' /\ Ordered!TForEach
  BY <1>1, <1>9 DEF ht_for_each, Ordered!TForEach, entries
<1>10. ASSUME ht_to_list
       PROVE  HashInv' /\ Ordered!TToList
  BY <1>1, <1>10, ToListReverses DEF ht_to_list, Ordered!TToList, entries
<1>11. ASSUME ht_free
       PROVE  HashInv' /\ Ordered!TFree
  BY <1>11, NewTableInv DEF ht_free, HashInv, Ordered!TFree
<1>12. CASE \E k \in HKey :
              \/ ht_remove_entry(k) \/ ht_get_entry(k) \/ ht_has_entry(k)
              \/ \E d \in Datum :
                    ht_add_entry(k, d) \/ ht_add_unique_entry(k, d)
  BY <1>3, <1>4, <1>5, <1>6, <1>7, <1>12
<1> QED
  BY <1>8, <1>9, <1>10, <1>11, <1>12 DEF HashNext

(* A new table is the empty one.                                           *)
LEMMA HashStart == HashInit => HashInv /\ Ordered!TInit
  BY NewTableInv DEF HashInit, HashInv, Ordered!TInit, Ordered!Answer, Answer

(* The invariant is inductive.                                             *)
LEMMA HashInductive == HashInv /\ [HashNext]_hashVars => HashInv'
  BY HashStep DEF hashVars, HashInv

(* uthash keeps every entry in the chain of its bucket and nowhere else,   *)
(* through additions, removals and expansions.                             *)
THEOREM HashInvariant == HashSpec => []HashInv
  BY HashStart, HashInductive, PTL DEF HashSpec

(* ht_get_entry and ht_remove_entry find the entry that was added last     *)
(* with the key, but for the entries the expansions have turned round.     *)
THEOREM FoundByTurnsHolds == HashSpec => []FoundByTurns
<1>1. HashInv => FoundByTurns
  <2> SUFFICES ASSUME HashInv, NEW k \in HKey, Found(k) # <<>>
               PROVE  \E i \in 1..Len(app) :
                         /\ app[i] = Found(k)[1]
                         /\ FoundOf({j \in 1..Len(app) : app[j].key = k}, i,
                                    turned)
    BY DEF FoundByTurns
  <2>1. PICK p \in 1..Len(app) :
           /\ Found(k) = <<app[p]>>
           /\ FoundOf({q \in 1..Len(app) : app[q].key = k}, p, turned)
    BY FoundFacts, Zenon
  <2>2. app[p] = Found(k)[1]
    BY <2>1
  <2> QED
    BY <2>1, <2>2, Zenon
<1> QED
  BY <1>1, HashInvariant, PTL

(* The hash table, buckets and all, implements a plain ordered table.      *)
THEOREM HashImplementsTable == HashSpec => ImplementsTable
<1>1. HashInv /\ [HashNext]_hashVars => [Ordered!TNext]_<<app, hret>>
  BY HashStep DEF hashVars
<1> QED
  BY <1>1, HashStart, HashInductive, PTL
     DEF HashSpec, ImplementsTable, Ordered!TSpec
-----------------------------------------------------------------------------
(* Induction up to a number, over the set of the numbers it holds for.     *)
LEMMA UpTo ==
    ASSUME NEW n \in Nat, NEW S, 0 \in S,
           \A i \in 1..n : i - 1 \in S => i \in S
    PROVE  \A i \in 0..n : i \in S
<1> DEFINE Bad == {i \in 0..n : i \notin S}
<1> SUFFICES ASSUME Bad # {} PROVE FALSE
  OBVIOUS
<1>1. PICK m \in Bad : \A k \in Bad : m <= k
  <2>1. Bad \in SUBSET Nat
    OBVIOUS
  <2> QED
    BY <2>1, Least
<1>2. m \in 1..n /\ m - 1 \in 0..n /\ m - 1 < m
  OBVIOUS
<1>3. m - 1 \notin Bad
  <2> HIDE DEF Bad
  <2> QED
    BY <1>1, <1>2
<1> QED
  BY <1>2, <1>3

(* A loop that takes a value of T through n steps has its values.          *)
Loops(n, T, x, step) ==
    \E f \in [0..n -> T] :
        f[0] = x /\ \A i \in 1..n : f[i] = step[i][f[i - 1]]
LEMMA LoopExists ==
    ASSUME NEW n \in Nat, NEW T, NEW x \in T, NEW step \in [1..n -> [T -> T]]
    PROVE  Loops(n, T, x, step)
<1> DEFINE Runs(f, m) == f[0] = x /\ \A i \in 1..m : f[i] = step[i][f[i - 1]]
           S == {m \in 0..n : \E f \in [0..m -> T] : Runs(f, m)}
<1>1. 0 \in S
  <2> DEFINE f == [i \in 0..0 |-> x]
  <2>1. f \in [0..0 -> T] /\ Runs(f, 0)
    OBVIOUS
  <2> HIDE DEF Runs, f
  <2> QED
    BY <2>1
<1>2. ASSUME NEW m \in 1..n, m - 1 \in S PROVE m \in S
  <2>1. PICK f \in [0..(m - 1) -> T] : Runs(f, m - 1)
    BY <1>2
  <2> DEFINE y == step[m][f[m - 1]]
             g == [i \in 0..m |-> IF i = m THEN y ELSE f[i]]
  <2>2. y \in T
    OBVIOUS
  <2> HIDE DEF y
  <2>3. g \in [0..m -> T]
    BY <2>2
  <2>4. ASSUME NEW i \in 1..m PROVE g[i] = step[i][g[i - 1]]
    <3>1. CASE i = m
      <4>1. g[i - 1] = f[m - 1] /\ g[i] = y
        BY <3>1
      <4> QED
        BY <3>1, <4>1 DEF y
    <3>2. CASE i # m
      <4>1. i \in 1..(m - 1) /\ g[i] = f[i] /\ g[i - 1] = f[i - 1]
        BY <3>2
      <4> HIDE DEF g
      <4> QED
        BY <2>1, <4>1
    <3> QED
      BY <3>1, <3>2
  <2>5. g[0] = x
    BY <2>1
  <2> QED
    <3> HIDE DEF g
    <3>1. Runs(g, m)
      BY <2>4, <2>5
    <3>2. m \in 0..n
      OBVIOUS
    <3> HIDE DEF Runs
    <3> QED
      BY <2>3, <3>1, <3>2
<1>3. n \in 0..n
  OBVIOUS
<1>4. \A i \in 0..n : i \in S
  <2> HIDE DEF S
  <2> QED
    BY <1>1, <1>2, UpTo
<1> QED
  BY <1>3, <1>4 DEF Loops

(* The files of a list, each of them in it once.                           *)
FileList == {l \in Seq(LookFile) : Injective(l)}

(* PROCESS_LIST keeps the files that pass.                                 *)
LEMMA HeadFiles ==
    ASSUME NEW l \in FileList, NEW S
    PROVE  /\ PutAtHead(l, S) \in FileList
           /\ Files(PutAtHead(l, S)) = Files(l) \cap S
<1>1. l \in Seq(LookFile) /\ Injective(l)
  BY DEF FileList
<1> DEFINE m == PutAtHead(l, S)
<1>2. /\ m \in Seq(LookFile) /\ Injective(m)
      /\ \A i \in 1..Len(m) : m[i] \in S /\ \E j \in 1..Len(l) : l[j] = m[i]
      /\ \A j \in 1..Len(l) : l[j] \in S => \E i \in 1..Len(m) : m[i] = l[j]
  BY <1>1, PutAtHeadSeq
<1> HIDE DEF m
<1>3. Files(m) = Files(l) \cap S
  <2>1. \A f \in Files(m) : f \in Files(l) \cap S
    BY <1>2 DEF Files
  <2>2. \A f \in Files(l) \cap S : f \in Files(m)
    BY <1>2 DEF Files
  <2> QED
    BY <2>1, <2>2
<1> QED
  BY <1>2, <1>3 DEF FileList, m

(* Of the six processors only the one of the criterion's operator acts.    *)
LEMMA OtherOperator ==
    ASSUME NEW c, NEW l, NEW op, c.op # op
    PROVE  process_criterion_op(c, l, op) = l
  BY DEF process_criterion_op, FieldSeen, HasCode

LEMMA OneOperator ==
    ASSUME NEW c, NEW l
    PROVE  process_criterion(c, l) =
              IF c.op \in Operator THEN process_criterion_op(c, l, c.op) ELSE l
<1> DEFINE p(m, op) == process_criterion_op(c, m, op)
<1>1. \A m, op : c.op # op => p(m, op) = m
  BY OtherOperator
<1>2. process_criterion(c, l) =
         p(p(p(p(p(p(l, "!="), ">="), "<="), "="), "<"), ">")
  BY DEF process_criterion
<1> SUFFICES process_criterion(c, l) =
                IF c.op \in Operator THEN p(l, c.op) ELSE l
  OBVIOUS
<1> HIDE DEF p
<1>3. CASE c.op = "!="
  BY <1>1, <1>2, <1>3 DEF Operator
<1>4. CASE c.op = ">="
  BY <1>1, <1>2, <1>4 DEF Operator
<1>5. CASE c.op = "<="
  BY <1>1, <1>2, <1>5 DEF Operator
<1>6. CASE c.op = "="
  BY <1>1, <1>2, <1>6 DEF Operator
<1>7. CASE c.op = "<"
  BY <1>1, <1>2, <1>7 DEF Operator
<1>8. CASE c.op = ">"
  BY <1>1, <1>2, <1>8 DEF Operator
<1>9. CASE c.op \notin Operator
  <2>1. /\ c.op # "!=" /\ c.op # ">=" /\ c.op # "<=" /\ c.op # "="
        /\ c.op # "<" /\ c.op # ">"
    BY <1>9 DEF Operator
  <2> QED
    BY <1>1, <1>2, <1>9, <2>1
<1> QED
  BY <1>3, <1>4, <1>5, <1>6, <1>7, <1>8, <1>9 DEF Operator

(* A criterion lets the files pass that it means, if its number is one.    *)
LEMMA CriterionKeeps ==
    ASSUME NEW c \in Criterion, NEW l \in FileList
    PROVE  /\ process_criterion(c, l) \in FileList
           /\ Sound(c) => Files(process_criterion(c, l)) =
                             {f \in Files(l) : Known(c) => Meant(c, f)}
<1> DEFINE S == {f \in LookFile : Passes(f, c.field, c.op, c.value)}
<1>1. Files(l) \subseteq LookFile
  BY DEF Files, FileList
<1>2. /\ Known(c) => c.op \in Operator
      /\ c.op \in Operator => (HasCode(c.field, c.op) <=> Known(c))
  BY DEF Known, HasCode, Operator
<1>3. c.op \in Operator =>
         process_criterion_op(c, l, c.op) =
            IF HasCode(c.field, c.op) THEN PutAtHead(l, S) ELSE l
  BY DEF process_criterion_op, SplitsInTwo, FieldSeen
<1>4. process_criterion(c, l) = IF Known(c) THEN PutAtHead(l, S) ELSE l
  BY <1>2, <1>3, OneOperator
<1>5. ASSUME Sound(c), Known(c), NEW f
      PROVE  Passes(f, c.field, c.op, c.value) <=> Meant(c, f)
  <2>1. CASE c.field = "filename"
    BY <2>1 DEF Passes, Meant
  <2>2. CASE c.field = "filesize"
    <3>1. Unsigned(atol(c.value)) = c.value
      BY <1>5, <2>2 DEF Sound, NumField, atol
    <3> QED
      BY <2>2, <3>1 DEF Passes, Meant
  <2> QED
    BY <1>5, <2>1, <2>2 DEF Known
<1>6. /\ PutAtHead(l, S) \in FileList
      /\ Files(PutAtHead(l, S)) = Files(l) \cap S
  BY HeadFiles
<1>7. ASSUME Sound(c)
      PROVE  Files(process_criterion(c, l)) =
                {f \in Files(l) : Known(c) => Meant(c, f)}
  <2>1. CASE Known(c)
    <3>1. Files(l) \cap S = {f \in Files(l) : Meant(c, f)}
      BY <1>1, <1>5, <1>7, <2>1
    <3> QED
      BY <1>4, <1>6, <2>1, <3>1
  <2>2. CASE ~Known(c)
    BY <1>4, <2>2
  <2> QED
    BY <2>1, <2>2
<1> QED
  BY <1>4, <1>6, <1>7

(* The words of a request come out of string_split in their order.         *)
LEMMA SplitInOrder ==
    ASSUME NEW words \in Seq(Criterion)
    PROVE  string_split(words) = words
<1> DEFINE n == Len(words)
           li == PutAtHead(words, Criterion)
<1>1. n \in Nat /\ \A j \in 1..n : words[j] \in Criterion
  OBVIOUS
<1>2. Len(li) = n /\ \A j \in 1..n : li[j] = words[n + 1 - j]
  <2> HIDE DEF Criterion
  <2> QED
    BY <1>1, PutAtHeadSeq
<1>3. string_split(words) = [j \in 1..n |-> li[n + 1 - j]]
  BY <1>2 DEF string_split
<1> HIDE DEF li
<1>4. \A j \in 1..n : li[n + 1 - j] = words[j]
  <2> TAKE j \in 1..n
  <2>1. n + 1 - j \in 1..n /\ n + 1 - (n + 1 - j) = j
    BY <1>1
  <2> QED
    BY <1>2, <2>1
<1>5. string_split(words) = [j \in 1..n |-> words[j]]
  BY <1>3, <1>4
<1> HIDE DEF Criterion
<1> QED
  BY <1>5

MeetsFirst(words, i, f) ==
    \A j \in 1..i : Known(words[j]) => Meant(words[j], f)

(* Whatever the criteria, the C tracker answers with the files that meet   *)
(* each one it knows.                                                      *)
LEMMA CriterionsKeep ==
    ASSUME table \in FileList, NEW words \in Seq(Criterion),
           \A j \in 1..Len(words) : Sound(words[j])
    PROVE  /\ prot_look_process_criterions(words) \in FileList
           /\ Files(prot_look_process_criterions(words)) =
                 {f \in Files(table) : MeetsFirst(words, Len(words), f)}
<1> DEFINE n == Len(words)
           l[i \in 0..n] ==
              IF i = 0 THEN table ELSE process_criterion(words[i], l[i - 1])
<1>1. n \in Nat /\ \A j \in 1..n : words[j] \in Criterion
  OBVIOUS
<1>2. prot_look_process_criterions(words) = l[n]
  <2>1. string_split(words) = words
    BY SplitInOrder
  <2> QED
    BY <2>1, Zenon DEF prot_look_process_criterions
<1>3. l = [i \in 0..n |-> IF i = 0 THEN table
                          ELSE process_criterion(words[i], l[i - 1])]
  <2> DEFINE Is(f) == f = [i \in 0..n |->
                IF i = 0 THEN table ELSE process_criterion(words[i], f[i - 1])]
             step == [i \in 1..n |->
                         [k \in FileList |-> process_criterion(words[i], k)]]
  <2>1. step \in [1..n -> [FileList -> FileList]]
    BY <1>1, CriterionKeeps
  <2> HIDE DEF n
  <2>2. PICK f \in [0..n -> FileList] :
           f[0] = table /\ \A i \in 1..n : f[i] = step[i][f[i - 1]]
    <3> HIDE DEF step
    <3>1. n \in Nat /\ table \in FileList
      BY <1>1
    <3>2. Loops(n, FileList, table, step)
      BY <2>1, <3>1, LoopExists, Zenon
    <3> QED
      BY <3>2 DEF Loops
  <2>3. \A i \in 1..n : f[i] = process_criterion(words[i], f[i - 1])
    <3> TAKE i \in 1..n
    <3>1. f[i - 1] \in FileList
      BY <1>1
    <3> QED
      BY <2>2, <3>1
  <2>4. \A i \in 0..n : i # 0 => i \in 1..n
    BY <1>1
  <2>5. Is(f)
    <3> HIDE DEF step
    <3> QED
      BY <2>2, <2>3, <2>4
  <2> QED
    BY <2>5, Zenon
<1> HIDE DEF l, n
<1>4. l[0] = table
      /\ \A i \in 1..n : l[i] = process_criterion(words[i], l[i - 1])
  <2>1. 0 \in 0..n /\ \A i \in 1..n : i \in 0..n /\ i # 0
    BY <1>1
  <2> QED
    BY <1>3, <2>1, Zenon
<1> DEFINE Kept(i) == {f \in Files(table) : MeetsFirst(words, i, f)}
           S == {i \in 0..n : l[i] \in FileList /\ Files(l[i]) = Kept(i)}
<1>5. 0 \in S
  <2>1. Kept(0) = Files(table)
    BY DEF MeetsFirst
  <2> QED
    BY <1>1, <1>4, <2>1
<1>6. ASSUME NEW i \in 1..n, i - 1 \in S PROVE i \in S
  <2>1. l[i - 1] \in FileList /\ Files(l[i - 1]) = Kept(i - 1)
    BY <1>6
  <2>2. words[i] \in Criterion /\ Sound(words[i])
    BY <1>1 DEF n
  <2>3. /\ l[i] \in FileList
        /\ Files(l[i]) = {f \in Files(l[i - 1]) :
                             Known(words[i]) => Meant(words[i], f)}
    BY <1>4, <2>1, <2>2, CriterionKeeps
  <2>4. ASSUME NEW f
        PROVE  MeetsFirst(words, i, f) <=>
                  /\ MeetsFirst(words, i - 1, f)
                  /\ Known(words[i]) => Meant(words[i], f)
    <3>1. 1..i = 1..(i - 1) \cup {i}
      BY <1>1
    <3> QED
      BY <3>1 DEF MeetsFirst
  <2>5. Files(l[i]) = Kept(i)
    BY <2>1, <2>3, <2>4
  <2>6. i \in 0..n
    BY <1>1
  <2> QED
    BY <2>3, <2>5, <2>6
<1>7. n \in S
  <2> HIDE DEF S
  <2>1. \A i \in 0..n : i \in S
    BY <1>1, <1>5, <1>6, UpTo
  <2>2. n \in 0..n
    BY <1>1
  <2> QED
    BY <2>1, <2>2
<1> QED
  BY <1>2, <1>7 DEF n

(* The C++ tracker applies the predicate that a criterion selects, and     *)
(* lets no file pass when there is none.                                   *)
Accepts(c, f) ==
    /\ match(c)
    /\ Compare(FieldOf(f, c.field), Predicate(c.field, c.op),
               IF c.field \in NumField THEN Unsigned(c.value) ELSE c.value)
AcceptedByFirst(words, i, f) == \A j \in 1..i : Accepts(words[j], f)

LEMMA CriteriaAccept ==
    ASSUME NEW words, NEW k \in Nat
    PROVE  LeftAfter(words, k) =
              {f \in Files(table) : AcceptedByFirst(words, k, f)}
<1> DEFINE left[i \in 0..k] ==
              IF i = 0 THEN getSet ELSE parseCriterion(words[i], left[i - 1])
           T == SUBSET Files(table)
<1>1. \A c, s : parseCriterion(c, s) = {f \in s : Accepts(c, f)}
  BY DEF parseCriterion, applyCriterion, Accepts
<1>2. LeftAfter(words, k) = left[k]
  BY Zenon DEF LeftAfter
<1>3. left = [i \in 0..k |-> IF i = 0 THEN getSet
                             ELSE parseCriterion(words[i], left[i - 1])]
  <2> DEFINE Is(f) == f = [i \in 0..k |->
                IF i = 0 THEN getSet ELSE parseCriterion(words[i], f[i - 1])]
             step == [i \in 1..k |-> [s \in T |-> parseCriterion(words[i], s)]]
  <2>1. step \in [1..k -> [T -> T]]
    BY <1>1
  <2>2. PICK f \in [0..k -> T] :
           f[0] = getSet /\ \A i \in 1..k : f[i] = step[i][f[i - 1]]
    <3>1. getSet \in T
      BY DEF getSet
    <3> HIDE DEF step, T
    <3>2. Loops(k, T, getSet, step)
      BY <2>1, <3>1, LoopExists, Zenon
    <3> QED
      BY <3>2 DEF Loops
  <2>3. \A i \in 1..k : f[i] = parseCriterion(words[i], f[i - 1])
    <3> TAKE i \in 1..k
    <3>1. f[i - 1] \in T
      <4> HIDE DEF T
      <4> QED
        BY <2>2
    <3> HIDE DEF T
    <3> QED
      BY <2>2, <3>1
  <2>4. \A i \in 0..k : i # 0 => i \in 1..k
    OBVIOUS
  <2>5. Is(f)
    <3> HIDE DEF step, T
    <3> QED
      BY <2>2, <2>3, <2>4
  <2> QED
    BY <2>5, Zenon
<1> HIDE DEF left
<1>4. left[0] = getSet
      /\ \A i \in 1..k : left[i] = parseCriterion(words[i], left[i - 1])
  <2>1. 0 \in 0..k /\ \A i \in 1..k : i \in 0..k /\ i # 0
    OBVIOUS
  <2> QED
    BY <1>3, <2>1, Zenon
<1> DEFINE Kept(i) == {f \in Files(table) : AcceptedByFirst(words, i, f)}
           S == {i \in 0..k : left[i] = Kept(i)}
<1>5. 0 \in S
  <2>1. Kept(0) = Files(table)
    BY DEF AcceptedByFirst
  <2> QED
    BY <1>4, <2>1 DEF getSet
<1>6. ASSUME NEW i \in 1..k, i - 1 \in S PROVE i \in S
  <2>1. left[i - 1] = Kept(i - 1) /\ i \in 0..k
    BY <1>6
  <2>2. left[i] = {f \in left[i - 1] : Accepts(words[i], f)}
    BY <1>1, <1>4
  <2>3. ASSUME NEW f
        PROVE  AcceptedByFirst(words, i, f) <=>
                  AcceptedByFirst(words, i - 1, f) /\ Accepts(words[i], f)
    <3>1. 1..i = 1..(i - 1) \cup {i}
      OBVIOUS
    <3> QED
      BY <3>1 DEF AcceptedByFirst
  <2> QED
    BY <2>1, <2>2, <2>3
<1>7. k \in S
  <2> HIDE DEF S
  <2>1. \A i \in 0..k : i \in S
    BY <1>5, <1>6, UpTo
  <2> QED
    BY <2>1
<1> QED
  BY <1>2, <1>7

(* It takes a criterion as it is meant, but for equal sizes.               *)
LEMMA AcceptedIsMeant ==
    ASSUME NEW c, Sound(c), Known(c), NEW f
    PROVE  /\ ~Exchanged(c) => (Accepts(c, f) <=> Meant(c, f))
           /\ Exchanged(c) => (Accepts(c, f) <=> ~Meant(c, f))
<1>1. CASE c.field = "filename"
  BY <1>1 DEF Accepts, Meant, Exchanged, Known, match, Predicate, NumField,
              FieldOf, Operator
<1>2. CASE c.field = "filesize"
  <2>1. /\ match(c) /\ Unsigned(c.value) = c.value /\ c.field \in NumField
        /\ c.op \in Operator /\ FieldOf(f, c.field) = f.size
    BY <1>2 DEF Known, Sound, NumField, match, FieldOf
  <2>2. /\ Accepts(c, f) <=> Compare(f.size, Predicate(c.field, c.op), c.value)
        /\ Meant(c, f) <=> Compare(f.size, c.op, c.value)
    BY <1>2, <2>1 DEF Accepts, Meant
  <2>3. CASE c.op = "="
    <3>1. Predicate(c.field, c.op) = "!=" /\ Exchanged(c)
      BY <1>2, <2>1, <2>3 DEF Predicate, Exchanged
    <3> QED
      BY <2>2, <2>3, <3>1 DEF Compare
  <2>4. CASE c.op = "!="
    <3>1. Predicate(c.field, c.op) = "=" /\ Exchanged(c)
      BY <1>2, <2>1, <2>4 DEF Predicate, Exchanged
    <3> QED
      BY <2>2, <2>4, <3>1 DEF Compare
  <2>5. CASE c.op \notin {"=", "!="}
    <3>1. Predicate(c.field, c.op) = c.op /\ ~Exchanged(c)
      BY <2>1, <2>5 DEF Predicate, Exchanged
    <3> QED
      BY <2>2, <3>1
  <2> QED
    BY <2>3, <2>4, <2>5
<1> QED
  BY <1>1, <1>2 DEF Known

(* A list that has each file once has as many elements as files.           *)
LEMMA FilesCounted ==
    ASSUME NEW l \in FileList
    PROVE  Cardinality(Files(l)) = Len(l)
<1> DEFINE g == [i \in 1..Len(l) |-> l[i]]
<1>1. Len(l) \in Nat /\ Injective(l)
  BY DEF FileList
<1>2. g \in Bijection(1..Len(l), Files(l))
  <2>1. g \in [1..Len(l) -> Files(l)]
    BY DEF Files
  <2>2. \A a, b \in 1..Len(l) : g[a] = g[b] => a = b
    BY <1>1 DEF Injective
  <2>3. \A t \in Files(l) : \E i \in 1..Len(l) : g[i] = t
    BY DEF Files
  <2> HIDE DEF g
  <2> QED
    BY <2>1, <2>2, <2>3 DEF Bijection, Injection, Surjection, IsInjective
<1>3. ExistsBijection(1..Len(l), Files(l))
  BY <1>2 DEF ExistsBijection
<1>4. IsFiniteSet(1..Len(l)) /\ Cardinality(1..Len(l)) = Len(l)
  <2>1. 1 \in Int /\ Len(l) \in Int
    BY <1>1
  <2>2. Cardinality(1..Len(l)) = IF 1 > Len(l) THEN 0 ELSE Len(l) - 1 + 1
    BY <2>1, FS_Interval
  <2>3. IsFiniteSet(1..Len(l))
    BY <2>1, FS_Interval
  <2> QED
    BY <1>1, <2>2, <2>3
<1> QED
  BY <1>3, <1>4, FS_Bijection

(* What the property says, criterion by criterion.                         *)
LEMMA LookAgrees ==
    ASSUME table \in FileList, NEW req \in LookRequest, LookAt(req)
    PROVE  LooksAgree'
<1> DEFINE words == req.words
           n == Len(words)
           criteria == {words[i] : i \in 1..n}
           meant == {f \in Files(table) :
                        \A c \in criteria : Known(c) => Meant(c, f)}
           kept == prot_look_process_criterions(words)
<1>1. /\ table' = table /\ asked' = <<req>> /\ asked'[1].words = words
      /\ creply' = prot_look(req) /\ cppreply' = handleLook(req)
  BY DEF LookAt
<1>2. words \in Seq(Criterion) /\ n \in Nat
  <2>1. PICK m \in Nat : words \in [1..m -> Criterion] \/ words = <<>>
    <3> DEFINE W == UNION {[1..m -> Criterion] : m \in 0..MaxCriteria}
    <3>1. req \in [bracketed : {TRUE}, words : W]
                     \cup [bracketed : {FALSE}, words : {<<>>}]
      BY DEF LookRequest
    <3> HIDE DEF W, Criterion
    <3>2. words \in W \/ words = <<>>
      BY <3>1
    <3> HIDE DEF words
    <3> QED
      BY <3>2 DEF W
  <2> HIDE DEF Criterion, words
  <2>2. words \in Seq(Criterion)
    <3>1. CASE words \in [1..m -> Criterion]
      BY <3>1
    <3>2. CASE words = <<>>
      BY <3>2, EmptySeq
    <3> QED
      BY <2>1, <3>1, <3>2
  <2> QED
    BY <2>2
<1> HIDE DEF words
<1> SUFFICES ASSUME req.bracketed, \A c \in criteria : Sound(c)
             PROVE  /\ creply'[1] = "list"
                    /\ Files(creply'[2]) = {Told(f) : f \in meant}
                    /\ Len(creply'[2]) = Cardinality(meant)
                    /\ (\A c \in criteria : Known(c)) =>
                          /\ cppreply'[1] = "list"
                          /\ (\A c \in criteria : ~Exchanged(c)) =>
                                cppreply'[2] = {Told(f) : f \in meant}
                          /\ n = 1 /\ Exchanged(words[1]) =>
                                cppreply'[2] =
                                   {Told(f) : f \in Files(table) \ meant}
  <2>1. asked'[1] = req /\ table' = table
    BY <1>1
  <2> QED
    BY <1>1, <2>1 DEF LooksAgree, words
<1>3. \A i \in 1..n : words[i] \in criteria /\ Sound(words[i])
  OBVIOUS
<1>4. kept \in FileList /\ Files(kept) = meant
  <2>1. kept \in FileList
        /\ Files(kept) = {f \in Files(table) : MeetsFirst(words, n, f)}
    BY <1>2, <1>3, CriterionsKeep
  <2>2. \A f : MeetsFirst(words, n, f) <=>
                  \A c \in criteria : Known(c) => Meant(c, f)
    BY DEF MeetsFirst
  <2> HIDE DEF criteria
  <2> QED
    BY <2>1, <2>2
<1> HIDE DEF kept
<1>5. creply' = <<"list", [i \in 1..Len(kept) |-> Told(kept[i])]>>
  BY <1>1, Zenon DEF prot_look, prot_look_build_file_list, kept, words
<1>6. Len(kept) \in Nat /\ Len(kept) = Cardinality(meant)
  <2> HIDE DEF meant
  <2>1. Len(kept) \in Nat
    BY <1>4 DEF FileList
  <2> QED
    BY <1>4, <2>1, FilesCounted
<1>7. Files(creply'[2]) = {Told(f) : f \in meant}
  <2> HIDE DEF meant
  <2> QED
    BY <1>4, <1>5, <1>6 DEF Files
<1>8. Len(creply'[2]) = Cardinality(meant)
  <2> HIDE DEF meant
  <2> QED
    BY <1>5, <1>6
<1>9. ASSUME \A c \in criteria : Known(c)
      PROVE  /\ cppreply'[1] = "list"
             /\ (\A c \in criteria : ~Exchanged(c)) =>
                   cppreply'[2] = {Told(f) : f \in meant}
             /\ n = 1 /\ Exchanged(words[1]) =>
                   cppreply'[2] = {Told(f) : f \in Files(table) \ meant}
  <2>1. \A i \in 1..n : \A s : ~Throws(words[i], s)
    BY <1>3 DEF Throws, Sound
  <2>2. cppreply' = <<"list", {Told(f) : f \in LeftAfter(words, n)}>>
    <3>1. cppreply' = parseLook(words)
      BY <1>1 DEF handleLook, words
    <3> QED
      BY <2>1, <3>1, Zenon DEF parseLook, fileListString
  <2>3. LeftAfter(words, n) =
           {f \in Files(table) : AcceptedByFirst(words, n, f)}
    BY <1>2, CriteriaAccept
  <2>4. \A i \in 1..n : Sound(words[i]) /\ Known(words[i])
    BY <1>3, <1>9
  <2>5. \A i \in 1..n : \A f :
           /\ ~Exchanged(words[i]) => (Accepts(words[i], f) <=> Meant(words[i], f))
           /\ Exchanged(words[i]) => (Accepts(words[i], f) <=> ~Meant(words[i], f))
    BY <2>4, AcceptedIsMeant
  <2>6. ASSUME \A c \in criteria : ~Exchanged(c)
        PROVE  LeftAfter(words, n) = meant
    <3>1. ASSUME NEW f
          PROVE  AcceptedByFirst(words, n, f) <=>
                    \A c \in criteria : Known(c) => Meant(c, f)
      BY <1>3, <2>4, <2>5, <2>6 DEF AcceptedByFirst
    <3> HIDE DEF criteria
    <3> QED
      BY <2>3, <3>1
  <2>7. ASSUME n = 1, Exchanged(words[1])
        PROVE  LeftAfter(words, n) = Files(table) \ meant
    <3>1. ASSUME NEW f
          PROVE  AcceptedByFirst(words, n, f) <=>
                    ~\A c \in criteria : Known(c) => Meant(c, f)
      BY <2>4, <2>5, <2>7 DEF AcceptedByFirst
    <3> HIDE DEF criteria
    <3> QED
      BY <2>3, <3>1
  <2> HIDE DEF meant, criteria
  <2> QED
    BY <2>2, <2>6, <2>7
<1> HIDE DEF meant, criteria
<1> QED
  BY <1>5, <1>7, <1>8, <1>9

LEMMA FilesAreListed == LookInit => table \in FileList
<1> SUFFICES ASSUME LookInit PROVE table \in FileList
  OBVIOUS
<1>1. PICK k \in 0..MaxFiles : table \in [1..k -> LookFile]
  BY DEF LookInit, file_list
<1>2. k \in Nat
  OBVIOUS
<1>3. table \in Seq(LookFile)
  BY <1>1, <1>2
<1>4. Injective(table)
  BY DEF LookInit, file_list, Injective
<1> QED
  BY <1>3, <1>4 DEF FileList

(* The C tracker lists the files that meet every criterion it knows, and   *)
(* the C++ tracker the same ones, unless a size is compared for equality,  *)
(* for any files, table of them and number of criteria.                    *)
THEOREM LooksAgreeHolds == LookSpec => []LooksAgree
<1> DEFINE LookInv == table \in FileList /\ LooksAgree
<1>1. LookInit => LookInv
  BY FilesAreListed DEF LookInit, LooksAgree
<1>2. LookInv /\ [LookNext]_lookVars => LookInv'
  <2> SUFFICES ASSUME LookInv, [LookNext]_lookVars PROVE LookInv'
    OBVIOUS
  <2>1. table' = table
    BY DEF LookNext, LookAt, lookVars
  <2>2. CASE LookNext
    BY <2>1, <2>2, LookAgrees DEF LookNext
  <2>3. CASE UNCHANGED lookVars
    <3>1. /\ table' = table /\ asked' = asked
          /\ creply' = creply /\ cppreply' = cppreply
      BY <2>3 DEF lookVars
    <3> QED
      BY <3>1 DEF LooksAgree
  <2> QED
    BY <2>2, <2>3
<1>3. LookInv => LooksAgree
  OBVIOUS
<1> QED
  BY <1>1, <1>2, <1>3, PTL DEF LookSpec
-----------------------------------------------------------------------------
(* The parser of the configuration file.  What a node of its tree is and   *)
(* where in the document the parser can be.                                *)
Kid == [key : Text \cup {None, Freed}, node : Nat]
YamlNode == [type : {"scalar", "mapping", "sequence"},
             text : Text \cup {None}, kids : Seq(Kid)]
Place == {"root", "key", "value", "item", "done"}

\* The collections that are open are the ones on the parser's stack; only the
\* innermost can be at a value, which has a key then.
InStep ==
    /\ Len(open) >= 1 /\ open[1] \in {"root", "done"}
    /\ \A i \in 2..Len(open) :
          /\ open[i] \in {"key", "value", "item"}
          /\ i - 1 \in 1..Len(pstack)
          /\ nodes[pstack[i - 1]].type =
                IF open[i] = "item" THEN "sequence" ELSE "mapping"
    /\ \A i \in 1..(Len(open) - 1) : open[i] \in {"done", "key", "item"}
    /\ expectValue = (Here = "value")
    /\ IF Here = "value" THEN keyname \in Text ELSE keyname = None

\* Until the root has begun there is no node on the stack, while it is open
\* it is the only one at the bottom, and after it there is something to load.
RootSeen ==
    /\ open[1] = "root" => Len(open) = 1 /\ pstack = <<>>
    /\ Len(open) > 1 => Len(pstack) = Len(open) - 1
    /\ open = <<"done">> /\ pstack = <<>> => yamlw \in 1..Len(nodes)

Parsing ==
    /\ \A i \in 1..Len(pstack) : pstack[i] \in 1..Len(nodes)
    /\ InStep /\ RootSeen

YamlTypes ==
    /\ nodes \in Seq(YamlNode) /\ pstack \in Seq(Nat)
    /\ open \in Seq(Place) /\ keyname \in Text \cup {None, Freed}

\* As long as the file has nothing the parser is not made for, parser and
\* document are in step, and what is loaded has been parsed.
ConfigInv ==
    odd = {} => /\ YamlTypes /\ phase # "crash"
                /\ phase \in {"args", "parse"} => Parsing
                /\ phase = "load" => yamlw \in 1..Len(nodes)

\* A sequence, with one more element or one less.
LEMMA AppendSeq ==
    ASSUME NEW T, NEW s \in Seq(T), NEW x \in T
    PROVE  /\ Append(s, x) \in Seq(T) /\ Len(Append(s, x)) = Len(s) + 1
           /\ \A i \in 1..Len(s) : Append(s, x)[i] = s[i]
           /\ Append(s, x)[Len(s) + 1] = x
           /\ stack_peek(Append(s, x)) = x
  <1>1. /\ Append(s, x) \in Seq(T) /\ Len(Append(s, x)) = Len(s) + 1
        /\ \A i \in 1..Len(s) : Append(s, x)[i] = s[i]
        /\ Append(s, x)[Len(s) + 1] = x
    BY AppendProperties
  <1> QED
    BY <1>1 DEF stack_peek

LEMMA FrontSeq ==
    ASSUME NEW T, NEW s \in Seq(T), Len(s) >= 1
    PROVE  /\ BelowTop(s) \in Seq(T) /\ Len(BelowTop(s)) = Len(s) - 1
           /\ \A i \in 1..(Len(s) - 1) : BelowTop(s)[i] = s[i]
  <1>1. Len(s) \in Nat
    BY LenProperties
  <1>2. Len(s) - 1 \in 0..Len(s)
    BY <1>1
  <1> DEFINE n == Len(s) - 1
  <1>3. \A i \in 1..n : s[i] \in T
    BY <1>1, ElementOfSeq
  <1>4. n \in Nat
    BY <1>1
  <1> HIDE DEF n
  <1>5. /\ SubSeq(s, 1, n) \in Seq(T)
        /\ Len(SubSeq(s, 1, n)) = n
        /\ \A i \in 1..n : SubSeq(s, 1, n)[i] = s[i]
    BY <1>3, <1>4, SubSeqProperties
  <1> QED
    BY <1>5 DEF BelowTop, n

LEMMA FrontOfAppend ==
    ASSUME NEW T, NEW s \in Seq(T), NEW x \in T
    PROVE  BelowTop(Append(s, x)) = s
  <1> DEFINE t == Append(s, x)
  <1>1. Len(s) \in Nat
    BY LenProperties
  <1>2. /\ t \in Seq(T) /\ Len(t) = Len(s) + 1
        /\ \A i \in 1..Len(s) : t[i] = s[i]
    BY AppendSeq
  <1> HIDE DEF t
  <1>3. /\ BelowTop(t) \in Seq(T) /\ Len(BelowTop(t)) = Len(s)
        /\ \A i \in 1..Len(s) : BelowTop(t)[i] = t[i]
    BY <1>1, <1>2, FrontSeq
  <1>4. BelowTop(t) = s
    BY <1>2, <1>3, SeqEqual
  <1> QED
    BY <1>4 DEF t

\* A new node leaves the others as they are, but for the one it is hung into.
LEMMA HungFacts ==
    ASSUME YamlTypes, NEW type \in {"scalar", "mapping", "sequence"},
           NEW v \in Text \cup {None},
           \A i \in 1..Len(pstack) : pstack[i] \in 1..Len(nodes)
    PROVE  /\ Hung(type, v) \in Seq(YamlNode)
           /\ Len(Hung(type, v)) = Len(nodes) + 1
           /\ \A i \in 1..Len(nodes) :
                 /\ Hung(type, v)[i].type = nodes[i].type
                 /\ Hung(type, v)[i].text = nodes[i].text
                 /\ Hung(type, v)[i].kids =
                       IF (TopIs("mapping") \/ TopIs("sequence"))
                          /\ i = stack_peek(pstack)
                       THEN Append(nodes[i].kids,
                                   [key |-> keyname, node |-> NewNode])
                       ELSE nodes[i].kids
           /\ Hung(type, v)[Len(nodes) + 1].type = type
           /\ Hung(type, v)[Len(nodes) + 1].text = v
           /\ Hung(type, v)[Len(nodes) + 1].kids = <<>>
  <1> DEFINE node == [type |-> type, text |-> v, kids |-> <<>>]
             grown == Append(nodes, node)
             kid == [key |-> keyname, node |-> NewNode]
             p == stack_peek(pstack)
  <1>1. Len(nodes) \in Nat /\ Len(pstack) \in Nat /\ nodes \in Seq(YamlNode)
    BY LenProperties DEF YamlTypes
  <1>2. /\ node \in YamlNode /\ node.type = type
        /\ node.text = v /\ node.kids = <<>>
    <2>1. <<>> \in Seq(Kid)
      OBVIOUS
    <2> QED
      BY <2>1 DEF YamlNode
  <1>3. kid \in Kid
    BY <1>1 DEF Kid, NewNode, YamlTypes
  <1> HIDE DEF node, kid
  <1>4. /\ grown \in Seq(YamlNode) /\ Len(grown) = Len(nodes) + 1
        /\ \A i \in 1..Len(nodes) : grown[i] = nodes[i]
        /\ grown[Len(nodes) + 1] = node
    BY <1>1, <1>2, AppendSeq
  <1>5. CASE ~(TopIs("mapping") \/ TopIs("sequence"))
    <2>1. Hung(type, v) = grown
      BY <1>5 DEF Hung, node
    <2> HIDE DEF grown
    <2> QED
      BY <1>1, <1>2, <1>4, <1>5, <2>1
  <1>6. CASE TopIs("mapping") \/ TopIs("sequence")
    <2>1. p \in 1..Len(nodes)
      <3>1. Len(pstack) \in 1..Len(pstack)
        <4>1. pstack # <<>>
          BY <1>6 DEF TopIs, stack_is_empty
        <4>2. Len(pstack) # 0
          BY <4>1, EmptySeq DEF YamlTypes
        <4> QED
          BY <1>1, <4>2
      <3> QED
        BY <3>1 DEF stack_peek
    <2>2. Hung(type, v) = [grown EXCEPT ![p].kids = Append(@, kid)]
      BY <1>6 DEF Hung, node, kid
    <2>3. p \in 1..Len(grown)
      BY <1>1, <1>4, <2>1
    <2> HIDE DEF grown, p
    <2> DEFINE x == [grown[p] EXCEPT !.kids = Append(@, kid)]
    <2>4. grown[p] \in YamlNode
      BY <1>4, <2>3, ElementOfSeq
    <2>5. /\ x \in YamlNode /\ x.type = grown[p].type
          /\ x.text = grown[p].text /\ x.kids = Append(grown[p].kids, kid)
      <3>1. grown[p].kids \in Seq(Kid)
        BY <2>4 DEF YamlNode
      <3>2. Append(grown[p].kids, kid) \in Seq(Kid)
        BY <3>1, <1>3, AppendProperties
      <3> HIDE DEF Kid
      <3> QED
        BY <2>4, <3>2 DEF YamlNode
    <2>6. Hung(type, v) = [grown EXCEPT ![p] = x]
      BY <1>4, <2>2, <2>3
    <2> HIDE DEF x, YamlNode
    <2>7. /\ [grown EXCEPT ![p] = x] \in Seq(YamlNode)
          /\ Len([grown EXCEPT ![p] = x]) = Len(grown)
          /\ \A i \in 1..Len(grown) :
                 [grown EXCEPT ![p] = x][i] = IF i = p THEN x ELSE grown[i]
      BY <1>4, <2>3, <2>5, ExceptSeq
    <2>8. Len(nodes) + 1 \in 1..Len(grown) /\ p # Len(nodes) + 1
            /\ \A i \in 1..Len(nodes) : i \in 1..Len(grown)
      BY <1>1, <1>4, <2>1
    <2> DEFINE H == Hung(type, v)
    <2>9. /\ H \in Seq(YamlNode) /\ Len(H) = Len(nodes) + 1
          /\ H[Len(nodes) + 1] = node
          /\ \A i \in 1..Len(nodes) : H[i] = IF i = p THEN x ELSE nodes[i]
      BY <1>4, <2>6, <2>7, <2>8
    <2>10. /\ x.type = nodes[p].type /\ x.text = nodes[p].text
           /\ x.kids = Append(nodes[p].kids, kid)
      BY <1>4, <2>1, <2>5
    <2> HIDE DEF H, x
    <2>11. \A i \in 1..Len(nodes) :
             /\ H[i].type = nodes[i].type /\ H[i].text = nodes[i].text
             /\ H[i].kids = IF i = p THEN Append(nodes[i].kids, kid)
                            ELSE nodes[i].kids
      BY <2>9, <2>10
    <2> QED
      BY <1>2, <1>6, <2>9, <2>11 DEF H, p, kid
  <1> QED
    BY <1>5, <1>6

\* The next place is told by the last one, which alone changes.
LEMMA NextHereFacts ==
    ASSUME YamlTypes, Len(open) >= 1, Here \in {"root", "key", "value", "item"}
    PROVE  /\ NextHere \in Seq(Place) /\ Len(NextHere) = Len(open)
           /\ \A i \in 1..(Len(open) - 1) : NextHere[i] = open[i]
           /\ Here = "root" => NextHere[Len(open)] = "done"
           /\ Here = "key" => NextHere[Len(open)] = "value"
           /\ Here = "value" => NextHere[Len(open)] = "key"
           /\ Here = "item" => NextHere[Len(open)] = "item"
  <1> DEFINE n == Len(open)
             x == CASE Here = "key" -> "value" [] Here = "value" -> "key"
                    [] Here = "item" -> "item" [] Here = "root" -> "done"
  <1>1. open \in Seq(Place) /\ n \in Nat
    BY LenProperties DEF YamlTypes
  <1>2. x \in Place
    BY DEF Place
  <1>3. /\ Here = "root" => x = "done"
        /\ Here = "key" => x = "value"
        /\ Here = "value" => x = "key"
        /\ Here = "item" => x = "item"
    OBVIOUS
  <1>4. NextHere = [open EXCEPT ![n] = x]
    BY DEF NextHere
  <1>5. n \in 1..Len(open)
    BY <1>1
  <1> HIDE DEF x, Place
  <1>6. /\ [open EXCEPT ![n] = x] \in Seq(Place)
        /\ Len([open EXCEPT ![n] = x]) = Len(open)
        /\ \A i \in 1..Len(open) :
               [open EXCEPT ![n] = x][i] = IF i = n THEN x ELSE open[i]
    BY <1>1, <1>2, <1>5, ExceptSeq
  <1>7. NextHere[n] = x /\ \A i \in 1..(n - 1) : NextHere[i] = open[i]
    <2>1. \A i \in 1..(n - 1) : i \in 1..Len(open) /\ i # n
      BY <1>1
    <2> HIDE DEF n
    <2> QED
      BY <1>4, <1>5, <1>6, <2>1
  <1> QED
    BY <1>3, <1>4, <1>6, <1>7

\* What the node on top of the stack says of the place in the document.
LEMMA TopFacts ==
    ASSUME YamlTypes, Parsing, Here \in {"root", "key", "value", "item"}
    PROVE  /\ Len(open) >= 1
           /\ Here = "root" => Len(open) = 1 /\ pstack = <<>>
           /\ Here # "root" => Len(pstack) = Len(open) - 1 /\ pstack # <<>>
           /\ TopIs("mapping") <=> Here \in {"key", "value"}
           /\ TopIs("sequence") <=> Here = "item"
           /\ ~TopIs("scalar")
           /\ BadKeyname <=> Here = "key"
           /\ stack_is_empty(pstack) <=> Here = "root"
  <1> DEFINE n == Len(open)
  <1>1. n \in Nat /\ n >= 1 /\ Here = open[n]
    BY LenProperties DEF YamlTypes, Parsing, InStep, Here, stack_peek
  <1>2. CASE n = 1
    <2>1. Here = "root" /\ pstack = <<>>
      BY <1>1, <1>2 DEF Parsing, InStep, RootSeen
    <2>2. keyname = None /\ None # Freed
      BY <2>1, ConfigAssumption DEF Parsing, InStep
    <2>3. stack_is_empty(pstack)
      BY <2>1 DEF stack_is_empty
    <2>4. ~TopIs("mapping") /\ ~TopIs("sequence") /\ ~TopIs("scalar")
      BY <2>3 DEF TopIs
    <2> QED
      BY <1>2, <2>1, <2>2, <2>3, <2>4 DEF BadKeyname
  <1>3. CASE n # 1
    <2>1. n \in 2..Len(open) /\ n > 1
      <3>1. n \in Nat /\ n >= 1 /\ n # 1 /\ n = Len(open)
        BY <1>1, <1>3
      <3> HIDE DEF n
      <3>2. n \in 2..n /\ n > 1
        BY <3>1
      <3> QED
        BY <3>1, <3>2
    <2>2. open[n] \in {"key", "value", "item"}
          /\ nodes[pstack[n - 1]].type =
                IF open[n] = "item" THEN "sequence" ELSE "mapping"
      BY <2>1 DEF Parsing, InStep
    <2>3. Len(pstack) = n - 1
      BY <2>1 DEF Parsing, RootSeen
    <2>4. pstack # <<>>
      <3>1. pstack = <<>> => Len(pstack) = 0
        BY EmptySeq
      <3> QED
        BY <1>1, <2>1, <2>3, <3>1
    <2>5. stack_peek(pstack) = pstack[n - 1] /\ ~stack_is_empty(pstack)
      BY <2>3, <2>4 DEF stack_peek, stack_is_empty
    <2>6. /\ TopIs("mapping") <=> Here \in {"key", "value"}
          /\ TopIs("sequence") <=> Here = "item"
          /\ ~TopIs("scalar")
      BY <1>1, <2>2, <2>5 DEF TopIs
    <2>7. IF Here = "value" THEN keyname \in Text ELSE keyname = None
      BY DEF Parsing, InStep
    <2>8. BadKeyname <=> Here = "key"
      BY <1>1, <2>2, <2>6, <2>7, ConfigAssumption DEF BadKeyname
    <2> QED
      BY <1>1, <2>1, <2>2, <2>3, <2>4, <2>5, <2>6, <2>8
  <1> QED
    BY <1>2, <1>3

\* A collection begins inside the place where the parser is.
LEMMA DescendSteps ==
    ASSUME YamlTypes, Parsing, Here \in {"root", "value", "item"},
           NEW type \in {"mapping", "sequence"}, ~stack_is_full(pstack),
           parser_stack_push(type, None), expectValue' = FALSE,
           open' = Append(NextHere, IF type = "mapping" THEN "key" ELSE "item")
    PROVE  YamlTypes' /\ Parsing'
  <1> DEFINE n == Len(open)
             k == Len(pstack)
             p == IF type = "mapping" THEN "key" ELSE "item"
  <1>1. /\ n \in Nat /\ k \in Nat /\ Len(nodes) \in Nat
        /\ open \in Seq(Place) /\ pstack \in Seq(Nat)
    BY LenProperties DEF YamlTypes
  <1>2. /\ n >= 1 /\ k = n - 1
        /\ Here = "root" => n = 1
    <2>1. Len(<<>>) = 0
      BY EmptySeq
    <2>2. /\ n >= 1
          /\ Here = "root" => n = 1 /\ pstack = <<>>
          /\ Here # "root" => k = n - 1
      BY TopFacts
    <2> HIDE DEF n
    <2>3. CASE Here = "root"
      BY <2>1, <2>2, <2>3
    <2>4. CASE Here # "root"
      BY <2>2, <2>4
    <2> QED
      BY <2>3, <2>4
  <1>3. /\ NextHere \in Seq(Place) /\ Len(NextHere) = n
        /\ \A i \in 1..(n - 1) : NextHere[i] = open[i]
        /\ Here = "root" => NextHere[n] = "done"
        /\ Here = "value" => NextHere[n] = "key"
        /\ Here = "item" => NextHere[n] = "item"
    BY <1>2, NextHereFacts
  <1>4. /\ open' \in Seq(Place) /\ Len(open') = n + 1
        /\ \A i \in 1..n : open'[i] = NextHere[i]
        /\ open'[n + 1] = p /\ stack_peek(open') = p
    <2>1. p \in Place
      BY DEF Place
    <2>2. open' = Append(NextHere, p)
      OBVIOUS
    <2> HIDE DEF p, Place
    <2> QED
      BY <1>3, <2>1, <2>2, AppendSeq
  <1>5. /\ nodes' \in Seq(YamlNode) /\ Len(nodes') = Len(nodes) + 1
        /\ \A i \in 1..Len(nodes) : nodes'[i].type = nodes[i].type
        /\ nodes'[Len(nodes) + 1].type = type
    <2>1. nodes' = Hung(type, None)
      BY DEF parser_stack_push
    <2>2. \A i \in 1..Len(pstack) : pstack[i] \in 1..Len(nodes)
      BY DEF Parsing
    <2>3. /\ type \in {"scalar", "mapping", "sequence"}
          /\ None \in Text \cup {None}
      OBVIOUS
    <2> HIDE DEF YamlNode
    <2> QED
      BY <2>1, <2>2, <2>3, HungFacts
  <1>6. /\ pstack' \in Seq(Nat) /\ Len(pstack') = n
        /\ \A i \in 1..k : pstack'[i] = pstack[i]
        /\ pstack'[n] = Len(nodes) + 1
    <2>1. NewNode = Len(nodes) + 1 /\ NewNode \in Nat
      BY <1>1 DEF NewNode
    <2>2. pstack' = Append(pstack, NewNode)
      BY DEF parser_stack_push, Pushed
    <2> QED
      BY <1>1, <1>2, <2>1, <2>2, AppendSeq
  <1>7. keyname' = None /\ Here' = p
    BY <1>4 DEF parser_stack_push, Here
  <1> HIDE DEF n, k
  <1>8. \A i \in 1..Len(pstack') : pstack'[i] \in 1..Len(nodes')
    <2>1. \A i \in 1..k : pstack[i] \in 1..Len(nodes)
      BY DEF Parsing, k
    <2>2. \A i \in 1..k : pstack[i] \in 1..(Len(nodes) + 1)
      BY <1>1, <2>1
    <2>3. \A i \in 1..n : i \in 1..k \/ i = n
      BY <1>1, <1>2
    <2>4. Len(nodes) + 1 \in 1..(Len(nodes) + 1)
      BY <1>1
    <2> QED
      BY <1>5, <1>6, <2>2, <2>3, <2>4
  <1>9. \A i \in 1..n : open'[i] \in {"done", "key", "item"}
    <2>1. \A i \in 1..(n - 1) : open[i] \in {"done", "key", "item"}
      BY DEF Parsing, InStep, n
    <2>2. \A i \in 1..(n - 1) : i \in 1..n
      BY <1>1
    <2>3. open'[n] \in {"done", "key", "item"}
      BY <1>1, <1>2, <1>3, <1>4
    <2>4. \A i \in 1..n : i \in 1..(n - 1) \/ i = n
      BY <1>1
    <2>5. \A i \in 1..(n - 1) : open'[i] = open[i]
      BY <1>3, <1>4, <2>2
    <2> QED
      BY <2>1, <2>3, <2>4, <2>5
  <1>10. open'[1] = "done"
    <2>1. CASE n = 1
      <3>1. Here = "root"
        BY <2>1 DEF Parsing, InStep, Here, stack_peek, n
      <3> QED
        BY <1>3, <1>4, <2>1, <3>1
    <2>2. CASE n # 1
      <3>1. 1 \in 1..(n - 1) /\ 1 \in 1..n
        BY <1>1, <1>2, <2>2
      <3>2. open[1] = "done"
        BY <3>1 DEF Parsing, InStep, n
      <3> QED
        BY <1>3, <1>4, <3>1, <3>2
    <2> QED
      BY <2>1, <2>2
  <1>11. \A i \in 2..(n + 1) :
            /\ open'[i] \in {"key", "value", "item"}
            /\ i - 1 \in 1..n
            /\ nodes'[pstack'[i - 1]].type =
                  IF open'[i] = "item" THEN "sequence" ELSE "mapping"
    <2> TAKE i \in 2..(n + 1)
    <2>3. i - 1 \in 1..n
      BY <1>1
    <2> SUFFICES /\ open'[i] \in {"key", "value", "item"}
                 /\ nodes'[pstack'[i - 1]].type =
                       IF open'[i] = "item" THEN "sequence" ELSE "mapping"
      BY <2>3
    <2>1. CASE i = n + 1
      <3>1. i - 1 = n
        BY <1>1, <2>1
      <3> QED
        BY <1>4, <1>5, <1>6, <2>1, <3>1
    <2>2. CASE i # n + 1
      <3>1. i \in 2..n /\ i - 1 \in 1..k /\ i \in 1..n
        BY <1>1, <1>2, <2>2
      <3>2. /\ open[i] \in {"key", "value", "item"}
            /\ nodes[pstack[i - 1]].type =
                  IF open[i] = "item" THEN "sequence" ELSE "mapping"
        BY <3>1 DEF Parsing, InStep, n
      <3>3. pstack[i - 1] \in 1..Len(nodes)
        BY <3>1 DEF Parsing, k
      <3>4. nodes'[pstack'[i - 1]].type = nodes[pstack[i - 1]].type
        BY <1>5, <1>6, <3>1, <3>3
      <3>5. CASE i = n
        <4>1. Here = open[i]
          BY <3>5 DEF Here, stack_peek, n
        <4>2. open'[i] = NextHere[n]
          BY <1>4, <3>1, <3>5
        <4> QED
          BY <1>3, <3>2, <3>4, <4>1, <4>2
      <3>6. CASE i # n
        <4>1. i \in 1..(n - 1)
          BY <1>1, <3>1, <3>6
        <4>2. open'[i] = open[i]
          BY <1>3, <1>4, <3>1, <4>1
        <4> QED
          BY <3>2, <3>4, <4>2
      <3> QED
        BY <3>5, <3>6
    <2> QED
      BY <2>1, <2>2
  <1>12. InStep'
    <2>1. Len(open') >= 1 /\ n + 1 - 1 = n /\ Len(open') - 1 = n
      BY <1>1, <1>4
    <2>2. p # "value"
      OBVIOUS
    <2> HIDE DEF p
    <2> QED
      BY <1>4, <1>6, <1>7, <1>9, <1>10, <1>11, <2>1, <2>2 DEF InStep
  <1>13. RootSeen'
    <2>1. Len(open') - 1 = n /\ open' # <<"done">>
      <3>1. Len(<<"done">>) = 1 /\ Len(open') # 1
        BY <1>1, <1>2, <1>4
      <3> QED
        BY <1>1, <1>4, <3>1
    <2> QED
      BY <1>4, <1>6, <1>10, <2>1 DEF RootSeen
  <1>14. YamlTypes'
    BY <1>4, <1>5, <1>6, <1>7 DEF YamlTypes
  <1> QED
    BY <1>8, <1>12, <1>13, <1>14 DEF Parsing

\* The parser goes on to the next place of the innermost collection.
LEMMA AdvanceSteps ==
    ASSUME YamlTypes, Parsing, Here \in {"key", "value", "item"},
           open' = NextHere, pstack' = pstack,
           nodes' \in Seq(YamlNode), Len(nodes') >= Len(nodes),
           \A i \in 1..Len(nodes) : nodes'[i].type = nodes[i].type,
           expectValue' = (Here = "key"),
           IF Here = "key" THEN keyname' \in Text ELSE keyname' = None
    PROVE  YamlTypes' /\ Parsing'
  <1> DEFINE n == Len(open)
             k == Len(pstack)
  <1>1. /\ n \in Nat /\ k \in Nat /\ Len(nodes) \in Nat /\ Len(nodes') \in Nat
        /\ open \in Seq(Place) /\ pstack \in Seq(Nat)
    BY LenProperties DEF YamlTypes
  <1>2. n > 1 /\ k = n - 1
    <2>1. n >= 1 /\ Here # "root" /\ k = n - 1 /\ pstack # <<>>
      BY TopFacts
    <2>2. k # 0
      BY <1>1, <2>1, EmptySeq
    <2> HIDE DEF n, k
    <2> QED
      BY <1>1, <2>1, <2>2
  <1>3. /\ open' \in Seq(Place) /\ Len(open') = n
        /\ \A i \in 1..(n - 1) : open'[i] = open[i]
        /\ Here = "key" => open'[n] = "value"
        /\ Here = "value" => open'[n] = "key"
        /\ Here = "item" => open'[n] = "item"
    BY <1>1, <1>2, NextHereFacts
  <1>4. Here' = open'[n] /\ Here = open[n]
    BY <1>3 DEF Here, stack_peek
  <1> HIDE DEF n, k
  <1>5. \A i \in 1..Len(pstack') : pstack'[i] \in 1..Len(nodes')
    <2>1. \A i \in 1..k : pstack[i] \in 1..Len(nodes)
      BY DEF Parsing, k
    <2>2. \A i \in 1..k : pstack[i] \in 1..Len(nodes')
      BY <1>1, <2>1
    <2> QED
      BY <2>2 DEF k
  <1>6. \A i \in 2..n :
            /\ open'[i] \in {"key", "value", "item"}
            /\ i - 1 \in 1..Len(pstack')
            /\ nodes'[pstack'[i - 1]].type =
                  IF open'[i] = "item" THEN "sequence" ELSE "mapping"
    <2> TAKE i \in 2..n
    <2>1. /\ open[i] \in {"key", "value", "item"}
          /\ i - 1 \in 1..k
          /\ nodes[pstack[i - 1]].type =
                IF open[i] = "item" THEN "sequence" ELSE "mapping"
      BY DEF Parsing, InStep, n, k
    <2>2. pstack[i - 1] \in 1..Len(nodes)
      BY <2>1 DEF Parsing, k
    <2>3. nodes'[pstack'[i - 1]].type = nodes[pstack[i - 1]].type
      BY <2>2
    <2>4. CASE i = n
      BY <1>3, <1>4, <2>1, <2>3, <2>4 DEF k
    <2>5. CASE i # n
      <3>1. i \in 1..(n - 1)
        BY <1>1, <2>5
      <3>2. open'[i] = open[i]
        BY <1>3, <3>1
      <3> QED
        BY <2>1, <2>3, <3>2 DEF k
    <2> QED
      BY <2>4, <2>5
  <1>7. /\ \A i \in 1..(n - 1) : open'[i] = open[i]
        /\ \A i \in 1..(n - 1) : open'[i] \in {"done", "key", "item"}
        /\ open'[1] = "done"
    <2>1. \A i \in 1..(n - 1) : open[i] \in {"done", "key", "item"}
      BY DEF Parsing, InStep, n
    <2>2. 1 \in 1..(n - 1)
      BY <1>1, <1>2
    <2>3. open[1] \in {"root", "done"}
      BY DEF Parsing, InStep
    <2> QED
      BY <1>3, <2>1, <2>2, <2>3
  <1>8. InStep'
    <2>1. Len(open') >= 1
      BY <1>1, <1>2, <1>3
    <2>2. expectValue' = (Here' = "value")
      BY <1>3, <1>4
    <2>3. IF Here' = "value" THEN keyname' \in Text ELSE keyname' = None
      BY <1>3, <1>4
    <2> QED
      BY <1>3, <1>6, <1>7, <2>1, <2>2, <2>3 DEF InStep
  <1>9. RootSeen'
    <2>1. open' # <<"done">>
      <3>1. Len(<<"done">>) = 1 /\ Len(open') # 1
        BY <1>1, <1>2, <1>3
      <3> QED
        BY <3>1
    <2>2. Len(pstack') = Len(open') - 1
      BY <1>2, <1>3 DEF k
    <2> QED
      BY <1>7, <2>1, <2>2 DEF RootSeen
  <1>10. YamlTypes'
    <2>1. pstack' \in Seq(Nat)
      BY <1>1
    <2>2. keyname' \in Text \cup {None, Freed}
      OBVIOUS
    <2> QED
      BY <1>3, <2>1, <2>2 DEF YamlTypes
  <1> QED
    BY <1>5, <1>8, <1>9, <1>10 DEF Parsing

\* The innermost collection ends; the one of the root is what is loaded.
LEMMA AscendSteps ==
    ASSUME YamlTypes, Parsing, CollectionEnd
    PROVE  YamlTypes' /\ Parsing'
  <1> DEFINE n == Len(open)
             k == Len(pstack)
  <1>1. /\ n \in Nat /\ k \in Nat /\ Len(nodes) \in Nat
        /\ open \in Seq(Place) /\ pstack \in Seq(Nat)
    BY LenProperties DEF YamlTypes
  <1>2. n > 1 /\ Here \in {"key", "item"} /\ nodes' = nodes
        /\ expectValue' = expectValue /\ keyname' = keyname
    BY DEF CollectionEnd
  <1>3. k = n - 1 /\ pstack # <<>>
    BY <1>2, TopFacts
  <1>4. /\ open' \in Seq(Place) /\ Len(open') = n - 1
        /\ \A i \in 1..(n - 1) : open'[i] = open[i]
    <2>1. n >= 1
      BY <1>1, <1>2
    <2>2. open' = BelowTop(open)
      BY DEF CollectionEnd
    <2> QED
      BY <1>1, <2>1, <2>2, FrontSeq
  <1>5. /\ pstack' \in Seq(Nat) /\ Len(pstack') = k - 1
        /\ \A i \in 1..(k - 1) : pstack'[i] = pstack[i]
    <2>1. k >= 1
      BY <1>1, <1>2, <1>3
    <2>2. pstack' = BelowTop(pstack)
      BY <1>3 DEF CollectionEnd, Popped, stack_is_empty
    <2> QED
      BY <1>1, <2>1, <2>2, FrontSeq
  <1>6. yamlw' = pstack[k]
    BY <1>3 DEF CollectionEnd, stack_is_empty, stack_peek
  <1>7. Here' = open'[n - 1]
    BY <1>4 DEF Here, stack_peek
  <1>8. expectValue = FALSE /\ keyname = None
    BY <1>2 DEF Parsing, InStep
  <1>9. /\ \A i \in 1..k : pstack[i] \in 1..Len(nodes)
        /\ \A i \in 1..(n - 1) : open[i] \in {"done", "key", "item"}
        /\ open[1] \in {"root", "done"}
        /\ \A i \in 2..n :
              /\ open[i] \in {"key", "value", "item"}
              /\ nodes[pstack[i - 1]].type =
                    IF open[i] = "item" THEN "sequence" ELSE "mapping"
    BY DEF Parsing, InStep
  <1> HIDE DEF n, k
  <1>10. \A i \in 1..Len(pstack') : pstack'[i] \in 1..Len(nodes')
    <2>1. \A i \in 1..(k - 1) : i \in 1..k
      BY <1>1
    <2> QED
      BY <1>2, <1>5, <1>9, <2>1
  <1>11. InStep'
    <2>1. Len(open') >= 1 /\ 1 \in 1..(n - 1) /\ n - 1 \in 1..(n - 1)
      BY <1>1, <1>2, <1>4
    <2>2. open'[1] \in {"root", "done"}
      BY <1>4, <1>9, <2>1
    <2>3. \A i \in 2..Len(open') :
             /\ open'[i] \in {"key", "value", "item"}
             /\ i - 1 \in 1..Len(pstack')
             /\ nodes'[pstack'[i - 1]].type =
                   IF open'[i] = "item" THEN "sequence" ELSE "mapping"
      <3> TAKE i \in 2..Len(open')
      <3>1. i \in 2..n /\ i \in 1..(n - 1) /\ i - 1 \in 1..(k - 1)
        BY <1>1, <1>2, <1>3, <1>4
      <3> QED
        BY <1>2, <1>4, <1>5, <1>9, <3>1
    <2>4. \A i \in 1..(Len(open') - 1) : open'[i] \in {"done", "key", "item"}
      <3>1. \A i \in 1..(Len(open') - 1) : i \in 1..(n - 1)
        BY <1>1, <1>4
      <3> QED
        BY <1>4, <1>9, <3>1
    <2>5. Here' \in {"done", "key", "item"}
      BY <1>4, <1>7, <1>9, <2>1
    <2>6. /\ expectValue' = (Here' = "value")
          /\ IF Here' = "value" THEN keyname' \in Text ELSE keyname' = None
      BY <1>2, <1>8, <2>5
    <2> QED
      BY <2>1, <2>2, <2>3, <2>4, <2>6 DEF InStep
  <1>12. RootSeen'
    <2>1. 1 \in 1..(n - 1) /\ k \in 1..k
      BY <1>1, <1>2, <1>3
    <2>2. open'[1] = "done"
      BY <1>4, <1>9, <2>1
    <2>3. yamlw' \in 1..Len(nodes')
      BY <1>2, <1>6, <1>9, <2>1
    <2>4. Len(open') > 1 => Len(pstack') = Len(open') - 1
      BY <1>1, <1>3, <1>4, <1>5
    <2> QED
      BY <2>2, <2>3, <2>4 DEF RootSeen
  <1>13. YamlTypes'
    BY <1>2, <1>4, <1>5 DEF YamlTypes
  <1> QED
    BY <1>10, <1>11, <1>12, <1>13 DEF Parsing

\* A leaf leaves the stack as it was.
LEMMA PushedAndPopped ==
    ASSUME YamlTypes, ~stack_is_full(pstack)
    PROVE  Popped(Pushed(pstack, NewNode)) = pstack
  <1> DEFINE s == Append(pstack, NewNode)
  <1>1. pstack \in Seq(Nat) /\ NewNode \in Nat /\ Len(pstack) \in Nat
    BY LenProperties DEF YamlTypes, NewNode
  <1>2. Len(s) = Len(pstack) + 1
    BY <1>1, AppendSeq
  <1>3. Pushed(pstack, NewNode) = s
    BY DEF Pushed
  <1>4. BelowTop(s) = pstack
    BY <1>1, FrontOfAppend
  <1> HIDE DEF s
  <1>5. s # <<>>
    BY <1>1, <1>2, EmptySeq
  <1> QED
    BY <1>3, <1>4, <1>5 DEF Popped, stack_is_empty

\* A scalar is the name of the next value, or such a value, or all there is.
LEMMA ScalarSteps ==
    ASSUME YamlTypes, Parsing, NEW v \in Text, Scalar(v), odd' = {}
    PROVE  YamlTypes' /\ Parsing' /\ phase' = phase
  <1>1. /\ Here \in {"root", "key", "value", "item"} /\ open' = NextHere
        /\ ~stack_is_full(pstack)
        /\ ScalarIsKey(v) \/ ScalarIsLeaf(v) \/ ScalarIsRoot(v)
    BY DEF Scalar, NodeExpected, Deep
  <1>2. /\ Here = "root" => Len(open) = 1 /\ pstack = <<>>
        /\ TopIs("mapping") <=> Here \in {"key", "value"}
        /\ TopIs("sequence") <=> Here = "item"
        /\ ~TopIs("scalar")
        /\ BadKeyname <=> Here = "key"
        /\ stack_is_empty(pstack) <=> Here = "root"
    BY <1>1, TopFacts
  <1>3. /\ expectValue = (Here = "value")
        /\ Here # "value" => keyname = None
    BY DEF Parsing, InStep
  <1>4. /\ Hung("scalar", v) \in Seq(YamlNode)
        /\ Len(Hung("scalar", v)) = Len(nodes) + 1
        /\ \A i \in 1..Len(nodes) : Hung("scalar", v)[i].type = nodes[i].type
    <2>1. \A i \in 1..Len(pstack) : pstack[i] \in 1..Len(nodes)
      BY DEF Parsing
    <2>2. /\ "scalar" \in {"scalar", "mapping", "sequence"}
          /\ v \in Text \cup {None}
      OBVIOUS
    <2> HIDE DEF YamlNode
    <2> QED
      BY <2>1, <2>2, HungFacts
  <1>5. /\ nodes \in Seq(YamlNode) /\ Len(nodes) \in Nat /\ Len(pstack) \in Nat
        /\ pstack \in Seq(Nat) /\ NewNode = Len(nodes) + 1 /\ NewNode \in Nat
    BY LenProperties DEF YamlTypes, NewNode
  <1>6. CASE ScalarIsKey(v)
    <2>1. Here = "key"
      BY <1>1, <1>2, <1>3, <1>6 DEF ScalarIsKey
    <2>2. /\ nodes' = nodes /\ pstack' = pstack /\ phase' = phase
          /\ keyname' = v /\ expectValue' = TRUE
      BY <1>6 DEF ScalarIsKey
    <2>3. nodes' \in Seq(YamlNode) /\ Len(nodes') >= Len(nodes)
          /\ \A i \in 1..Len(nodes) : nodes'[i].type = nodes[i].type
      BY <1>5, <2>2
    <2>4. expectValue' = (Here = "key")
      BY <2>1, <2>2
    <2>5. IF Here = "key" THEN keyname' \in Text ELSE keyname' = None
      BY <2>1, <2>2
    <2> QED
      BY <1>1, <2>1, <2>2, <2>3, <2>4, <2>5, AdvanceSteps
  <1>7. CASE ScalarIsLeaf(v)
    <2>1. Here \in {"value", "item"}
      BY <1>1, <1>2, <1>3, <1>7 DEF ScalarIsLeaf
    <2>2. ~(BadKeyname \/ TopIs("scalar"))
      BY <1>2, <2>1
    <2>3. /\ nodes' = Hung("scalar", v)
          /\ pstack' = Popped(Pushed(pstack, NewNode))
          /\ keyname' = IF TopIs("mapping") \/ keyname = None THEN None
                        ELSE Freed
          /\ expectValue' = (expectValue /\ ~TopIs("mapping"))
          /\ phase' = phase
      BY <1>7, <2>2 DEF ScalarIsLeaf
    <2>4. pstack' = pstack
      BY <1>1, <2>3, PushedAndPopped
    <2>5. keyname' = None
      BY <1>2, <1>3, <2>1, <2>3
    <2>6. expectValue' = (Here = "key")
      BY <1>2, <1>3, <2>1, <2>3
    <2>7. nodes' \in Seq(YamlNode) /\ Len(nodes') >= Len(nodes)
          /\ \A i \in 1..Len(nodes) : nodes'[i].type = nodes[i].type
      BY <1>4, <1>5, <2>3
    <2>8. IF Here = "key" THEN keyname' \in Text ELSE keyname' = None
      BY <2>1, <2>5
    <2> QED
      BY <1>1, <2>1, <2>3, <2>4, <2>6, <2>7, <2>8, AdvanceSteps
  <1>8. CASE ScalarIsRoot(v)
    <2>1. Here = "root" /\ Len(open) = 1
      BY <1>2, <1>8 DEF ScalarIsRoot
    <2>2. /\ nodes' = Hung("scalar", v) /\ pstack' = Append(pstack, NewNode)
          /\ keyname' = keyname /\ expectValue' = expectValue /\ phase' = phase
      BY <1>1, <1>8 DEF ScalarIsRoot, Pushed
    <2>3. /\ open' \in Seq(Place) /\ Len(open') = 1 /\ open'[1] = "done"
      BY <1>1, <2>1, NextHereFacts
    <2>4. Here' = "done"
      BY <2>3 DEF Here, stack_peek
    <2>5. /\ pstack' \in Seq(Nat) /\ Len(pstack') = 1
          /\ pstack'[1] = Len(nodes) + 1
      <3>1. Len(pstack) = 0
        BY <1>2, <2>1, EmptySeq
      <3>2. /\ pstack' \in Seq(Nat) /\ Len(pstack') = Len(pstack) + 1
            /\ pstack'[Len(pstack) + 1] = NewNode
        BY <1>5, <2>2, AppendSeq
      <3>3. Len(pstack) + 1 = 1
        BY <3>1
      <3> QED
        BY <1>5, <3>2, <3>3
    <2>6. pstack' # <<>>
      <3>1. pstack' = <<>> => Len(pstack') = 0
        BY EmptySeq
      <3> QED
        BY <2>5, <3>1
    <2>7. \A i \in 1..Len(pstack') : pstack'[i] \in 1..Len(nodes')
      BY <1>4, <1>5, <2>2, <2>5
    <2>8. InStep'
      <3>1. Len(open') >= 1 /\ 2..Len(open') = {} /\ 1..(Len(open') - 1) = {}
        BY <2>3
      <3>2. expectValue' = (Here' = "value") /\ keyname' = None
        BY <1>3, <2>1, <2>2, <2>4
      <3> QED
        BY <2>3, <2>4, <3>1, <3>2 DEF InStep
    <2>9. RootSeen'
      BY <2>3, <2>6 DEF RootSeen
    <2>10. YamlTypes'
      BY <1>4, <2>2, <2>3, <2>5 DEF YamlTypes
    <2> QED
      BY <2>2, <2>7, <2>8, <2>9, <2>10 DEF Parsing
  <1> QED
    BY <1>1, <1>6, <1>7, <1>8

\* A collection begins where one is expected, but never as a key.
LEMMA CollectionSteps ==
    ASSUME YamlTypes, Parsing, MappingStart \/ SequenceStart, odd' = {}
    PROVE  YamlTypes' /\ Parsing' /\ phase' = phase
  <1>1. Here \in {"root", "key", "value", "item"} /\ Here # "key"
        /\ ~stack_is_full(pstack)
    BY DEF MappingStart, SequenceStart, NodeExpected, Deep, OddKey
  <1>2. ~BadKeyname
    BY <1>1, TopFacts
  <1>3. Here \in {"root", "value", "item"}
    BY <1>1
  <1>4. CASE MappingStart
    <2>1. /\ parser_stack_push("mapping", None) /\ expectValue' = FALSE
          /\ open' = Append(NextHere, "key") /\ phase' = phase
      BY <1>2, <1>4 DEF MappingStart
    <2>2. open' = Append(NextHere,
                         IF "mapping" = "mapping" THEN "key" ELSE "item")
      BY <2>1
    <2>3. "mapping" \in {"mapping", "sequence"}
      OBVIOUS
    <2> QED
      BY <1>1, <1>3, <2>1, <2>2, <2>3, DescendSteps
  <1>5. CASE SequenceStart
    <2>1. /\ parser_stack_push("sequence", None) /\ expectValue' = expectValue
          /\ open' = Append(NextHere, "item") /\ phase' = phase
          /\ Here # "value"
      BY <1>2, <1>5 DEF SequenceStart
    <2>2. open' = Append(NextHere,
                         IF "sequence" = "mapping" THEN "key" ELSE "item")
      BY <2>1
    <2>3. expectValue' = FALSE
      BY <2>1 DEF Parsing, InStep
    <2>4. "sequence" \in {"mapping", "sequence"}
      OBVIOUS
    <2> QED
      BY <1>1, <1>3, <2>1, <2>2, <2>3, <2>4, DescendSteps
  <1> QED
    BY <1>4, <1>5

\* What the document was is loaded, the root being on the stack if it was a
\* scalar and given already if it was a collection.
LEMMA DocumentSteps ==
    ASSUME YamlTypes, Parsing, DocumentEnd
    PROVE  YamlTypes' /\ phase' = "load" /\ yamlw' \in 1..Len(nodes')
  <1>1. /\ Len(pstack) \in Nat /\ pstack \in Seq(Nat)
        /\ open = <<"done">> /\ nodes' = nodes /\ phase' = "load"
        /\ open' = open /\ keyname' = keyname
        /\ yamlw' = IF stack_is_empty(pstack) THEN yamlw ELSE stack_peek(pstack)
        /\ pstack' = Popped(pstack)
    BY LenProperties DEF DocumentEnd, YamlTypes, source
  <1>2. CASE pstack = <<>>
    <2>1. yamlw \in 1..Len(nodes)
      BY <1>1, <1>2 DEF Parsing, RootSeen
    <2>2. yamlw' = yamlw /\ pstack' = pstack
      BY <1>1, <1>2 DEF stack_is_empty, Popped
    <2> QED
      BY <1>1, <2>1, <2>2 DEF YamlTypes
  <1>3. CASE pstack # <<>>
    <2>1. Len(pstack) >= 1
      <3>1. Len(pstack) # 0
        BY <1>1, <1>3, EmptySeq
      <3> QED
        BY <1>1, <3>1
    <2>2. yamlw' = pstack[Len(pstack)] /\ pstack' = BelowTop(pstack)
      BY <1>1, <1>3 DEF stack_is_empty, Popped, stack_peek
    <2>3. pstack' \in Seq(Nat)
      BY <1>1, <2>1, <2>2, FrontSeq
    <2>4. yamlw' \in 1..Len(nodes)
      <3>1. Len(pstack) \in 1..Len(pstack)
        BY <1>1, <2>1
      <3> QED
        BY <2>2, <3>1 DEF Parsing
    <2> QED
      BY <1>1, <2>3, <2>4 DEF YamlTypes
  <1> QED
    BY <1>2, <1>3

\* The steps that leave the parser alone.
LEMMA OtherSteps ==
    ASSUME ConfigInv, odd = {}, UNCHANGED parser, UNCHANGED open,
           phase' # "crash", phase' # "load",
           phase' \in {"args", "parse"} => phase \in {"args", "parse"}
    PROVE  ConfigInv'
  <1>1. YamlTypes'
    BY DEF ConfigInv, YamlTypes, parser
  <1>2. phase' \in {"args", "parse"} => Parsing'
    BY DEF ConfigInv, Parsing, InStep, RootSeen, Here, parser
  <1> QED
    BY <1>1, <1>2 DEF ConfigInv

LEMMA ConfigInitial ==
    ASSUME ConfigInit
    PROVE  ConfigInv
  <1>1. /\ open = <<"root">> /\ nodes = <<>> /\ pstack = <<>>
        /\ expectValue = FALSE /\ keyname = None /\ phase = "args"
    BY DEF ConfigInit, stack_create
  <1>2. Len(pstack) = 0 /\ Len(open) = 1 /\ open[1] = "root" /\ Here = "root"
    BY <1>1, EmptySeq DEF Here, stack_peek
  <1>3. YamlTypes
    <2>1. nodes \in Seq(YamlNode)
      BY <1>1, EmptySeq
    <2>2. pstack \in Seq(Nat)
      BY <1>1, EmptySeq
    <2>3. open \in Seq(Place)
      BY <1>1 DEF Place
    <2> QED
      BY <1>1, <2>1, <2>2, <2>3 DEF YamlTypes
  <1>4. InStep
    <2>1. Len(open) >= 1 /\ 2..Len(open) = {} /\ 1..(Len(open) - 1) = {}
      BY <1>2
    <2>2. expectValue = (Here = "value") /\ Here # "value"
      BY <1>1, <1>2
    <2> QED
      BY <1>1, <1>2, <2>1, <2>2 DEF InStep
  <1>5. RootSeen
    <2>1. open # <<"done">>
      BY <1>1
    <2> QED
      BY <1>1, <1>2, <2>1 DEF RootSeen
  <1>6. \A i \in 1..Len(pstack) : pstack[i] \in 1..Len(nodes)
    BY <1>2
  <1> QED
    BY <1>1, <1>3, <1>4, <1>5, <1>6 DEF ConfigInv, Parsing

LEMMA ConfigInductive ==
    ASSUME ConfigInv, [ConfigNext]_configVars
    PROVE  ConfigInv'
  <1> SUFFICES ASSUME odd' = {}
               PROVE  ConfigInv'
    BY DEF ConfigInv
  <1>1. ASSUME NEW v \in Text, SetOpt(Port, v)
        PROVE  ConfigInv'
    <2>1. odd = {} /\ UNCHANGED parser /\ UNCHANGED open /\ phase' = "args"
          /\ phase = "args"
      BY <1>1 DEF SetOpt, source
    <2> QED
      BY <2>1, OtherSteps
  <1>2. ASSUME NEW v \in Text, Scalar(v)
        PROVE  ConfigInv'
    <2>1. odd = {} /\ phase = "parse"
      BY <1>2 DEF Scalar, NodeExpected
    <2>2. YamlTypes /\ Parsing
      BY <2>1 DEF ConfigInv
    <2>3. YamlTypes' /\ Parsing' /\ phase' = phase
      BY <1>2, <2>2, ScalarSteps
    <2> QED
      BY <2>1, <2>3 DEF ConfigInv
  <1>3. CASE SetOpt(Daemonize, One) \/ SetOpt(Conf, One)
    <2>1. odd = {} /\ UNCHANGED parser /\ UNCHANGED open /\ phase' = "args"
          /\ phase = "args"
      BY <1>3 DEF SetOpt, source
    <2> QED
      BY <2>1, OtherSteps
  <1>4. CASE OptionExits \/ NoConfigFile \/ OpenConfigFile
    <2>1. /\ odd = {} /\ UNCHANGED parser /\ UNCHANGED open /\ phase = "args"
          /\ phase' \in {"exit", "run", "parse"}
      BY <1>4 DEF OptionExits, NoConfigFile, OpenConfigFile, source
    <2> QED
      BY <2>1, OtherSteps
  <1>5. CASE MappingStart \/ SequenceStart
    <2>1. odd = {} /\ phase = "parse"
      BY <1>5 DEF MappingStart, SequenceStart, NodeExpected
    <2>2. YamlTypes /\ Parsing
      BY <2>1 DEF ConfigInv
    <2>3. YamlTypes' /\ Parsing' /\ phase' = phase
      BY <1>5, <2>2, CollectionSteps
    <2> QED
      BY <2>1, <2>3 DEF ConfigInv
  <1>6. CASE CollectionEnd
    <2>1. odd = {} /\ phase = "parse" /\ phase' = "parse"
      BY <1>6 DEF CollectionEnd
    <2>2. YamlTypes /\ Parsing
      BY <2>1 DEF ConfigInv
    <2>3. YamlTypes' /\ Parsing'
      BY <1>6, <2>2, AscendSteps
    <2> QED
      BY <2>1, <2>3 DEF ConfigInv
  <1>7. CASE Alias \/ StreamEnd
    BY <1>7 DEF Alias, StreamEnd
  <1>8. CASE DocumentEnd
    <2>1. odd = {} /\ phase = "parse"
      BY <1>8 DEF DocumentEnd, source
    <2>2. YamlTypes /\ Parsing
      BY <2>1 DEF ConfigInv
    <2>3. YamlTypes' /\ phase' = "load" /\ yamlw' \in 1..Len(nodes')
      BY <1>8, <2>2, DocumentSteps
    <2> QED
      BY <2>1, <2>3 DEF ConfigInv
  <1>9. CASE ParserError
    <2>1. /\ odd = {} /\ UNCHANGED parser /\ UNCHANGED open /\ phase' = "run"
      BY <1>9 DEF ParserError
    <2> QED
      BY <2>1, OtherSteps
  <1>10. CASE LoadCrashes
    <2>1. odd = {} /\ phase = "load" /\ yamlw \in {Unset, Null}
      BY <1>10 DEF LoadCrashes, source
    <2>2. yamlw \in 1..Len(nodes) /\ Len(nodes) \in Nat
      BY <2>1, LenProperties DEF ConfigInv, YamlTypes
    <2> QED
      BY <2>1, <2>2 DEF Unset, Null
  <1>11. CASE LoadSkips \/ LoadOptions
    <2>1. /\ odd = {} /\ UNCHANGED parser /\ UNCHANGED open /\ phase' = "run"
      BY <1>11 DEF LoadSkips, LoadOptions, source
    <2> QED
      BY <2>1, OtherSteps
  <1>12. CASE deamonize \/ start_command_prompt_thread \/ make_listener_socket
    <2>1. /\ odd = {} /\ UNCHANGED parser /\ UNCHANGED open
          /\ phase' \in {"serve", "exit", "listen"}
      BY <1>12 DEF deamonize, start_command_prompt_thread,
                   make_listener_socket, source
    <2> QED
      BY <2>1, OtherSteps
  <1>13. CASE UNCHANGED configVars
    <2>1. phase' = phase /\ odd' = odd
      BY <1>13 DEF configVars, source
    <2>2. YamlTypes' = YamlTypes
      BY <1>13 DEF configVars, parser, source, YamlTypes
    <2>3. Parsing' = Parsing
      BY <1>13 DEF configVars, parser, source, Parsing, InStep, RootSeen, Here
    <2>4. yamlw' = yamlw /\ nodes' = nodes
      BY <1>13 DEF configVars, parser
    <2> QED
      BY <2>1, <2>2, <2>3, <2>4 DEF ConfigInv
  <1> QED
    BY <1>1, <1>2, <1>3, <1>4, <1>5, <1>6, <1>7, <1>8, <1>9, <1>10, <1>11,
       <1>12, <1>13 DEF ConfigNext

\* parse_options, yaml2_parse_file, load_config_file and main, whatever the
\* file and the depth of the parser's stack: the invariant of the parser.
THEOREM ConfigInvariant == ConfigSpec => []ConfigInv
  <1>1. ConfigInit => ConfigInv
    BY ConfigInitial
  <1>2. ConfigInv /\ [ConfigNext]_configVars => ConfigInv'
    BY ConfigInductive
  <1> QED
    BY <1>1, <1>2, PTL DEF ConfigSpec

\* A file crashes the tracker only with what the parser is not made for.
THEOREM CrashHasCauseHolds == ConfigSpec => []CrashHasCause
  <1>1. ConfigInv => CrashHasCause
    BY DEF ConfigInv, CrashHasCause
  <1> QED
    BY <1>1, ConfigInvariant, PTL
-----------------------------------------------------------------------------
(* The options.  The tree of nodes holds the document that has been read:  *)
(* the root is node 1, and if it is a mapping its children are the pairs   *)
(* of the document, in order, but for the one whose value is awaited.      *)
Option == [key : Text, text : Text]
DocPair == [key : Text, val : Text \cup {None}]
Waiting == Len(open) = 2 /\ Here = "value"
RootIsMapping == Len(nodes) >= 1 /\ nodes[1].type = "mapping"

PairOf(tree, kid, d) ==
    /\ kid.key = d.key /\ kid.node \in 1..Len(tree)
    /\ IF tree[kid.node].type = "scalar"
       THEN d.val \in Text /\ d.val = tree[kid.node].text
       ELSE d.val = None

Paired ==
    /\ Len(doc) = IF Waiting THEN Len(nodes[1].kids) + 1
                  ELSE Len(nodes[1].kids)
    /\ \A i \in 1..Len(nodes[1].kids) : PairOf(nodes, nodes[1].kids[i], doc[i])
    /\ Waiting => doc[Len(doc)].val = None /\ doc[Len(doc)].key = keyname

\* The root is the first node, at the bottom of the stack and only there, and
\* what is loaded once it has been read.
RootFirst ==
    /\ open[1] = "root" => nodes = <<>>
    /\ \A i \in 1..Len(pstack) : pstack[i] = 1 <=> i = 1
    /\ open = <<"done">> => Len(pstack) <= 1 /\ (pstack = <<>> => yamlw = 1)

DocRead == IF RootIsMapping THEN Paired ELSE doc = <<>>

(* The options of the file come after those of the command line.  Each has *)
(* a key no option before it has, and is the first scalar the first n      *)
(* pairs give the key; no key with a scalar is left out.                   *)
FirstScalar(o, n) ==
    \E d \in 1..n : /\ doc[d].key = o.key /\ doc[d].val = o.text
                    /\ \A e \in 1..(d - 1) :
                          doc[e].key = o.key => doc[e].val = None
FileOptions(opts, n) ==
    /\ \A i \in (nargs + 1)..Len(opts) :
          /\ \A j \in 1..(i - 1) : opts[j].key # opts[i].key
          /\ FirstScalar(opts[i], n)
    /\ \A d \in 1..n : doc[d].val # None =>
          \E j \in 1..Len(opts) : opts[j].key = doc[d].key

\* A table of options is a uthash of the places of its list.
Placed(list) == [i \in 1..Len(list) |-> Entry(list[i].key, i)]
OptionTable(o) ==
    /\ o.list \in Seq(Option)
    /\ TableInv(o.tbl, Placed(o.list), o.turned)

\* The value the code reads: of the option a look-up finds.
Given(k) == {i \in 1..Len(options.list) : options.list[i].key = k}
IsRead(k, i) == FoundOf(Given(k), i, options.turned)
PortRead ==
    IF Given(Port) = {} THEN started.port = 8000
    ELSE \E i \in 1..Len(options.list) :
            /\ IsRead(Port, i)
            /\ started.port = Number[options.list[i].text] % 65536
PromptRead ==
    IF Given(Daemonize) = {} THEN started.prompt # "no"
    ELSE \E i \in 1..Len(options.list) :
            /\ IsRead(Daemonize, i)
            /\ started.prompt = "no" <=> Number[options.list[i].text] # 0

OptionTypes ==
    /\ OptionTable(options) /\ doc \in Seq(DocPair)
    /\ nargs \in 0..Len(options.list)
    /\ started \in [port : Int, prompt : {"no", "yes", "failed"}]

OptionsInv ==
    odd = {} =>
        /\ OptionTypes
        /\ phase = "args" => doc = <<>>
        /\ phase \in {"args", "parse", "load"} =>
              nargs = Len(options.list) /\ RootFirst /\ DocRead
        /\ phase = "load" => open = <<"done">> /\ yamlw = 1
        /\ phase \in {"args", "parse", "load", "run"} => started = NotStarted
        /\ phase \in {"run", "serve", "listen"} =>
              FileOptions(options.list, Len(doc))
        /\ phase \in {"serve", "listen"} => PromptRead
        /\ phase = "listen" => PortRead

\* A document's pairs, one of which gets its value, or one more.
LEMMA DocumentedSeq ==
    ASSUME YamlTypes, doc \in Seq(DocPair), NEW v \in Text \cup {None},
           Documented(v), InRootMapping => Here \in {"key", "value"},
           Here = "key" => v \in Text,
           InRootMapping /\ Here = "value" => Len(doc) >= 1
    PROVE  /\ doc' \in Seq(DocPair)
           /\ ~InRootMapping => doc' = doc
           /\ InRootMapping /\ Here = "key" =>
                 /\ Len(doc') = Len(doc) + 1
                 /\ \A i \in 1..Len(doc) : doc'[i] = doc[i]
                 /\ doc'[Len(doc) + 1] = [key |-> v, val |-> None]
           /\ InRootMapping /\ Here = "value" =>
                 /\ Len(doc') = Len(doc)
                 /\ \A i \in 1..(Len(doc) - 1) : doc'[i] = doc[i]
                 /\ doc'[Len(doc)].key = doc[Len(doc)].key
                 /\ doc'[Len(doc)].val = v
  <1>1. Len(doc) \in Nat
    BY LenProperties
  <1>2. CASE ~InRootMapping
    BY <1>2 DEF Documented
  <1>3. CASE InRootMapping /\ Here = "key"
    <2> DEFINE x == [key |-> v, val |-> None]
    <2>1. x \in DocPair
      BY <1>3 DEF DocPair
    <2>2. doc' = Append(doc, x)
      BY <1>3 DEF Documented
    <2> HIDE DEF x
    <2>3. /\ doc' \in Seq(DocPair) /\ Len(doc') = Len(doc) + 1
          /\ \A i \in 1..Len(doc) : doc'[i] = doc[i]
          /\ doc'[Len(doc) + 1] = x
      BY <2>1, <2>2, AppendSeq
    <2> QED
      BY <1>3, <2>3 DEF x
  <1>4. CASE InRootMapping /\ Here = "value"
    <2> DEFINE n == Len(doc)
               x == [doc[n] EXCEPT !.val = v]
    <2>1. n \in 1..Len(doc)
      BY <1>1, <1>4
    <2>2. doc[n] \in DocPair
      BY <2>1, ElementOfSeq
    <2>3. x \in DocPair /\ x.key = doc[n].key /\ x.val = v
      BY <2>2 DEF DocPair
    <2>4. doc' = [doc EXCEPT ![n] = x]
      <3>1. Here # "key"
        BY <1>4
      <3>2. doc' = [doc EXCEPT ![n].val = v]
        BY <1>4, <3>1 DEF Documented
      <3> QED
        BY <2>1, <3>2
    <2> HIDE DEF x
    <2>5. /\ [doc EXCEPT ![n] = x] \in Seq(DocPair)
          /\ Len([doc EXCEPT ![n] = x]) = Len(doc)
          /\ \A i \in 1..Len(doc) :
                 [doc EXCEPT ![n] = x][i] = IF i = n THEN x ELSE doc[i]
      BY <2>1, <2>3, ExceptSeq
    <2>6. \A i \in 1..(n - 1) : i \in 1..Len(doc) /\ i # n
      BY <1>1, <2>1
    <2> QED
      BY <1>4, <2>1, <2>3, <2>4, <2>5, <2>6
  <1> QED
    BY <1>2, <1>3, <1>4

\* The node on top of the stack is the root, or the root is not concerned.
LEMMA RootFacts ==
    ASSUME YamlTypes, Parsing, RootFirst, Here \in {"key", "value", "item"}
    PROVE  /\ Len(open) >= 2 /\ Len(pstack) = Len(open) - 1
           /\ stack_peek(pstack) \in 1..Len(nodes)
           /\ stack_peek(pstack) = 1 <=> Len(open) = 2
           /\ 1 \in 1..Len(nodes) /\ pstack[1] = 1
           /\ TopIs("mapping") <=> Here \in {"key", "value"}
           /\ TopIs("sequence") <=> Here = "item"
           /\ InRootMapping <=> Len(open) = 2 /\ Here \in {"key", "value"}
           /\ InRootMapping => RootIsMapping
           /\ Len(open) = 2 /\ RootIsMapping => InRootMapping
  <1> DEFINE n == Len(open)
             k == Len(pstack)
  <1>1. /\ n \in Nat /\ k \in Nat /\ Len(nodes) \in Nat
        /\ n >= 1 /\ k = n - 1 /\ pstack # <<>>
        /\ TopIs("mapping") <=> Here \in {"key", "value"}
        /\ TopIs("sequence") <=> Here = "item"
    <2>1. n \in Nat /\ k \in Nat /\ Len(nodes) \in Nat
      BY LenProperties DEF YamlTypes
    <2> HIDE DEF n, k
    <2> QED
      BY <2>1, TopFacts DEF n, k
  <1>2. k # 0
    BY <1>1, EmptySeq DEF YamlTypes
  <1>3. k \in 1..Len(pstack) /\ 1 \in 1..Len(pstack) /\ n >= 2
    <2>1. k = Len(pstack)
      OBVIOUS
    <2> HIDE DEF n, k
    <2> QED
      BY <1>1, <1>2, <2>1
  <1>4. stack_peek(pstack) = pstack[k]
    BY DEF stack_peek
  <1>5. pstack[k] \in 1..Len(nodes) /\ pstack[1] \in 1..Len(nodes)
    BY <1>3 DEF Parsing
  <1>6. pstack[1] = 1 /\ (pstack[k] = 1 <=> k = 1)
    BY <1>3 DEF RootFirst
  <1>7. n = 2 <=> k = 1
    <2> HIDE DEF n, k
    <2> QED
      BY <1>1, <1>3
  <1>8. n = 2 => (nodes[1].type = "mapping" <=> Here \in {"key", "value"})
    <2> SUFFICES ASSUME n = 2
                 PROVE  nodes[1].type = "mapping" <=> Here \in {"key", "value"}
      OBVIOUS
    <2>1. 2 \in 2..Len(open) /\ 2 - 1 = 1
      OBVIOUS
    <2>2. nodes[pstack[1]].type = IF open[2] = "item" THEN "sequence" ELSE "mapping"
      BY <2>1 DEF Parsing, InStep
    <2>3. Here = open[2]
      BY DEF Here, stack_peek
    <2> QED
      BY <1>6, <2>2, <2>3
  <1>9. InRootMapping <=> n = 2 /\ nodes[1].type = "mapping"
    BY DEF InRootMapping
  <1>10. RootIsMapping <=> nodes[1].type = "mapping"
    <2>1. Len(nodes) >= 1
      BY <1>1, <1>5
    <2> QED
      BY <2>1 DEF RootIsMapping
  <1> QED
    BY <1>1, <1>3, <1>4, <1>5, <1>6, <1>7, <1>8, <1>9, <1>10

\* A node that is hung into an open collection is the value of the pair that
\* waits for one if the collection is the root, and else none of its pairs'.
LEMMA HangReads ==
    ASSUME YamlTypes, Parsing, RootFirst, DocRead, doc \in Seq(DocPair),
           Here \in {"value", "item"},
           NEW type \in {"scalar", "mapping", "sequence"},
           NEW v \in Text \cup {None}, type = "scalar" <=> v \in Text,
           nodes' = Hung(type, v), Documented(v), ~(Waiting')
    PROVE  doc' \in Seq(DocPair) /\ DocRead'
  <1> DEFINE p == stack_peek(pstack)
             kid == [key |-> keyname, node |-> NewNode]
             old == nodes[1].kids
  <1>1. /\ p \in 1..Len(nodes) /\ (p = 1 <=> Len(open) = 2)
        /\ 1 \in 1..Len(nodes)
        /\ TopIs("mapping") \/ TopIs("sequence")
        /\ InRootMapping <=> Len(open) = 2 /\ Here = "value"
        /\ InRootMapping => RootIsMapping
        /\ Len(open) = 2 /\ RootIsMapping => InRootMapping
    BY RootFacts
  <1>2. Len(nodes) \in Nat /\ Len(doc) \in Nat /\ NewNode = Len(nodes) + 1
    BY LenProperties DEF YamlTypes, NewNode
  <1>3. /\ Len(nodes') = Len(nodes) + 1
        /\ \A i \in 1..Len(nodes) :
              /\ nodes'[i].type = nodes[i].type
              /\ nodes'[i].text = nodes[i].text
              /\ nodes'[i].kids = IF i = p THEN Append(nodes[i].kids, kid)
                                  ELSE nodes[i].kids
        /\ nodes'[NewNode].type = type /\ nodes'[NewNode].text = v
    <2>1. \A i \in 1..Len(pstack) : pstack[i] \in 1..Len(nodes)
      BY DEF Parsing
    <2> HIDE DEF YamlNode
    <2> QED
      BY <1>1, <1>2, <2>1, HungFacts
  <1>4. old \in Seq(Kid) /\ Len(old) \in Nat
    <2>1. nodes[1] \in YamlNode
      BY <1>1, ElementOfSeq DEF YamlTypes
    <2>2. nodes[1].kids \in Seq(Kid)
      <3> HIDE DEF Kid
      <3> QED
        BY <2>1 DEF YamlNode
    <2> QED
      BY <2>2, LenProperties
  <1> HIDE DEF p, kid, old
  <1>5. ASSUME NEW k, NEW d, PairOf(nodes, k, d)
        PROVE  PairOf(nodes', k, d)
    <2>1. k.node \in 1..Len(nodes) /\ k.node \in 1..Len(nodes')
      BY <1>2, <1>3, <1>5 DEF PairOf
    <2> QED
      BY <1>3, <1>5, <2>1 DEF PairOf
  <1>6. RootIsMapping' <=> RootIsMapping
    BY <1>1, <1>2, <1>3 DEF RootIsMapping
  <1>7. CASE InRootMapping
    <2>1. /\ Waiting /\ Here = "value" /\ Here # "key" /\ p = 1 /\ RootIsMapping
      BY <1>1, <1>7 DEF Waiting
    <2>2. /\ Len(doc) = Len(old) + 1
          /\ \A i \in 1..Len(old) : PairOf(nodes, old[i], doc[i])
          /\ doc[Len(doc)].key = keyname
      BY <2>1 DEF DocRead, Paired, old
    <2>3. Len(doc) >= 1
      BY <1>4, <2>2
    <2>4. /\ doc' \in Seq(DocPair) /\ Len(doc') = Len(doc)
          /\ \A i \in 1..(Len(doc) - 1) : doc'[i] = doc[i]
          /\ doc'[Len(doc)].key = doc[Len(doc)].key
          /\ doc'[Len(doc)].val = v
      BY <1>7, <2>1, <2>3, DocumentedSeq
    <2>5. nodes'[1].kids = Append(old, kid)
      BY <1>1, <1>3, <2>1 DEF old
    <2>6. /\ Len(nodes'[1].kids) = Len(old) + 1
          /\ \A i \in 1..Len(old) : nodes'[1].kids[i] = old[i]
          /\ nodes'[1].kids[Len(old) + 1] = kid
      <3>1. kid \in Kid
        BY <1>2 DEF kid, Kid, YamlTypes
      <3> QED
        BY <1>4, <2>5, <3>1, AppendSeq
    <2>7. PairOf(nodes', kid, doc'[Len(doc)])
      <3>1. kid.key = keyname /\ kid.node = NewNode
        BY DEF kid
      <3>2. NewNode \in 1..Len(nodes')
        BY <1>2, <1>3
      <3>3. type # "scalar" => v = None
        OBVIOUS
      <3> QED
        BY <1>3, <2>2, <2>4, <3>1, <3>2, <3>3 DEF PairOf
    <2>8. ASSUME NEW i \in 1..(Len(old) + 1)
          PROVE  PairOf(nodes', nodes'[1].kids[i], doc'[i])
      <3>1. CASE i = Len(old) + 1
        BY <2>2, <2>6, <2>7, <3>1
      <3>2. CASE i # Len(old) + 1
        <4>1. i \in 1..Len(old) /\ i \in 1..(Len(doc) - 1)
          BY <1>4, <2>2, <3>2
        <4> QED
          BY <1>5, <2>2, <2>4, <2>6, <4>1
      <3> QED
        BY <3>1, <3>2
    <2>9. Paired'
      BY <2>2, <2>4, <2>6, <2>8 DEF Paired
    <2> QED
      BY <1>6, <2>1, <2>4, <2>9 DEF DocRead
  <1>8. CASE ~InRootMapping
    <2>1. doc' = doc
      BY <1>8 DEF Documented
    <2>2. CASE RootIsMapping
      <3>1. ~Waiting /\ p # 1
        BY <1>1, <1>8, <2>2 DEF Waiting
      <3>2. /\ Len(doc) = Len(old)
            /\ \A i \in 1..Len(old) : PairOf(nodes, old[i], doc[i])
        BY <2>2, <3>1 DEF DocRead, Paired, old
      <3>3. nodes'[1].kids = old
        BY <1>1, <1>3, <3>1 DEF old
      <3>4. \A i \in 1..Len(old) : PairOf(nodes', old[i], doc[i])
        BY <1>5, <3>2
      <3>5. Paired'
        BY <2>1, <3>2, <3>3, <3>4 DEF Paired
      <3> QED
        BY <1>6, <2>1, <2>2, <3>5 DEF DocRead
    <2>3. CASE ~RootIsMapping
      BY <1>6, <2>1, <2>3 DEF DocRead
    <2> QED
      BY <2>1, <2>2, <2>3
  <1> QED
    BY <1>7, <1>8

\* A name of the root is a pair that waits for its value.
LEMMA KeyReads ==
    ASSUME YamlTypes, Parsing, RootFirst, DocRead, doc \in Seq(DocPair),
           Here = "key", NEW v \in Text, keyname' = v,
           nodes' = nodes, Documented(v), open' = NextHere
    PROVE  doc' \in Seq(DocPair) /\ DocRead'
  <1>1. /\ Len(open) >= 2
        /\ InRootMapping <=> Len(open) = 2
        /\ InRootMapping => RootIsMapping
        /\ Len(open) = 2 /\ RootIsMapping => InRootMapping
    BY RootFacts
  <1>2. Len(open') = Len(open) /\ Here' = "value" /\ Len(doc) \in Nat
    <2>1. Len(open) >= 1
      BY <1>1, LenProperties DEF YamlTypes
    <2> QED
      BY <2>1, NextHereFacts, LenProperties DEF Here, stack_peek
  <1>3. ~Waiting /\ (Waiting' <=> Len(open) = 2)
    BY <1>2 DEF Waiting
  <1>4. RootIsMapping' <=> RootIsMapping
    BY DEF RootIsMapping
  <1>5. CASE InRootMapping
    <2>1. /\ doc' \in Seq(DocPair) /\ Len(doc') = Len(doc) + 1
          /\ \A i \in 1..Len(doc) : doc'[i] = doc[i]
          /\ doc'[Len(doc) + 1] = [key |-> v, val |-> None]
      <3>1. v \in Text \cup {None} /\ Here # "value"
        OBVIOUS
      <3> QED
        BY <1>5, <3>1, DocumentedSeq
    <2>2. /\ Len(doc) = Len(nodes[1].kids)
          /\ \A i \in 1..Len(nodes[1].kids) :
                PairOf(nodes, nodes[1].kids[i], doc[i])
      BY <1>1, <1>3, <1>5 DEF DocRead, Paired
    <2>3. doc'[Len(doc')].val = None /\ doc'[Len(doc')].key = keyname'
      BY <2>1
    <2>4. Paired'
      BY <1>1, <1>3, <1>5, <2>1, <2>2, <2>3 DEF Paired
    <2> QED
      BY <1>1, <1>4, <1>5, <2>1, <2>4 DEF DocRead
  <1>6. CASE ~InRootMapping
    <2>1. doc' = doc /\ ~(Waiting')
      BY <1>1, <1>3, <1>6 DEF Documented
    <2>2. RootIsMapping => Paired'
      BY <1>3, <2>1 DEF DocRead, Paired
    <2> QED
      BY <1>4, <2>1, <2>2 DEF DocRead
  <1> QED
    BY <1>5, <1>6

\* The node of the root is the first one.
LEMMA RootReads ==
    ASSUME YamlTypes, Parsing, RootFirst, DocRead, Here = "root",
           NEW type \in {"scalar", "mapping", "sequence"},
           NEW v \in Text \cup {None},
           nodes' = Hung(type, v), Documented(v), ~(Waiting')
    PROVE  /\ doc' = <<>> /\ DocRead'
           /\ nodes = <<>> /\ pstack = <<>> /\ NewNode = 1
  <1>1. Len(open) = 1 /\ pstack = <<>> /\ open[1] = "root"
    BY TopFacts DEF Here, stack_peek
  <1>2. nodes = <<>>
    BY <1>1 DEF RootFirst
  <1>3. Len(nodes) = 0 /\ NewNode = 1
    BY <1>2 DEF NewNode
  <1>4. doc = <<>>
    BY <1>3 DEF DocRead, RootIsMapping
  <1>5. doc' = <<>>
    BY <1>1, <1>4 DEF Documented, InRootMapping
  <1>6. nodes'[1].kids = <<>>
    <2>1. \A i \in 1..Len(pstack) : pstack[i] \in 1..Len(nodes)
      BY DEF Parsing
    <2>2. Hung(type, v)[Len(nodes) + 1].kids = <<>>
      <3> HIDE DEF YamlNode
      <3> QED
        BY <2>1, HungFacts
    <2> QED
      BY <1>3, <2>2
  <1>7. Len(doc') = 0 /\ Len(nodes'[1].kids) = 0 /\ 1..0 = {}
    BY <1>5, <1>6, EmptySeq
  <1>8. Paired'
    BY <1>7 DEF Paired
  <1> QED
    BY <1>1, <1>2, <1>3, <1>5, <1>8 DEF DocRead

\* The document goes on below its root.
LEMMA RootStays ==
    ASSUME YamlTypes, Parsing, RootFirst, Here \in {"key", "value", "item"},
           Len(open') = Len(open), open'[1] = NextHere[1], pstack' = pstack
    PROVE  RootFirst'
  <1>1. Len(open) >= 2 /\ Len(open) \in Nat
    BY RootFacts, LenProperties DEF YamlTypes
  <1>2. 1 \in 1..(Len(open) - 1) /\ Len(open) >= 1
    BY <1>1
  <1>3. NextHere[1] = open[1]
    BY <1>2, NextHereFacts
  <1>4. open[1] = "done"
    <2>1. open[1] \in {"done", "key", "item"} /\ open[1] \in {"root", "done"}
      BY <1>2 DEF Parsing, InStep
    <2> QED
      BY <2>1
  <1>5. open' # <<"done">>
    <2>1. Len(<<"done">>) = 1 /\ Len(open') # 1
      BY <1>1
    <2> QED
      BY <2>1, Zenon
  <1> QED
    BY <1>3, <1>4, <1>5 DEF RootFirst

\* A node that is pushed on the stack below an open root is not the root.
LEMMA RootBelow ==
    ASSUME YamlTypes, Parsing, RootFirst, Here \in {"value", "item"},
           ~stack_is_full(pstack), pstack' = Pushed(pstack, NewNode),
           NEW place \in Place, open' = Append(NextHere, place)
    PROVE  RootFirst' /\ Len(open') >= 3
  <1>1. /\ Len(open) >= 2 /\ Len(pstack) = Len(open) - 1
        /\ 1 \in 1..Len(nodes)
    BY RootFacts
  <1>2. /\ Len(open) \in Nat /\ Len(nodes) \in Nat /\ Len(pstack) \in Nat
        /\ pstack \in Seq(Nat)
        /\ NewNode = Len(nodes) + 1
    BY LenProperties DEF YamlTypes, NewNode
  <1>3. /\ NextHere \in Seq(Place) /\ Len(NextHere) = Len(open)
        /\ NextHere[1] = open[1]
    <2>1. Len(open) >= 1 /\ 1 \in 1..(Len(open) - 1)
      BY <1>1, <1>2
    <2> QED
      BY <2>1, NextHereFacts
  <1>4. Len(open') = Len(open) + 1 /\ open'[1] = open[1]
    <2>1. 1 \in 1..Len(NextHere)
      BY <1>1, <1>2, <1>3
    <2> HIDE DEF Place
    <2> QED
      BY <1>3, <2>1, AppendSeq
  <1>5. open[1] # "root" /\ open' # <<"done">>
    <2> HIDE DEF Place
    <2>1. Len(<<"done">>) = 1 /\ Len(open') # 1 /\ Len(open) # 1
      <3>1. Len(open) >= 2 /\ Len(open) \in Nat /\ Len(open') = Len(open) + 1
        BY <1>1, <1>2, <1>4
      <3>2. Len(open') # 1 /\ Len(open) # 1
        BY <3>1
      <3> QED
        BY <3>2
    <2>2. open[1] = "root" => Len(open) = 1
      BY DEF Parsing, RootSeen
    <2> QED
      BY <2>1, <2>2, Zenon
  <1>6. /\ Len(pstack') = Len(pstack) + 1
        /\ \A i \in 1..Len(pstack) : pstack'[i] = pstack[i]
        /\ pstack'[Len(pstack) + 1] = NewNode
    <2>1. NewNode \in Nat
      BY <1>2
    <2>2. pstack' = Append(pstack, NewNode)
      BY DEF Pushed
    <2>3. /\ Len(Append(pstack, NewNode)) = Len(pstack) + 1
          /\ \A i \in 1..Len(pstack) : Append(pstack, NewNode)[i] = pstack[i]
          /\ Append(pstack, NewNode)[Len(pstack) + 1] = NewNode
      BY <1>2, <2>1, AppendSeq
    <2> QED
      BY <2>2, <2>3, Zenon
  <1>7. \A i \in 1..Len(pstack') : pstack'[i] = 1 <=> i = 1
    <2> TAKE i \in 1..Len(pstack')
    <2>1. CASE i = Len(pstack) + 1
      <3>1. NewNode # 1 /\ i # 1
        BY <1>1, <1>2, <2>1
      <3> QED
        BY <1>6, <2>1, <3>1
    <2>2. CASE i # Len(pstack) + 1
      <3>1. i \in 1..Len(pstack)
        BY <1>2, <1>6, <2>2
      <3> QED
        BY <1>6, <3>1 DEF RootFirst
    <2> QED
      BY <2>1, <2>2
  <1> QED
    BY <1>1, <1>2, <1>4, <1>5, <1>7 DEF RootFirst

\* A stack with the root alone.
LEMMA RootAlone ==
    ASSUME YamlTypes, pstack = <<>>, NewNode = 1, ~stack_is_full(pstack),
           pstack' = Pushed(pstack, NewNode), open'[1] = "done"
    PROVE  RootFirst'
  <1>1. pstack' = Append(pstack, NewNode) /\ Len(pstack) = 0
        /\ pstack \in Seq(Nat) /\ 1 \in Nat
    BY EmptySeq DEF Pushed
  <1>2. Len(pstack') = 1 /\ pstack'[1] = 1
    <2>1. /\ Len(Append(pstack, 1)) = Len(pstack) + 1
          /\ Append(pstack, 1)[Len(pstack) + 1] = 1
      BY <1>1, AppendSeq
    <2>2. Len(pstack) + 1 = 1
      BY <1>1
    <2> QED
      BY <1>1, <2>1, <2>2
  <1>3. pstack' # <<>>
    BY <1>2, EmptySeq
  <1>4. \A i \in 1..Len(pstack') : pstack'[i] = 1 <=> i = 1
    BY <1>2
  <1>5. Len(pstack') <= 1 /\ open'[1] # "root"
    BY <1>2
  <1> QED
    BY <1>3, <1>4, <1>5, Zenon DEF RootFirst

\* Every scalar is documented as the parser takes it.
LEMMA ScalarReads ==
    ASSUME YamlTypes, Parsing, RootFirst, DocRead, doc \in Seq(DocPair),
           NEW v \in Text, Scalar(v), odd' = {}
    PROVE  doc' \in Seq(DocPair) /\ DocRead' /\ RootFirst'
  <1>1. /\ Here \in {"root", "key", "value", "item"} /\ open' = NextHere
        /\ ~stack_is_full(pstack) /\ Documented(v) /\ v \in Text \cup {None}
        /\ ScalarIsKey(v) \/ ScalarIsLeaf(v) \/ ScalarIsRoot(v)
    BY DEF Scalar, NodeExpected, Deep
  <1>2. /\ Here = "root" => Len(open) = 1 /\ pstack = <<>>
        /\ TopIs("mapping") <=> Here \in {"key", "value"}
        /\ ~TopIs("scalar") /\ Len(open) >= 1
        /\ BadKeyname <=> Here = "key"
        /\ stack_is_empty(pstack) <=> Here = "root"
    BY <1>1, TopFacts
  <1>3. expectValue = (Here = "value")
    BY DEF Parsing, InStep
  <1>4. /\ Len(open) \in Nat /\ Len(open') = Len(open)
        /\ Here = "root" => Here' = "done" /\ open'[1] = "done"
        /\ Here = "key" => Here' = "value"
        /\ Here = "value" => Here' = "key"
        /\ Here = "item" => Here' = "item"
    BY <1>1, <1>2, NextHereFacts, LenProperties DEF Here, stack_peek, YamlTypes
  <1>5. Here # "root" => Len(open) >= 2
    BY <1>1, RootFacts
  <1>6. CASE ScalarIsKey(v)
    <2>1. Here = "key"
      BY <1>1, <1>2, <1>3, <1>6 DEF ScalarIsKey
    <2>2. nodes' = nodes /\ pstack' = pstack /\ keyname' = v
      BY <1>6 DEF ScalarIsKey
    <2>3. RootFirst'
      BY <1>1, <1>4, <1>5, <2>1, <2>2, RootStays
    <2> QED
      BY <1>1, <2>1, <2>2, <2>3, KeyReads
  <1>7. CASE ScalarIsLeaf(v)
    <2>1. Here \in {"value", "item"}
      BY <1>1, <1>2, <1>3, <1>7 DEF ScalarIsLeaf
    <2>2. ~(BadKeyname \/ TopIs("scalar"))
      BY <1>2, <2>1
    <2>3. nodes' = Hung("scalar", v) /\ pstack' = pstack
      BY <1>1, <1>7, <2>2, PushedAndPopped DEF ScalarIsLeaf
    <2>4. ~(Waiting')
      BY <1>4, <2>1 DEF Waiting
    <2>5. "scalar" \in {"scalar", "mapping", "sequence"}
      OBVIOUS
    <2>6. RootFirst'
      BY <1>1, <1>4, <1>5, <2>1, <2>3, RootStays
    <2> QED
      BY <1>1, <2>1, <2>3, <2>4, <2>5, <2>6, HangReads
  <1>8. CASE ScalarIsRoot(v)
    <2>1. Here = "root"
      BY <1>2, <1>8 DEF ScalarIsRoot
    <2>2. nodes' = Hung("scalar", v) /\ pstack' = Pushed(pstack, NewNode)
      BY <1>8 DEF ScalarIsRoot
    <2>3. ~(Waiting')
      BY <1>4, <2>1 DEF Waiting
    <2>4. "scalar" \in {"scalar", "mapping", "sequence"}
      OBVIOUS
    <2>5. /\ doc' = <<>> /\ DocRead'
          /\ pstack = <<>> /\ NewNode = 1
      BY <1>1, <2>1, <2>2, <2>3, <2>4, RootReads
    <2>6. RootFirst'
      BY <1>1, <1>4, <2>1, <2>2, <2>5, RootAlone
    <2> QED
      BY <2>5, <2>6, EmptySeq
  <1> QED
    BY <1>1, <1>6, <1>7, <1>8

\* Every collection is documented as the parser takes it.
LEMMA CollectionReads ==
    ASSUME YamlTypes, Parsing, RootFirst, DocRead, doc \in Seq(DocPair),
           MappingStart \/ SequenceStart, odd' = {}
    PROVE  doc' \in Seq(DocPair) /\ DocRead' /\ RootFirst'
  <1>1. /\ Here \in {"root", "value", "item"} /\ ~stack_is_full(pstack)
        /\ Documented(None) /\ None \notin Text /\ None \in Text \cup {None}
    BY ConfigAssumption
    DEF MappingStart, SequenceStart, NodeExpected, Deep, OddKey
  <1>2. ~BadKeyname /\ Len(open) >= 1
    BY <1>1, TopFacts
  <1>3. PICK type \in {"mapping", "sequence"}, place \in {"key", "item"} :
           /\ nodes' = Hung(type, None) /\ pstack' = Pushed(pstack, NewNode)
           /\ open' = Append(NextHere, place)
    <2>1. CASE MappingStart
      BY <1>2, <2>1 DEF MappingStart, parser_stack_push
    <2>2. CASE SequenceStart
      BY <1>2, <2>2 DEF SequenceStart, parser_stack_push
    <2> QED
      BY <2>1, <2>2
  <1>4. /\ type \in {"scalar", "mapping", "sequence"} /\ type # "scalar"
        /\ place \in Place
    BY DEF Place
  <1>5. /\ NextHere \in Seq(Place) /\ Len(NextHere) = Len(open)
        /\ Here = "root" => NextHere[Len(open)] = "done"
        /\ Len(open) \in Nat
    BY <1>1, <1>2, NextHereFacts, LenProperties DEF YamlTypes
  <1>6. ~(Waiting')
    <2>1. stack_peek(open') = place
      BY <1>3, <1>4, <1>5, AppendSeq
    <2> QED
      BY <2>1 DEF Waiting, Here
  <1>7. CASE Here = "root"
    <2>1. Len(open) = 1
      BY <1>7, TopFacts
    <2>2. open'[1] = "done"
      <3>1. 1 \in 1..Len(NextHere)
        BY <1>5, <2>1
      <3> HIDE DEF Place
      <3> QED
        BY <1>3, <1>4, <1>5, <1>7, <2>1, <3>1, AppendSeq
    <2>3. /\ doc' = <<>> /\ DocRead' /\ pstack = <<>> /\ NewNode = 1
      BY <1>1, <1>3, <1>4, <1>6, <1>7, RootReads
    <2>4. RootFirst'
      BY <1>1, <1>3, <2>2, <2>3, RootAlone
    <2> QED
      BY <2>3, <2>4, EmptySeq
  <1>8. CASE Here \in {"value", "item"}
    <2>1. RootFirst'
      BY <1>1, <1>3, <1>4, <1>8, RootBelow
    <2> QED
      BY <1>1, <1>3, <1>4, <1>6, <1>8, <2>1, HangReads
  <1> QED
    BY <1>1, <1>7, <1>8

\* The end of a collection: only the root's takes the root off the stack.
LEMMA EndReads ==
    ASSUME YamlTypes, Parsing, RootFirst, DocRead, CollectionEnd
    PROVE  DocRead' /\ RootFirst'
  <1> DEFINE n == Len(open)
             k == Len(pstack)
  <1>1. /\ Here \in {"key", "item"} /\ open' = BelowTop(open)
        /\ nodes' = nodes /\ doc' = doc
    BY DEF CollectionEnd
  <1>2. /\ n \in Nat /\ k \in Nat /\ n >= 2 /\ k = n - 1 /\ pstack # <<>>
        /\ pstack[1] = 1 /\ open \in Seq(Place) /\ pstack \in Seq(Nat)
    <2>1. n \in Nat /\ k \in Nat /\ open \in Seq(Place) /\ pstack \in Seq(Nat)
      BY LenProperties DEF YamlTypes
    <2> HIDE DEF n, k
    <2> QED
      BY <1>1, <2>1, RootFacts, TopFacts DEF n, k
  <1>3. /\ pstack' = BelowTop(pstack) /\ yamlw' = pstack[k]
    BY <1>2 DEF CollectionEnd, Popped, stack_is_empty, stack_peek
  <1>4. /\ Len(open') = n - 1 /\ Len(pstack') = k - 1
        /\ \A i \in 1..(n - 1) : open'[i] = open[i]
        /\ \A i \in 1..(k - 1) : pstack'[i] = pstack[i]
    <2>1. Len(open) >= 1 /\ Len(pstack) >= 1
      BY <1>2
    <2> HIDE DEF Place
    <2> QED
      BY <1>1, <1>2, <1>3, <2>1, FrontSeq
  <1>5. open[1] = "done" /\ \A i \in 1..(n - 1) : open[i] \in {"done", "key", "item"}
    <2>1. \A i \in 1..(n - 1) : open[i] \in {"done", "key", "item"}
      BY DEF Parsing, InStep
    <2>2. 1 \in 1..(n - 1) /\ open[1] \in {"root", "done"}
      BY <1>2 DEF Parsing, InStep
    <2> QED
      BY <2>1, <2>2
  <1>6. ~Waiting /\ ~(Waiting')
    <2>1. n - 1 \in 1..(n - 1) /\ Here' = open'[n - 1]
      BY <1>2, <1>4 DEF Here, stack_peek
    <2> QED
      BY <1>1, <1>4, <1>5, <2>1 DEF Waiting
  <1>7. DocRead'
    BY <1>1, <1>6 DEF DocRead, RootIsMapping, Paired
  <1>8. open'[1] = "done"
    <2>1. 1 \in 1..(n - 1)
      BY <1>2
    <2> QED
      BY <1>4, <1>5, <2>1
  <1>9. \A i \in 1..Len(pstack') : pstack'[i] = 1 <=> i = 1
    <2>1. \A i \in 1..(k - 1) : i \in 1..Len(pstack)
      BY <1>2
    <2> QED
      BY <1>4, <2>1 DEF RootFirst
  <1>10. open' = <<"done">> => Len(pstack') <= 1 /\ yamlw' = 1
    <2> SUFFICES ASSUME open' = <<"done">>
                 PROVE  Len(pstack') <= 1 /\ yamlw' = 1
      OBVIOUS
    <2>1. Len(open') = 1
      OBVIOUS
    <2>2. k = 1
      <3> HIDE DEF n, k
      <3> QED
        BY <1>2, <1>4, <2>1
    <2> QED
      BY <1>2, <1>3, <1>4, <2>2
  <1> QED
    BY <1>7, <1>8, <1>9, <1>10 DEF RootFirst

\* What is loaded is the root.
LEMMA DocumentReads ==
    ASSUME YamlTypes, RootFirst, DocRead, DocumentEnd
    PROVE  DocRead' /\ RootFirst' /\ open' = <<"done">> /\ yamlw' = 1
  <1>1. /\ open = <<"done">> /\ open' = open /\ nodes' = nodes /\ doc' = doc
        /\ yamlw' = IF stack_is_empty(pstack) THEN yamlw ELSE stack_peek(pstack)
        /\ pstack' = Popped(pstack)
        /\ pstack \in Seq(Nat) /\ Len(pstack) \in Nat
    BY LenProperties DEF DocumentEnd, source, YamlTypes
  <1>2. Len(open) = 1 /\ ~Waiting
    BY <1>1 DEF Waiting
  <1>3. DocRead'
    BY <1>1, <1>2 DEF DocRead, RootIsMapping, Paired, Waiting
  <1>4. yamlw' = 1 /\ Len(pstack') = 0
    <2>1. CASE pstack = <<>>
      BY <1>1, <2>1, EmptySeq DEF RootFirst, stack_is_empty, Popped
    <2>2. CASE pstack # <<>>
      <3>1. Len(pstack) = 1
        <4>1. Len(pstack) <= 1 /\ Len(pstack) # 0
          BY <1>1, <2>2, EmptySeq DEF RootFirst
        <4> QED
          BY <1>1, <4>1
      <3>2. pstack' = BelowTop(pstack) /\ yamlw' = pstack[1]
        BY <1>1, <2>2, <3>1 DEF Popped, stack_is_empty, stack_peek
      <3>3. Len(pstack') = 0
        <4>1. Len(pstack) >= 1 /\ pstack \in Seq(Nat)
          BY <1>1, <3>1
        <4>2. /\ BelowTop(pstack) \in Seq(Nat)
              /\ Len(BelowTop(pstack)) = Len(pstack) - 1
          BY <4>1, FrontSeq
        <4> QED
          BY <3>1, <3>2, <4>2
      <3>4. pstack[1] = 1
        BY <3>1 DEF RootFirst
      <3> QED
        BY <3>2, <3>3, <3>4
    <2> QED
      BY <2>1, <2>2
  <1>5. RootFirst'
    <2>1. open'[1] = "done" /\ 1..0 = {} /\ 0 <= 1
      BY <1>1
    <2> QED
      BY <1>4, <2>1 DEF RootFirst
  <1> QED
    BY <1>1, <1>3, <1>4, <1>5

\* The table of options: what ht_add_entry makes of it, ...
LEMMA OptionAddedTable ==
    ASSUME NEW o, OptionTable(o), NEW k \in Text, NEW v \in Text
    PROVE  /\ OptionTable(OptionAdded(o, k, v))
           /\ OptionAdded(o, k, v).list = Append(o.list, [key |-> k, text |-> v])
  <1> DEFINE x == [key |-> k, text |-> v]
             list == Append(o.list, x)
             n == Len(o.list)
             e == Entry(k, n + 1)
             t == TableAdded(o.tbl, e)
             a == Placed(o.list)
  <1>1. x \in Option /\ x.key = k
    BY DEF Option
  <1>2. o.list \in Seq(Option) /\ n \in Nat
    BY LenProperties DEF OptionTable
  <1> HIDE DEF x
  <1>3. /\ list \in Seq(Option) /\ Len(list) = n + 1 /\ list[n + 1] = x
        /\ \A i \in 1..n : list[i] = o.list[i]
    BY <1>1, <1>2, AppendSeq
  <1>4. /\ a \in Seq(HEntry) /\ Len(a) = n
        /\ TableInv(o.tbl, a, o.turned)
        /\ \A i \in 1..n : a[i] = Entry(o.list[i].key, i)
    <2>1. TableInv(o.tbl, a, o.turned)
      BY DEF OptionTable
    <2>2. a = [i \in 1..n |-> Entry(o.list[i].key, i)]
      BY DEF Placed
    <2>3. a \in Seq(HEntry)
      BY <2>1 DEF TableInv
    <2> HIDE DEF a, n
    <2>4. Len(a) = n
      <3>1. Len(a) \in Nat /\ DOMAIN a = 1..Len(a)
        BY <2>3, LenProperties
      <3> QED
        BY <1>2, <2>2, <3>1
    <2> QED
      BY <2>1, <2>2, <2>3, <2>4
  <1>5. e \in HEntry /\ e.data = n + 1
    <2>1. k \in DOMAIN Hash
      BY ConfigAssumption
    <2> QED
      BY <1>2, <2>1 DEF Entry, HEntry
  <1> HIDE DEF a, n, list
  <1>6. \A i \in 1..Len(a) : a[i].data # e.data
    BY <1>2, <1>4, <1>5 DEF Entry
  <1>7. Placed(list) = Append(a, e)
    <2>1. Append(a, e) \in Seq(HEntry) /\ Len(Append(a, e)) = n + 1
      BY <1>4, <1>5
    <2>2. /\ \A i \in 1..n : Append(a, e)[i] = a[i]
          /\ Append(a, e)[n + 1] = e
      BY <1>4, <1>5
    <2>3. \A i \in 1..(n + 1) : i \in 1..n \/ i = n + 1
      BY <1>2
    <2>4. \A i \in 1..(n + 1) : Append(a, e)[i] = Entry(list[i].key, i)
      BY <1>1, <1>3, <1>4, <2>2, <2>3 DEF n
    <2> HIDE DEF e
    <2>5. Append(a, e) = [i \in 1..(n + 1) |-> Append(a, e)[i]]
      <3> DEFINE b == Append(a, e)
      <3>1. b \in Seq(HEntry) /\ Len(b) = n + 1
        BY <2>1
      <3> HIDE DEF b
      <3>2. b \in [1..(n + 1) -> HEntry]
        BY <3>1, LenProperties
      <3>3. b = [i \in 1..(n + 1) |-> b[i]]
        BY <3>2
      <3> QED
        BY <3>3 DEF b
    <2> QED
      BY <1>3, <2>4, <2>5 DEF Placed
  <1> HIDE DEF e, t
  <1>8. TableInv(t, Append(a, e), Turned(o.turned, Grown(o.tbl, t)))
    BY <1>4, <1>5, <1>6, TableAddedInv DEF t
  <1>9. OptionAdded(o, k, v) =
           [list |-> list, tbl |-> t, turned |-> Turned(o.turned, Grown(o.tbl, t))]
    BY DEF OptionAdded, t, e, n, list, x
  <1>10. /\ OptionAdded(o, k, v).list = list /\ OptionAdded(o, k, v).tbl = t
         /\ OptionAdded(o, k, v).turned = Turned(o.turned, Grown(o.tbl, t))
    BY <1>9
  <1>11. OptionTable(OptionAdded(o, k, v))
    BY <1>3, <1>7, <1>8, <1>10 DEF OptionTable
  <1> QED
    BY <1>10, <1>11 DEF list, x

\* ... and what ht_has_entry and ht_get_entry find in it.
OptionIn(o, k) ==
    \/ ~HasOption(o, k) /\ \A p \in 1..Len(o.list) : o.list[p].key # k
    \/ \E p \in 1..Len(o.list) :
          /\ HasOption(o, k) /\ o.list[p].key = k
          /\ HashFind(o.tbl, k)[1].data = p
          /\ FoundOf({q \in 1..Len(o.list) : o.list[q].key = k}, p, o.turned)
LEMMA OptionFound ==
    ASSUME NEW o, OptionTable(o), NEW k \in Text
    PROVE  OptionIn(o, k)
  <1> DEFINE a == Placed(o.list)
             n == Len(o.list)
  <1>1. TableInv(o.tbl, a, o.turned) /\ k \in DOMAIN Hash
    BY ConfigAssumption DEF OptionTable
  <1>2. /\ Len(a) = n
        /\ \A i \in 1..n : a[i].key = o.list[i].key /\ a[i].data = i
    <2>1. n \in Nat
      BY LenProperties DEF OptionTable
    <2>2. a \in Seq(HEntry) /\ a = [i \in 1..n |-> Entry(o.list[i].key, i)]
      BY <1>1 DEF TableInv, Placed
    <2> HIDE DEF a, n
    <2>3. Len(a) \in Nat /\ DOMAIN a = 1..Len(a)
      BY <2>2, LenProperties
    <2> QED
      BY <2>1, <2>2, <2>3 DEF Entry
  <1>3. FoundIn(o.tbl, a, o.turned, k)
    BY <1>1, FoundInTable
  <1> DEFINE S == {q \in 1..n : o.list[q].key = k}
  <1>4. {q \in 1..Len(a) : a[q].key = k} = S
    BY <1>2
  <1> HIDE DEF a, n
  <1>5. CASE HashFind(o.tbl, k) = <<>> /\ \A p \in 1..Len(a) : a[p].key # k
    BY <1>2, <1>5 DEF OptionIn, HasOption, n
  <1>6. CASE \E p \in 1..Len(a) :
                /\ HashFind(o.tbl, k) = <<a[p]>> /\ a[p].key = k
                /\ FoundOf({q \in 1..Len(a) : a[q].key = k}, p, o.turned)
    <2>1. PICK p \in 1..Len(a) :
             /\ HashFind(o.tbl, k) = <<a[p]>> /\ a[p].key = k
             /\ FoundOf({q \in 1..Len(a) : a[q].key = k}, p, o.turned)
      BY <1>6, Zenon
    <2>2. FoundOf(S, p, o.turned)
      BY <1>4, <2>1
    <2>3. /\ p \in 1..n /\ o.list[p].key = k /\ HasOption(o, k)
          /\ HashFind(o.tbl, k)[1].data = p
      BY <1>2, <2>1 DEF HasOption
    <2> QED
      BY <2>2, <2>3, Zenon DEF OptionIn, n, S
  <1> QED
    BY <1>3, <1>5, <1>6, Zenon DEF FoundIn

\* load_option_from_config adds an option or nothing.
LEMMA OptionLoadedTyped ==
    ASSUME NEW kid, kid.key \in Text, nodes[kid.node].type = "scalar" =>
                                         nodes[kid.node].text \in Text,
           NEW o, OptionTable(o)
    PROVE  LET more == OptionLoaded(o, kid)
               n == Len(o.list)
           IN  /\ OptionTable(more)
               /\ \/ /\ more.list = o.list
                     /\ \/ nodes[kid.node].type # "scalar"
                        \/ \E i \in 1..n : o.list[i].key = kid.key
                  \/ /\ nodes[kid.node].type = "scalar"
                     /\ \A i \in 1..n : o.list[i].key # kid.key
                     /\ Len(more.list) = n + 1
                     /\ \A i \in 1..n : more.list[i] = o.list[i]
                     /\ more.list[n + 1] =
                           [key |-> kid.key, text |-> nodes[kid.node].text]
  <1> DEFINE x == [key |-> kid.key, text |-> nodes[kid.node].text]
             new == OptionAdded(o, kid.key, nodes[kid.node].text)
  <1>1. OptionIn(o, kid.key)
    BY OptionFound
  <1>2. CASE HasOption(o, kid.key)
    <2>1. OptionLoaded(o, kid) = o
      BY <1>2 DEF OptionLoaded
    <2>2. \E i \in 1..Len(o.list) : o.list[i].key = kid.key
      BY <1>1, <1>2 DEF OptionIn
    <2> QED
      BY <2>1, <2>2
  <1>3. CASE ~HasOption(o, kid.key) /\ nodes[kid.node].type # "scalar"
    <2>1. OptionLoaded(o, kid) = o
      BY <1>3 DEF OptionLoaded, ScalarAdded
    <2> QED
      BY <1>3, <2>1
  <1>4. CASE ~HasOption(o, kid.key) /\ nodes[kid.node].type = "scalar"
    <2>1. OptionLoaded(o, kid) = new
      BY <1>4 DEF OptionLoaded, ScalarAdded
    <2>2. \A i \in 1..Len(o.list) : o.list[i].key # kid.key
      BY <1>1, <1>4 DEF OptionIn
    <2>3. OptionTable(new) /\ new.list = Append(o.list, x)
      BY <1>4, OptionAddedTable
    <2>4. x \in Option /\ o.list \in Seq(Option)
      BY <1>4 DEF Option, OptionTable
    <2> HIDE DEF new, x
    <2>5. /\ Len(new.list) = Len(o.list) + 1
          /\ \A i \in 1..Len(o.list) : new.list[i] = o.list[i]
          /\ new.list[Len(o.list) + 1] = x
      BY <2>3, <2>4, AppendSeq
    <2> QED
      BY <1>4, <2>1, <2>2, <2>3, <2>5 DEF x
  <1> QED
    BY <1>2, <1>3, <1>4

\* One more entry of the root, one more pair of the document.
LEMMA OptionLoadedReads ==
    ASSUME doc \in Seq(DocPair), NEW i \in 1..Len(doc), NEW k,
           PairOf(nodes, k, doc[i]), NEW o, OptionTable(o),
           nargs \in 0..Len(o.list), FileOptions(o.list, i - 1)
    PROVE  LET more == OptionLoaded(o, k)
           IN  /\ OptionTable(more) /\ nargs \in 0..Len(more.list)
               /\ FileOptions(more.list, i)
  <1> DEFINE opts == o.list
             more == OptionLoaded(o, k).list
             n == Len(opts)
  <1>1. doc[i] \in DocPair
    BY ElementOfSeq
  <1>2. /\ k.key = doc[i].key /\ k.key \in Text
        /\ nodes[k.node].type = "scalar" =>
              /\ nodes[k.node].text \in Text
              /\ doc[i].val = nodes[k.node].text
        /\ nodes[k.node].type # "scalar" => doc[i].val = None
    BY <1>1 DEF PairOf, DocPair
  <1>3. /\ n \in Nat /\ i \in Nat /\ nargs \in Nat /\ nargs <= n
        /\ i - 1 \in Nat /\ i \in 1..i
        /\ \A d \in 1..i : d = i \/ d \in 1..(i - 1)
        /\ \A d \in 1..(i - 1) : d \in 1..i
    <2>1. n \in Nat /\ Len(doc) \in Nat
      BY LenProperties DEF OptionTable
    <2> HIDE DEF n
    <2> QED
      BY <2>1 DEF n
  <1>4. /\ OptionTable(OptionLoaded(o, k))
        /\ \/ /\ more = opts
              /\ \/ nodes[k.node].type # "scalar"
                 \/ \E j \in 1..n : opts[j].key = k.key
           \/ /\ nodes[k.node].type = "scalar"
              /\ \A j \in 1..n : opts[j].key # k.key
              /\ Len(more) = n + 1
              /\ \A j \in 1..n : more[j] = opts[j]
              /\ more[n + 1] = [key |-> k.key, text |-> nodes[k.node].text]
    BY <1>2, OptionLoadedTyped
  <1> HIDE DEF more, opts
  <1>5. ASSUME NEW x, FirstScalar(x, i - 1)
        PROVE  FirstScalar(x, i)
    BY <1>3, <1>5 DEF FirstScalar
  <1>6. CASE /\ more = opts
             /\ \/ nodes[k.node].type # "scalar"
                \/ \E j \in 1..n : opts[j].key = k.key
    <2>1. doc[i].val # None => \E j \in 1..n : opts[j].key = doc[i].key
      BY <1>2, <1>6
    <2>2. FileOptions(opts, i)
      BY <1>3, <1>5, <2>1 DEF FileOptions, opts
    <2> QED
      BY <1>3, <1>4, <1>6, <2>2 DEF more, opts
  <1>7. CASE /\ nodes[k.node].type = "scalar"
             /\ \A j \in 1..n : opts[j].key # k.key
             /\ Len(more) = n + 1
             /\ \A j \in 1..n : more[j] = opts[j]
             /\ more[n + 1] = [key |-> k.key, text |-> nodes[k.node].text]
    <2> DEFINE x == more[n + 1]
    <2>1. x.key = doc[i].key /\ x.text = doc[i].val
      BY <1>2, <1>7
    <2>2. FirstScalar(x, i)
      <3>1. ASSUME NEW e \in 1..(i - 1), doc[e].key = x.key, doc[e].val # None
            PROVE  FALSE
        <4>1. \E j \in 1..n : opts[j].key = doc[e].key
          BY <3>1 DEF FileOptions, opts
        <4> QED
          BY <1>2, <1>7, <2>1, <3>1, <4>1
      <3> HIDE DEF x
      <3> QED
        BY <1>3, <2>1, <3>1 DEF FirstScalar
    <2> HIDE DEF x, n
    <2>3. ASSUME NEW j \in (nargs + 1)..(n + 1)
          PROVE  /\ \A l \in 1..(j - 1) : more[l].key # more[j].key
                 /\ FirstScalar(more[j], i)
      <3>1. \A l \in 1..(j - 1) : l \in 1..n
        BY <1>3
      <3>2. CASE j = n + 1
        <4>1. more[j] = x /\ x.key = k.key
          BY <1>2, <2>1, <3>2 DEF x
        <4> QED
          BY <1>7, <2>2, <3>1, <4>1
      <3>3. CASE j # n + 1
        <4>1. j \in (nargs + 1)..n /\ j \in 1..n
          BY <1>3, <3>3
        <4>2. /\ \A l \in 1..(j - 1) : opts[l].key # opts[j].key
              /\ FirstScalar(opts[j], i - 1)
          BY <4>1 DEF FileOptions, n, opts
        <4> QED
          BY <1>5, <1>7, <3>1, <4>1, <4>2
      <3> QED
        BY <3>2, <3>3
    <2>4. ASSUME NEW d \in 1..i, doc[d].val # None
          PROVE  \E j \in 1..(n + 1) : more[j].key = doc[d].key
      <3>1. CASE d = i
        <4>1. n + 1 \in 1..(n + 1)
          BY <1>3
        <4> QED
          BY <2>1, <3>1, <4>1 DEF x
      <3>2. CASE d # i
        <4>1. d \in 1..(i - 1)
          BY <1>3, <3>2
        <4>2. PICK j \in 1..n : opts[j].key = doc[d].key
          BY <2>4, <4>1 DEF FileOptions, n, opts
        <4>3. j \in 1..(n + 1)
          BY <1>3
        <4> QED
          BY <1>7, <4>2, <4>3
      <3> QED
        BY <3>1, <3>2
    <2>5. FileOptions(more, i)
      BY <1>7, <2>3, <2>4 DEF FileOptions
    <2>6. nargs \in 0..(n + 1) /\ \A j \in 1..nargs : j \in 1..n
      BY <1>3
    <2> QED
      BY <1>4, <1>7, <2>5, <2>6 DEF more
  <1> QED
    BY <1>4, <1>6, <1>7

\* The loop over the root's entries ...
LoadStep(kids, opts, i) ==
    IF i = 0 THEN options ELSE OptionLoaded(opts[i - 1], kids[i])
LEMMA LoadExists ==
    ASSUME NEW kids, NEW n \in Nat
    PROVE  \E opts : opts = [i \in 0..n |-> LoadStep(kids, opts, i)]
  <1> DEFINE Is(f, m) == f = [i \in 0..m |-> LoadStep(kids, f, i)]
             S == {m \in 0..n : \E f : Is(f, m)}
  <1>1. 0 \in S
    <2> DEFINE g == [i \in 0..0 |-> options]
    <2>1. Is(g, 0)
      BY DEF LoadStep
    <2> QED
      BY <2>1
  <1>2. ASSUME NEW m \in 1..n, m - 1 \in S PROVE m \in S
    <2>1. PICK f : Is(f, m - 1)
      BY <1>2
    <2> DEFINE x == LoadStep(kids, f, m)
               g == [i \in 0..m |-> IF i = m THEN x ELSE f[i]]
    <2>2. ASSUME NEW i \in 0..m PROVE g[i] = LoadStep(kids, g, i)
      <3>1. CASE i = m
        <4>1. g[m - 1] = f[m - 1]
          OBVIOUS
        <4> QED
          BY <3>1, <4>1 DEF LoadStep
      <3>2. CASE i # m
        <4>1. i \in 0..(m - 1) /\ g[i] = f[i]
          BY <3>2
        <4>2. f[i] = LoadStep(kids, f, i)
          BY <2>1, <4>1, Zenon
        <4>3. i # 0 => i - 1 \in 0..m /\ i - 1 # m
          BY <4>1
        <4>4. i # 0 => g[i - 1] = f[i - 1]
          BY <4>3
        <4> QED
          BY <4>1, <4>2, <4>4 DEF LoadStep
      <3> QED
        BY <3>1, <3>2
    <2>3. Is(g, m)
      <3> DEFINE h == [i \in 0..m |-> LoadStep(kids, g, i)]
      <3>1. \A i \in 0..m : g[i] = h[i]
        BY <2>2
      <3> HIDE DEF x
      <3>2. g = h
        BY <3>1
      <3> QED
        BY <3>2
    <2>4. m \in 0..n
      OBVIOUS
    <2> HIDE DEF Is, g
    <2> QED
      BY <2>3, <2>4
  <1>3. \A i \in 0..n : i \in S
    <2> HIDE DEF S
    <2> QED
      BY <1>1, <1>2, UpTo
  <1>4. n \in S
    <2> HIDE DEF S
    <2> QED
      BY <1>3
  <1> QED
    BY <1>4

\* ... loads what the document says.
LEMMA OptionsLoadedReads ==
    ASSUME doc \in Seq(DocPair), OptionTable(options),
           nargs = Len(options.list), NEW kids, Len(kids) = Len(doc),
           \A i \in 1..Len(doc) : PairOf(nodes, kids[i], doc[i])
    PROVE  /\ OptionTable(OptionsLoaded(kids))
           /\ nargs \in 0..Len(OptionsLoaded(kids).list)
           /\ FileOptions(OptionsLoaded(kids).list, Len(doc))
  <1> DEFINE n == Len(kids)
             l[i \in 0..n] == LoadStep(kids, l, i)
  <1>1. n \in Nat /\ nargs \in Nat /\ n = Len(doc)
    <2>1. Len(doc) \in Nat /\ Len(options.list) \in Nat
      BY LenProperties DEF OptionTable
    <2> QED
      BY <2>1
  <1>2. OptionsLoaded(kids) = l[n]
    BY Zenon DEF OptionsLoaded, LoadStep
  <1>3. l = [i \in 0..n |-> LoadStep(kids, l, i)]
    BY <1>1, LoadExists, Zenon
  <1> HIDE DEF l, n
  <1>4. l[0] = options
        /\ \A i \in 1..n : l[i] = OptionLoaded(l[i - 1], kids[i])
    <2>1. 0 \in 0..n /\ \A i \in 1..n : i \in 0..n /\ i # 0
      BY <1>1
    <2>2. \A i \in 0..n : l[i] = LoadStep(kids, l, i)
      BY <1>3, Zenon
    <2> QED
      BY <2>1, <2>2 DEF LoadStep
  <1> DEFINE S == {i \in 0..n : /\ OptionTable(l[i])
                                /\ nargs \in 0..Len(l[i].list)
                                /\ FileOptions(l[i].list, i)}
  <1>5. 0 \in S
    <2>1. FileOptions(options.list, 0)
      <3>1. (nargs + 1)..Len(options.list) = {} /\ 1..0 = {}
        BY <1>1
      <3> QED
        BY <3>1 DEF FileOptions
    <2> QED
      BY <1>1, <1>4, <2>1
  <1>6. ASSUME NEW i \in 1..n, i - 1 \in S PROVE i \in S
    <2>1. /\ OptionTable(l[i - 1]) /\ nargs \in 0..Len(l[i - 1].list)
          /\ FileOptions(l[i - 1].list, i - 1)
      BY <1>6
    <2>2. i \in 1..Len(doc) /\ PairOf(nodes, kids[i], doc[i])
      BY <1>1
    <2>3. LET more == OptionLoaded(l[i - 1], kids[i])
          IN  /\ OptionTable(more) /\ nargs \in 0..Len(more.list)
              /\ FileOptions(more.list, i)
      BY <2>1, <2>2, OptionLoadedReads
    <2>4. i \in 0..n
      BY <1>1
    <2> QED
      BY <1>4, <2>3, <2>4
  <1>7. \A i \in 0..n : i \in S
    <2> HIDE DEF S
    <2> QED
      BY <1>1, <1>5, <1>6, UpTo
  <1> QED
    BY <1>1, <1>2, <1>7

\* The options of load_config_file, once the document has been read.
LEMMA LoadReads ==
    ASSUME YamlTypes, OptionTypes, nargs = Len(options.list), DocRead,
           open = <<"done">>, yamlw = 1, yamlw \in 1..Len(nodes), phase = "load",
           LoadOptions \/ LoadSkips
    PROVE  /\ OptionTable(options') /\ nargs \in 0..Len(options'.list)
           /\ FileOptions(options'.list, Len(doc))
  <1>1. Len(nodes) \in Nat /\ Len(nodes) >= 1 /\ yamlw \notin {Unset, Null}
    BY LenProperties DEF YamlTypes, Unset, Null
  <1>2. CASE LoadOptions
    <2>1. RootIsMapping /\ options' = OptionsLoaded(nodes[1].kids)
      BY <1>1, <1>2 DEF LoadOptions, RootIsMapping
    <2>2. ~Waiting
      BY DEF Waiting
    <2>3. /\ Len(nodes[1].kids) = Len(doc)
          /\ \A i \in 1..Len(doc) : PairOf(nodes, nodes[1].kids[i], doc[i])
      BY <2>1, <2>2 DEF DocRead, Paired
    <2> QED
      BY <2>1, <2>3, OptionsLoadedReads DEF OptionTypes
  <1>3. CASE LoadSkips
    <2>1. options' = options /\ ~RootIsMapping
      BY <1>1, <1>3 DEF LoadSkips, RootIsMapping
    <2>2. Len(doc) = 0 /\ Len(options.list) \in Nat
      BY <2>1, EmptySeq, LenProperties DEF DocRead, OptionTypes, OptionTable
    <2>3. (nargs + 1)..Len(options.list) = {} /\ 1..0 = {}
      BY <2>2
    <2>4. FileOptions(options.list, 0)
      BY <2>3 DEF FileOptions
    <2> QED
      BY <2>1, <2>2, <2>4 DEF OptionTypes
  <1> QED
    BY <1>2, <1>3

\* ht_get_entry: the value read is the one of the option found.
LEMMA OptionRead ==
    ASSUME OptionTypes, NEW k \in Text
    PROVE  /\ HasOption(options, k) <=> Given(k) # {}
           /\ HasOption(options, k) =>
                 \E i \in 1..Len(options.list) :
                    /\ IsRead(k, i)
                    /\ OptionText(k) = options.list[i].text
                    /\ OptionText(k) \in Text
  <1>1. OptionIn(options, k) /\ options.list \in Seq(Option)
    BY OptionFound DEF OptionTypes, OptionTable
  <1>2. CASE ~HasOption(options, k)
    BY <1>1, <1>2 DEF OptionIn, Given
  <1>3. CASE HasOption(options, k)
    <2>1. PICK p \in 1..Len(options.list) :
             /\ options.list[p].key = k
             /\ HashFind(options.tbl, k)[1].data = p
             /\ FoundOf(Given(k), p, options.turned)
      BY <1>1, <1>3, Zenon DEF OptionIn, Given
    <2>2. p \in Given(k)
      BY <2>1 DEF Given
    <2>3. OptionText(k) = options.list[p].text
      BY <2>1 DEF OptionText
    <2>4. options.list[p].text \in Text
      <3>1. options.list[p] \in Option
        BY <1>1, ElementOfSeq
      <3> QED
        BY <3>1 DEF Option
    <2> QED
      BY <1>3, <2>1, <2>2, <2>3, <2>4 DEF IsRead
  <1> QED
    BY <1>2, <1>3

LEMMA ReadInitial ==
    ASSUME ConfigInit
    PROVE  OptionsInv
  <1>1. /\ open = <<"root">> /\ nodes = <<>> /\ pstack = <<>> /\ options = NoOptions
        /\ nargs = 0 /\ doc = <<>> /\ phase = "args" /\ started = NotStarted
    BY DEF ConfigInit, stack_create
  <1>2. OptionTypes
    <2>1. options.list \in Seq(Option) /\ doc \in Seq(DocPair)
          /\ Len(options.list) = 0
      BY <1>1, EmptySeq DEF NoOptions
    <2>2. Placed(options.list) = <<>>
      BY <2>1 DEF Placed
    <2>3. TableInv(options.tbl, Placed(options.list), options.turned)
      BY <1>1, <2>2, NewTableInv DEF NoOptions
    <2> QED
      BY <1>1, <2>1, <2>3 DEF OptionTypes, OptionTable, NotStarted
  <1>3. RootFirst
    <2>1. Len(pstack) = 0 /\ 1..0 = {} /\ open # <<"done">>
      BY <1>1, EmptySeq
    <2> QED
      BY <1>1, <2>1 DEF RootFirst
  <1>4. DocRead
    <2>1. Len(nodes) = 0
      BY <1>1, EmptySeq
    <2> QED
      BY <1>1, <2>1 DEF DocRead, RootIsMapping
  <1>5. nargs = Len(options.list)
    BY <1>1, EmptySeq DEF NoOptions
  <1> QED
    BY <1>1, <1>2, <1>3, <1>4, <1>5 DEF OptionsInv

\* The steps that parse the file leave the options.
LEMMA ParseReads ==
    ASSUME OptionsInv, odd = {}, phase = "parse", phase' \in {"parse", "load"},
           UNCHANGED <<options, nargs, started>>, doc' \in Seq(DocPair),
           RootFirst', DocRead',
           phase' = "load" => open' = <<"done">> /\ yamlw' = 1
    PROVE  OptionsInv'
  <1>1. OptionTypes /\ nargs = Len(options.list) /\ started = NotStarted
    BY DEF OptionsInv
  <1>2. OptionTypes'
    BY <1>1 DEF OptionTypes
  <1> QED
    BY <1>1, <1>2 DEF OptionsInv

\* The steps that leave the document alone.
LEMMA QuietReads ==
    ASSUME OptionsInv, odd = {}, OptionTypes',
           UNCHANGED <<parser, open, doc, started>>,
           phase' \in {"args", "parse"} =>
              /\ phase \in {"args", "parse"} /\ nargs' = Len(options'.list)
              /\ phase' = "args" => phase = "args",
           phase' \in {"args", "parse", "run", "exit", "crash"},
           phase' = "run" => /\ phase \in {"args", "parse", "load"}
                             /\ FileOptions(options.list, Len(doc))'
    PROVE  OptionsInv'
  <1>1. /\ phase' \in {"args", "parse"} => RootFirst /\ DocRead
        /\ phase' = "args" => doc = <<>>
        /\ phase' \in {"args", "parse", "run"} => started = NotStarted
    BY DEF OptionsInv
  <1>2. RootFirst' = RootFirst
    BY DEF RootFirst, parser
  <1>3. DocRead' = DocRead
    BY DEF DocRead, RootIsMapping, Paired, Waiting, Here, parser
  <1> QED
    BY <1>1, <1>2, <1>3 DEF OptionsInv

\* The steps of main: the options are what they are.
LEMMA MainReads ==
    ASSUME OptionsInv, odd = {}, phase \in {"run", "serve"},
           phase' \in {"serve", "listen", "exit"},
           UNCHANGED <<options, nargs, doc>>,
           started' \in [port : Int, prompt : {"no", "yes", "failed"}],
           phase' \in {"serve", "listen"} => PromptRead',
           phase' = "listen" => PortRead'
    PROVE  OptionsInv'
  <1>1. OptionTypes /\ FileOptions(options.list, Len(doc))
    BY DEF OptionsInv
  <1>2. OptionTypes'
    BY <1>1 DEF OptionTypes
  <1>3. FileOptions(options.list, Len(doc))'
    BY <1>1 DEF FileOptions, FirstScalar
  <1> QED
    BY <1>2, <1>3 DEF OptionsInv

LEMMA NoFileReads ==
    ASSUME OptionTypes, nargs = Len(options.list), doc' = <<>>,
           options' = options, nargs' = nargs
    PROVE  FileOptions(options.list, Len(doc))'
  <1>1. Len(options.list) \in Nat /\ Len(doc') = 0
    BY LenProperties, EmptySeq DEF OptionTypes, OptionTable
  <1>2. (nargs' + 1)..Len(options'.list) = {} /\ 1..Len(doc') = {}
    BY <1>1
  <1> QED
    BY <1>2 DEF FileOptions

\* The port and the prompt, when the tracker starts.
LEMMA StartReads ==
    ASSUME OptionsInv, odd = {},
           deamonize \/ start_command_prompt_thread \/ make_listener_socket
    PROVE  OptionsInv'
  <1>1. /\ OptionTypes /\ UNCHANGED <<options, nargs, doc>>
        /\ phase \in {"run", "serve"}
        /\ started \in [port : Int, prompt : {"no", "yes", "failed"}]
    BY DEF OptionsInv, OptionTypes, deamonize, start_command_prompt_thread,
           make_listener_socket, source
  <1>2. CASE deamonize
    <2>1. /\ started' = started /\ started = NotStarted
          /\ phase' \in {"serve", "exit"}
      BY <1>2 DEF OptionsInv, deamonize
    <2>2. HasOption(options, Daemonize) /\ Number[OptionText(Daemonize)] # 0
      BY <1>2 DEF deamonize, option_daemonize
    <2>3. PICK i \in 1..Len(options.list) :
             IsRead(Daemonize, i) /\ Number[options.list[i].text] # 0
      BY <1>1, <2>2, OptionRead, ConfigAssumption
    <2>4. PromptRead'
      <3>1. Given(Daemonize) # {}
        BY <1>1, <2>2, OptionRead, ConfigAssumption
      <3> QED
        BY <1>1, <2>1, <2>3, <3>1 DEF PromptRead, NotStarted, IsRead, Given
    <2> QED
      BY <1>1, <2>1, <2>4, MainReads
  <1>3. CASE start_command_prompt_thread
    <2>1. PICK thread \in {"yes", "failed"} :
             started' = [started EXCEPT !.prompt = thread]
      BY <1>3 DEF start_command_prompt_thread
    <2>2. /\ phase' = "serve" /\ started'.prompt # "no"
          /\ started' \in [port : Int, prompt : {"no", "yes", "failed"}]
      BY <1>1, <1>3, <2>1 DEF start_command_prompt_thread
    <2>3. PromptRead'
      <3>1. CASE Given(Daemonize) = {}
        BY <1>1, <2>2, <3>1 DEF PromptRead, Given
      <3>2. CASE Given(Daemonize) # {}
        <4>1. HasOption(options, Daemonize)
          BY <1>1, <3>2, OptionRead, ConfigAssumption
        <4>2. Number[OptionText(Daemonize)] = 0
          BY <1>3, <4>1 DEF start_command_prompt_thread, option_daemonize
        <4>3. PICK i \in 1..Len(options.list) :
                 IsRead(Daemonize, i) /\ Number[options.list[i].text] = 0
          BY <1>1, <4>1, <4>2, OptionRead, ConfigAssumption
        <4> QED
          BY <1>1, <2>2, <3>2, <4>3 DEF PromptRead, IsRead, Given
      <3> QED
        BY <3>1, <3>2
    <2> QED
      BY <1>1, <2>2, <2>3, MainReads
  <1>4. CASE make_listener_socket
    <2>1. phase = "serve" /\ PromptRead
      BY <1>4 DEF OptionsInv, make_listener_socket
    <2>2. CASE phase' = "listen" /\ started' = [started EXCEPT !.port = option_get_port]
      <3>1. /\ started'.prompt = started.prompt
            /\ started'.port = option_get_port
        BY <1>1, <2>2
      <3>2. PortRead' /\ started'.port \in Int
        <4>1. HasOption(options, Port) <=> Given(Port) # {}
          BY <1>1, OptionRead, ConfigAssumption
        <4>2. CASE Given(Port) = {}
          BY <1>1, <3>1, <4>1, <4>2 DEF PortRead, Given, option_get_port
        <4>3. CASE Given(Port) # {}
          <5>1. started'.port = Number[OptionText(Port)] % 65536
            BY <3>1, <4>1, <4>3 DEF option_get_port
          <5>2. PICK i \in 1..Len(options.list) :
                   /\ IsRead(Port, i) /\ OptionText(Port) = options.list[i].text
                   /\ OptionText(Port) \in Text
            BY <1>1, <4>1, <4>3, OptionRead, ConfigAssumption
          <5>3. started'.port = Number[options.list[i].text] % 65536
            BY <5>1, <5>2
          <5>4. Number[OptionText(Port)] \in Int
            BY <5>2, ConfigAssumption
          <5>5. started'.port \in Int
            BY <5>1, <5>4
          <5>6. Given(Port)' = Given(Port) /\ IsRead(Port, i)'
            BY <1>1, <5>2 DEF IsRead, Given
          <5> QED
            BY <1>1, <4>3, <5>2, <5>3, <5>5, <5>6 DEF PortRead
        <4> QED
          BY <4>2, <4>3
      <3>3. PromptRead'
        BY <1>1, <2>1, <3>1 DEF PromptRead, IsRead, Given
      <3>4. started' \in [port : Int, prompt : {"no", "yes", "failed"}]
        BY <1>1, <2>2, <3>1, <3>2
      <3> QED
        BY <1>1, <2>2, <3>2, <3>3, <3>4, MainReads
    <2>3. CASE phase' = "exit" /\ started' = started
      BY <1>1, <2>3, MainReads
    <2> QED
      BY <1>4, <2>2, <2>3 DEF make_listener_socket
  <1> QED
    BY <1>2, <1>3, <1>4

LEMMA ReadInductive ==
    ASSUME ConfigInv, OptionsInv, [ConfigNext]_configVars
    PROVE  OptionsInv'
  <1> SUFFICES ASSUME odd' = {}
               PROVE  OptionsInv'
    BY DEF OptionsInv
  <1>1. ASSUME NEW o \in Text, NEW v \in Text, SetOpt(o, v)
        PROVE  OptionsInv'
    <2>1. /\ odd = {} /\ UNCHANGED <<parser, open, doc, started>>
          /\ phase = "args" /\ phase' = "args" /\ nargs' = nargs + 1
          /\ options' = OptionAdded(options, o, v)
      BY <1>1 DEF SetOpt, source
    <2>2. OptionTypes /\ nargs = Len(options.list)
      BY <2>1 DEF OptionsInv
    <2>3. OptionTable(options') /\ Len(options'.list) = Len(options.list) + 1
      <3>1. [key |-> o, text |-> v] \in Option
        BY DEF Option
      <3>2. OptionTable(options) /\ options.list \in Seq(Option)
        BY <2>2 DEF OptionTypes, OptionTable
      <3>3. /\ OptionTable(options')
            /\ options'.list = Append(options.list, [key |-> o, text |-> v])
        BY <2>1, <3>2, OptionAddedTable
      <3> HIDE DEF Option
      <3> QED
        BY <3>1, <3>2, <3>3, AppendSeq
    <2>4. OptionTypes' /\ nargs' = Len(options'.list)
      <3>1. Len(options'.list) \in Nat /\ nargs' = Len(options'.list)
        BY <2>1, <2>2, <2>3, LenProperties DEF OptionTable
      <3> QED
        BY <2>1, <2>2, <2>3, <3>1 DEF OptionTypes
    <2> QED
      BY <2>1, <2>4, QuietReads
  <1>2. ASSUME NEW v \in Text, Scalar(v)
        PROVE  OptionsInv'
    <2>1. /\ odd = {} /\ phase = "parse"
          /\ UNCHANGED <<options, nargs>>
      BY <1>2 DEF Scalar, NodeExpected
    <2>2. YamlTypes /\ Parsing /\ RootFirst /\ DocRead /\ doc \in Seq(DocPair)
      BY <2>1 DEF ConfigInv, OptionsInv, OptionTypes
    <2>3. doc' \in Seq(DocPair) /\ DocRead' /\ RootFirst'
      BY <1>2, <2>2, ScalarReads
    <2>4. phase' = phase
      BY <1>2, <2>2, ScalarSteps
    <2>5. started' = started
      BY <1>2 DEF Scalar, ScalarIsKey, ScalarIsLeaf, ScalarIsRoot, CrashOnKey
    <2> QED
      BY <2>1, <2>3, <2>4, <2>5, ParseReads
  <1>3. CASE SetOpt(Daemonize, One) \/ SetOpt(Conf, One)
    BY <1>1, <1>3, ConfigAssumption
  <1>4. CASE OptionExits \/ NoConfigFile \/ OpenConfigFile
    <2>1. /\ odd = {} /\ UNCHANGED <<parser, open, doc, started>>
          /\ UNCHANGED <<options, nargs>> /\ phase = "args"
          /\ phase' \in {"exit", "run", "parse"}
      BY <1>4 DEF OptionExits, NoConfigFile, OpenConfigFile, source
    <2>2. OptionTypes /\ nargs = Len(options.list) /\ doc = <<>>
      BY <2>1 DEF OptionsInv
    <2>3. OptionTypes' /\ nargs' = Len(options'.list) /\ doc' = <<>>
      BY <2>1, <2>2 DEF OptionTypes
    <2>4. FileOptions(options.list, Len(doc))'
      BY <2>1, <2>2, <2>3, NoFileReads
    <2> QED
      BY <2>1, <2>3, <2>4, QuietReads
  <1>5. CASE MappingStart \/ SequenceStart
    <2>1. /\ odd = {} /\ phase = "parse"
          /\ UNCHANGED <<options, nargs, started>>
      BY <1>5 DEF MappingStart, SequenceStart, NodeExpected, CrashOnKey
    <2>2. YamlTypes /\ Parsing /\ RootFirst /\ DocRead /\ doc \in Seq(DocPair)
      BY <2>1 DEF ConfigInv, OptionsInv, OptionTypes
    <2>3. doc' \in Seq(DocPair) /\ DocRead' /\ RootFirst'
      BY <1>5, <2>2, CollectionReads
    <2>4. phase' = phase
      BY <1>5, <2>2, CollectionSteps
    <2> QED
      BY <2>1, <2>3, <2>4, ParseReads
  <1>6. CASE CollectionEnd
    <2>1. /\ odd = {} /\ phase = "parse" /\ phase' = "parse"
          /\ UNCHANGED <<options, nargs, started, doc>>
      BY <1>6 DEF CollectionEnd
    <2>2. YamlTypes /\ Parsing /\ RootFirst /\ DocRead /\ doc \in Seq(DocPair)
      BY <2>1 DEF ConfigInv, OptionsInv, OptionTypes
    <2>3. DocRead' /\ RootFirst'
      BY <1>6, <2>2, EndReads
    <2> QED
      BY <2>1, <2>2, <2>3, ParseReads
  <1>7. CASE Alias \/ StreamEnd
    BY <1>7 DEF Alias, StreamEnd
  <1>8. CASE DocumentEnd
    <2>1. /\ odd = {} /\ phase = "parse" /\ phase' = "load"
          /\ UNCHANGED <<options, nargs, started, doc>>
      BY <1>8 DEF DocumentEnd, source
    <2>2. YamlTypes /\ RootFirst /\ DocRead /\ doc \in Seq(DocPair)
      BY <2>1 DEF ConfigInv, OptionsInv, OptionTypes
    <2>3. DocRead' /\ RootFirst' /\ open' = <<"done">> /\ yamlw' = 1
      BY <1>8, <2>2, DocumentReads
    <2> QED
      BY <2>1, <2>2, <2>3, ParseReads
  <1>9. CASE ParserError
    <2>1. /\ odd = {} /\ phase = "parse" /\ phase' = "run" /\ doc' = <<>>
          /\ UNCHANGED <<options, nargs, started>>
      BY <1>9 DEF ParserError
    <2>2. OptionTypes /\ nargs = Len(options.list) /\ started = NotStarted
      BY <2>1 DEF OptionsInv
    <2>3. OptionTypes'
      BY <2>1, <2>2, EmptySeq DEF OptionTypes
    <2>4. FileOptions(options.list, Len(doc))'
      BY <2>1, <2>2, NoFileReads
    <2> QED
      BY <2>1, <2>2, <2>3, <2>4 DEF OptionsInv
  <1>10. CASE LoadCrashes
    <2>1. /\ odd = {} /\ UNCHANGED <<parser, open, doc, started>>
          /\ UNCHANGED <<options, nargs>> /\ phase' = "crash"
      BY <1>10 DEF LoadCrashes, source
    <2>2. OptionTypes'
      BY <2>1 DEF OptionsInv, OptionTypes
    <2> QED
      BY <2>1, <2>2, QuietReads
  <1>11. CASE LoadSkips \/ LoadOptions
    <2>1. /\ odd = {} /\ UNCHANGED <<parser, open, doc, started>>
          /\ nargs' = nargs /\ phase = "load" /\ phase' = "run"
      BY <1>11 DEF LoadSkips, LoadOptions, source
    <2>2. /\ YamlTypes /\ OptionTypes /\ nargs = Len(options.list) /\ DocRead
          /\ open = <<"done">> /\ yamlw = 1 /\ yamlw \in 1..Len(nodes)
      BY <2>1 DEF ConfigInv, OptionsInv
    <2>3. /\ OptionTable(options') /\ nargs \in 0..Len(options'.list)
          /\ FileOptions(options'.list, Len(doc))
      BY <1>11, <2>1, <2>2, LoadReads
    <2>4. OptionTypes'
      BY <2>1, <2>2, <2>3 DEF OptionTypes
    <2>5. FileOptions(options.list, Len(doc))'
      BY <2>1, <2>3 DEF FileOptions, FirstScalar
    <2> QED
      BY <2>1, <2>4, <2>5, QuietReads
  <1>12. CASE deamonize \/ start_command_prompt_thread \/ make_listener_socket
    <2>1. odd = {}
      BY <1>12 DEF deamonize, start_command_prompt_thread,
                   make_listener_socket, source
    <2> QED
      BY <1>12, <2>1, StartReads
  <1>13. CASE UNCHANGED configVars
    <2>1. /\ UNCHANGED <<phase, options, nargs, nodes, pstack, keyname, yamlw>>
          /\ UNCHANGED <<open, doc, odd, started>>
      BY <1>13 DEF configVars, parser, source
    <2>2. RootFirst' = RootFirst /\ OptionTypes' = OptionTypes
      BY <2>1 DEF RootFirst, OptionTypes
    <2>3. DocRead' = DocRead
      BY <2>1 DEF DocRead, RootIsMapping, Paired, Waiting, Here
    <2>4. FileOptions(options.list, Len(doc)) => FileOptions(options.list, Len(doc))'
      BY <2>1 DEF FileOptions, FirstScalar
    <2>5. PromptRead' = PromptRead /\ PortRead' = PortRead
      BY <2>1 DEF PromptRead, PortRead, IsRead, Given
    <2> QED
      BY <2>1, <2>2, <2>3, <2>4, <2>5 DEF OptionsInv
  <1> QED
    BY <1>1, <1>2, <1>3, <1>4, <1>5, <1>6, <1>7, <1>8, <1>9, <1>10, <1>11,
       <1>12, <1>13, ConfigAssumption DEF ConfigNext

\* load_config_file and main, whatever the file: the tree of nodes is the
\* document, the options are what command line and document say, and the
\* tracker is started with them.
THEOREM OptionsInvariant == ConfigSpec => []OptionsInv
  <1>1. ConfigInit => OptionsInv
    BY ReadInitial
  <1>2. ConfigInv /\ OptionsInv /\ [ConfigNext]_configVars => OptionsInv'
    BY ReadInductive
  <1> QED
    BY <1>1, <1>2, ConfigInvariant, PTL DEF ConfigSpec

\* An option resolved: the one found of the command line, ...
LEMMA ResolvedByArgs ==
    ASSUME OptionTypes, FileOptions(options.list, Len(doc)), NEW k,
           NEW g \in 1..Len(options.list), IsRead(k, g), FromArgs(k) # {}
    PROVE  Resolved(k, options.list[g].text)
  <1> DEFINE list == options.list
             S == FromArgs(k)
  <1>1. Len(list) \in Nat /\ nargs \in 0..Len(list)
    BY LenProperties DEF OptionTypes, OptionTable
  <1>2. PICK a \in 1..nargs : list[a].key = k
    BY DEF FromArgs
  <1>3. list[g].key = k /\ g \in 1..nargs
    <2>1. list[g].key = k
      BY DEF IsRead, FoundOf, Given
    <2>2. CASE g \in (nargs + 1)..Len(list)
      <3>1. a \in 1..(g - 1)
        BY <1>1, <2>2
      <3> QED
        BY <1>2, <2>1, <2>2, <3>1 DEF FileOptions
    <2>3. CASE g \notin (nargs + 1)..Len(list)
      BY <1>1, <2>1, <2>3
    <2> QED
      BY <2>2, <2>3
  <1>4. g \in S /\ S \subseteq Given(k)
    BY <1>1, <1>3 DEF FromArgs, Given
  <1>5. FoundOf(S, g, options.turned)
    <2> HIDE DEF S
    <2> QED
      BY <1>4 DEF IsRead, FoundOf
  <1> QED
    BY <1>4, <1>5 DEF Resolved

\* ... or else the first scalar of the file, ...
LEMMA ResolvedByFile ==
    ASSUME OptionTypes, FileOptions(options.list, Len(doc)), NEW k,
           NEW g \in 1..Len(options.list), IsRead(k, g), FromArgs(k) = {}
    PROVE  Resolved(k, options.list[g].text)
  <1> DEFINE list == options.list
             S == FromFile(k)
  <1>1. Len(list) \in Nat /\ nargs \in 0..Len(list)
    BY LenProperties DEF OptionTypes, OptionTable
  <1>2. list[g].key = k
    BY DEF IsRead, FoundOf, Given
  <1>3. g \in (nargs + 1)..Len(list)
    <2>1. g \notin 1..nargs
      BY <1>2 DEF FromArgs
    <2> QED
      BY <1>1, <2>1
  <1>4. list[g].text # None
    <2>1. list[g] \in Option
      BY ElementOfSeq DEF OptionTypes, OptionTable
    <2> QED
      BY <2>1, ConfigAssumption DEF Option
  <1>5. PICK d \in 1..Len(doc) :
           /\ doc[d].key = k /\ doc[d].val = list[g].text
           /\ \A e \in 1..(d - 1) : doc[e].key = k => doc[e].val = None
    <2>1. FirstScalar(list[g], Len(doc))
      BY <1>3 DEF FileOptions
    <2> QED
      BY <1>2, <2>1 DEF FirstScalar
  <1>6. d \in S
    BY <1>4, <1>5 DEF FromFile
  <1>7. \A j \in S : d <= j
    <2> TAKE j \in S
    <2>1. j \in 1..Len(doc) /\ doc[j].key = k /\ doc[j].val # None
      BY DEF FromFile
    <2>2. j \notin 1..(d - 1)
      BY <1>5, <2>1
    <2>3. d \in Int /\ j \in Int /\ j >= 1
      BY <2>1
    <2> QED
      BY <2>2, <2>3
  <1> QED
    BY <1>5, <1>6, <1>7 DEF Resolved

\* ... or else the default.
LEMMA ResolvedByDefault ==
    ASSUME OptionTypes, FileOptions(options.list, Len(doc)), NEW k,
           Given(k) = {}
    PROVE  Resolved(k, None)
  <1>1. Len(options.list) \in Nat /\ nargs \in 0..Len(options.list)
    BY LenProperties DEF OptionTypes, OptionTable
  <1>2. FromArgs(k) = {}
    BY <1>1 DEF FromArgs, Given
  <1>3. FromFile(k) = {}
    BY DEF FileOptions, FromFile, Given
  <1> QED
    BY <1>2, <1>3 DEF Resolved

LEMMA ReadIsResolved ==
    ASSUME OptionTypes, FileOptions(options.list, Len(doc)), NEW k,
           NEW g \in 1..Len(options.list), IsRead(k, g)
    PROVE  /\ Resolved(k, options.list[g].text)
           /\ options.list[g].text \in Text /\ options.list[g].text # None
  <1>1. options.list[g] \in Option
    BY ElementOfSeq DEF OptionTypes, OptionTable
  <1> QED
    BY <1>1, ResolvedByArgs, ResolvedByFile, ConfigAssumption DEF Option

\* The port listened to and the prompt are those asked for, however deep
\* mappings are nested in the file and however often the table of options
\* has grown.
THEOREM OptionsResolvedHolds == ConfigSpec => []OptionsResolved
  <1>1. OptionsInv => OptionsResolved
    <2> SUFFICES ASSUME OptionsInv, phase = "listen", odd = {}
                 PROVE  /\ \E v \in Text \cup {None} :
                              /\ Resolved(Port, v)
                              /\ started.port = IF v = None THEN 8000
                                                ELSE Number[v] % 65536
                        /\ \E v \in Text \cup {None} :
                              /\ Resolved(Daemonize, v)
                              /\ started.prompt = "no" <=>
                                    v # None /\ Number[v] # 0
      BY DEF OptionsResolved
    <2>1. /\ OptionTypes /\ FileOptions(options.list, Len(doc))
          /\ PromptRead /\ PortRead
      BY DEF OptionsInv
    <2>2. \E v \in Text \cup {None} :
             /\ Resolved(Port, v)
             /\ started.port = IF v = None THEN 8000 ELSE Number[v] % 65536
      <3>1. CASE Given(Port) = {}
        <4>1. Resolved(Port, None) /\ started.port = 8000
          BY <2>1, <3>1, ResolvedByDefault DEF PortRead
        <4> QED
          BY <4>1
      <3>2. CASE Given(Port) # {}
        <4>1. PICK g \in 1..Len(options.list) :
                 /\ IsRead(Port, g)
                 /\ started.port = Number[options.list[g].text] % 65536
          BY <2>1, <3>2 DEF PortRead
        <4> QED
          BY <2>1, <4>1, ReadIsResolved
      <3> QED
        BY <3>1, <3>2
    <2>3. \E v \in Text \cup {None} :
             /\ Resolved(Daemonize, v)
             /\ started.prompt = "no" <=> v # None /\ Number[v] # 0
      <3>1. CASE Given(Daemonize) = {}
        <4>1. Resolved(Daemonize, None) /\ started.prompt # "no"
          BY <2>1, <3>1, ResolvedByDefault DEF PromptRead
        <4> QED
          BY <4>1
      <3>2. CASE Given(Daemonize) # {}
        <4>1. PICK g \in 1..Len(options.list) :
                 /\ IsRead(Daemonize, g)
                 /\ started.prompt = "no" <=> Number[options.list[g].text] # 0
          BY <2>1, <3>2 DEF PromptRead
        <4> QED
          BY <2>1, <4>1, ReadIsResolved
      <3> QED
        BY <3>1, <3>2
    <2> QED
      BY <2>2, <2>3
  <1> QED
    BY <1>1, OptionsInvariant, PTL
=============================================================================
