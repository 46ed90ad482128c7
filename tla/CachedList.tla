----------------------------- MODULE CachedList -----------------------------
(***************************************************************************)
(* struct list of cutil: a chain of nodes between two sentinels, with the  *)
(* node and the position of the last access cached in cursor and curpos.   *)
(*                                                                         *)
(* A call that takes the list's mutex is one step, and so are list_insert  *)
(* and list_remove, which change the chain without it: the tracker uses    *)
(* them only on lists no other thread has.  Freed nodes may be allocated   *)
(* again.  The positions passed are those the callers pass, 1..lsize.      *)
(***************************************************************************)
EXTENDS Naturals, Sequences, FiniteSets

CONSTANTS Value, NoValue,
          Node,      \* bound: addresses malloc can return for a node
          Front      \* the front sentinel

ASSUME ListAssumption ==
    /\ Front \notin Node
    /\ NoValue \notin Value

VARIABLES chain,            \* the nodes between the sentinels
          data,             \* their data
          lsize, cursor, curpos,
          lpos, lgot,       \* the position the last call was given, and
                            \* what it returned
          lpc, wpos, wval   \* list_remove_value: its node n, its argument

listVars == <<chain, data, lsize, cursor, curpos, lpos, lgot, lpc, wpos,
              wval>>

(* The sequence of values the list stands for, and what it promises.       *)
Elements == [i \in 1..Len(chain) |-> data[chain[i]]]
Plain == INSTANCE SeqList WITH lst <- Elements

Inserted(s, n, x) == Plain!Inserted(s, n, x)
Without(s, n) == Plain!Without(s, n)

Linked == {chain[i] : i \in 1..Len(chain)}

(* list_new: the back sentinel follows the front one.                      *)
ListInit ==
    /\ chain = <<>> /\ lsize = 0
    /\ data = [nd \in Node |-> NoValue]
    /\ cursor = Front /\ curpos = 0
    /\ lpos = 0 /\ lgot = NoValue
    /\ lpc = "ready" /\ wpos = 0 /\ wval = NoValue
-----------------------------------------------------------------------------
(* Nodes and positions: the front sentinel is at position 0.               *)
PosOf(nd) ==
    IF nd = Front THEN 0 ELSE CHOOSE i \in 1..Len(chain) : chain[i] = nd
NodeAt(p) == IF p = 0 THEN Front ELSE chain[p]

(* list_get_node: the position the walk ends at when asked for n.  It      *)
(* starts at the cursor, unless that is behind n.                          *)
Reached_NoReset(n) ==
    IF curpos <= n THEN PosOf(cursor) + (n - curpos) ELSE PosOf(cursor)
Reached(n) == IF curpos <= n THEN PosOf(cursor) + (n - curpos) ELSE n

(* ... and caches where it ended.                                          *)
CacheNode(n) == cursor' = NodeAt(Reached(n)) /\ curpos' = n

(* list_get.                                                               *)
ListGet(n) ==
    /\ lpc = "ready" /\ n \in 0..lsize
    /\ CacheNode(n)
    /\ lpos' = n
    /\ lgot' = IF Reached(n) = 0 THEN NoValue ELSE data[chain[Reached(n)]]
    /\ UNCHANGED <<chain, data, lsize, lpc, wpos, wval>>

(* list_add links the new node behind the front sentinel.                  *)
ListAdd(nd, v) ==
    /\ lpc = "ready" /\ nd \in Node \ Linked
    /\ chain' = Inserted(chain, 1, nd)
    /\ data' = [data EXCEPT ![nd] = v]
    /\ lsize' = lsize + 1
    /\ curpos' = IF curpos # 0 THEN curpos + 1 ELSE 0
    /\ lpos' = 1 /\ lgot' = NoValue
    /\ UNCHANGED <<cursor, lpc, wpos, wval>>

(* list_insert links it behind the node before position n.                 *)
ListInsert(n, nd, v) ==
    /\ lpc = "ready" /\ n \in 1..(lsize + 1) /\ nd \in Node \ Linked
    /\ CacheNode(n - 1)
    /\ chain' = Inserted(chain, Reached(n - 1) + 1, nd)
    /\ data' = [data EXCEPT ![nd] = v]
    /\ lsize' = lsize + 1
    /\ lpos' = n /\ lgot' = NoValue
    /\ UNCHANGED <<lpc, wpos, wval>>

ListAppend(nd, v) == ListInsert(lsize + 1, nd, v)

ListRemove(n) ==
    /\ lpc = "ready" /\ n \in 1..lsize
    /\ CacheNode(n - 1)
    /\ chain' = Without(chain, Reached(n - 1) + 1)
    /\ lsize' = lsize - 1
    /\ lpos' = n /\ lgot' = NoValue
    /\ UNCHANGED <<data, lpc, wpos, wval>>
-----------------------------------------------------------------------------
(* list_remove_value drops the cache, then looks at the node behind n and  *)
(* moves n on, past the node that took a removed one's place: an equal     *)
(* value directly behind a removed one stays.                              *)
RemoveValueBegin(v) ==
    /\ lpc = "ready"
    /\ curpos' = 0 /\ cursor' = Front
    /\ lpc' = "remove" /\ wpos' = 0 /\ wval' = v
    /\ UNCHANGED <<chain, data, lsize, lpos, lgot>>

(* The back sentinel, at Len(chain) + 1, ends the loop; it is looked at    *)
(* for the empty list only.                                                *)
RemoveValueStep ==
    /\ lpc = "remove"
    /\ IF wpos < Len(chain) /\ data[chain[wpos + 1]] = wval
       THEN /\ chain' = Without(chain, wpos + 1) /\ lsize' = lsize - 1
            /\ lpos' = wpos + 1 /\ lgot' = NoValue
       ELSE UNCHANGED <<chain, lsize, lpos, lgot>>
    /\ IF wpos + 1 <= Len(chain')
       THEN lpc' = "remove" /\ wpos' = wpos + 1 /\ wval' = wval
       ELSE lpc' = "ready" /\ wpos' = 0 /\ wval' = NoValue
    /\ UNCHANGED <<data, cursor, curpos>>

(* list_free; the pointer is used again for a list_new.                    *)
ListFree ==
    /\ lpc = "ready"
    /\ chain' = <<>> /\ lsize' = 0 /\ cursor' = Front /\ curpos' = 0
    /\ lpos' = 0 /\ lgot' = NoValue
    /\ UNCHANGED <<data, lpc, wpos, wval>>

ListNext ==
    \/ \E n \in 0..lsize : ListGet(n) \/ ListRemove(n)
    \/ \E nd \in Node, v \in Value :
          \/ ListAdd(nd, v) \/ ListAppend(nd, v)
          \/ \E n \in 1..(lsize + 1) : ListInsert(n, nd, v)
    \/ \E v \in Value : RemoveValueBegin(v)
    \/ RemoveValueStep \/ ListFree

ListSpec == ListInit /\ [][ListNext]_listVars
-----------------------------------------------------------------------------
(* Type invariant: the nodes linked are distinct, and the cached node is   *)
(* the one at the cached position.                                         *)
ListOK ==
    /\ chain \in Seq(Node) /\ data \in [Node -> Value \cup {NoValue}]
    /\ \A i, j \in 1..Len(chain) : chain[i] = chain[j] => i = j
    /\ \A i \in 1..Len(chain) : data[chain[i]] \in Value
    /\ lsize = Len(chain)
    /\ curpos \in 0..Len(chain) /\ cursor = NodeAt(curpos)
    /\ lpos \in Nat /\ lgot \in Value \cup {NoValue}
    /\ lpc \in {"ready", "remove"} /\ wval \in Value \cup {NoValue}
    /\ wpos \in Nat /\ (lpc = "remove" => wpos <= Len(chain) /\ curpos = 0)

(* Whatever calls came before, in whatever order, an element is read,      *)
(* inserted and removed at the position asked for: the cache of            *)
(* list_get_node is never seen.                                            *)
ImplementsSeqList == Plain!SSpec
=============================================================================
