------------------------------- MODULE UtHash -------------------------------
(***************************************************************************)
(* The macros of uthash that cutil uses: entries in chained buckets, whose *)
(* number doubles when a chain grows too long.  A chain is a sequence, the *)
(* head of the bucket first.  The list of all the entries, in the order    *)
(* they were added, belongs to the module that keeps the table.            *)
(*                                                                         *)
(* A definition named Op_Something is a faulty variant of Op.              *)
(***************************************************************************)
EXTENDS Integers, Sequences, HeadInsertion
LOCAL INSTANCE FiniteSetsExt

CONSTANTS Hash,         \* the hash of every key, a function to Nat
          InitBuckets,  \* 32 in the code
          Thresh        \* HASH_BKT_CAPACITY_THRESH, 10 in the code

ASSUME UtHashAssumption ==
    /\ Hash \in [DOMAIN Hash -> Nat]
    /\ InitBuckets \in Nat \ {0} /\ Thresh \in Nat \ {0}

Entry(k, d) == [key |-> k, data |-> d]
EmptyBucket == [chain |-> <<>>, count |-> 0, expand_mult |-> 0]

(* HASH_MAKE_TABLE.                                                        *)
NewTable ==
    [num_buckets |-> InitBuckets,
     buckets |-> [b \in 0..(InitBuckets - 1) |-> EmptyBucket],
     num_items |-> 0, ineff_expands |-> 0, noexpand |-> FALSE]

(* HASH_TO_BKT, the number of buckets being a power of two.                *)
BucketOf(k, n) == Hash[k] % n

(* HASH_FIND: the first entry of the chain with the key, if there is one.  *)
FindInBucket(bkt, k) ==
    LET hits == {i \in 1..Len(bkt.chain) : bkt.chain[i].key = k}
    IN  IF hits = {} THEN <<>>
        ELSE <<bkt.chain[CHOOSE i \in hits : \A j \in hits : i <= j]>>
HashFind(t, k) == FindInBucket(t.buckets[BucketOf(k, t.num_buckets)], k)

(* HASH_EXPAND_BUCKETS moves every entry to the head of its new chain.     *)
InBucket(s, b, n) ==
    {s[i] : i \in {i \in 1..Len(s) : BucketOf(s[i].key, n) = b}}
Moved_ByOldMask(t, b) ==
    LET old == t.buckets[b % t.num_buckets].chain
    IN  PutAtHead(old, InBucket(old, b, t.num_buckets))
Moved(t, b) ==
    LET old == t.buckets[b % t.num_buckets].chain
    IN  PutAtHead(old, InBucket(old, b, 2 * t.num_buckets))

(* The entries that make their new chains longer than they should be.      *)
NonIdeal(t, ideal) ==
    LET count(b) == Len(Moved(t, b))
    IN  MapThenSumSet(
            LAMBDA b : IF count(b) > ideal THEN count(b) - ideal ELSE 0,
            0..(2 * t.num_buckets - 1))

Expanded(t) ==
    LET n == 2 * t.num_buckets
        ideal == (t.num_items + n - 1) \div n
        count(b) == Len(Moved(t, b))
        ineff == IF NonIdeal(t, ideal) > t.num_items \div 2
                 THEN t.ineff_expands + 1 ELSE 0
    IN  [num_buckets |-> n,
         buckets |-> [b \in 0..(n - 1) |->
             [chain |-> Moved(t, b), count |-> count(b),
              expand_mult |-> IF count(b) > ideal THEN count(b) \div ideal
                              ELSE 0]],
         num_items |-> t.num_items,
         ineff_expands |-> ineff,
         noexpand |-> t.noexpand \/ ineff > 1]

(* HASH_ADD_TO_BKT puts the entry at the head of its chain.                *)
AddToBucket_AtTail(t, e) ==
    LET b == BucketOf(e.key, t.num_buckets)
        added == [t EXCEPT !.buckets[b].count = @ + 1,
                           !.buckets[b].chain = Append(@, e)]
        bkt == added.buckets[b]
    IN  IF bkt.count >= (bkt.expand_mult + 1) * Thresh /\ ~t.noexpand
        THEN Expanded(added) ELSE added

AddToBucket(t, e) ==
    LET b == BucketOf(e.key, t.num_buckets)
        added == [t EXCEPT !.buckets[b].count = @ + 1,
                           !.buckets[b].chain = <<e>> \o @]
        bkt == added.buckets[b]
    IN  IF bkt.count >= (bkt.expand_mult + 1) * Thresh /\ ~t.noexpand
        THEN Expanded(added) ELSE added

(* HASH_ADD_KEYPTR, of the table.                                          *)
TableAdded(t, e) == AddToBucket([t EXCEPT !.num_items = @ + 1], e)

(* HASH_DELETE, of the table: the entry leaves its chain.                  *)
WithoutAt(s, n) == [i \in 1..(Len(s) - 1) |-> IF i < n THEN s[i] ELSE s[i + 1]]
Unlinked(s, e) == WithoutAt(s, CHOOSE i \in 1..Len(s) : s[i] = e)
DelInBucket(bkt, e) ==
    [bkt EXCEPT !.count = @ - 1, !.chain = Unlinked(@, e)]
TableDeleted(t, e) ==
    [t EXCEPT !.num_items = @ - 1,
              !.buckets[BucketOf(e.key, t.num_buckets)] = DelInBucket(@, e)]
-----------------------------------------------------------------------------
(* History of an expansion.  turned has a number for each entry, in the    *)
(* order they were added: 1 if the chains have been turned round an odd    *)
(* number of times since, by its own addition or later ones, otherwise 0.  *)
Grown(t, u) == u.num_buckets # t.num_buckets
Turned(turned, grown) ==
    LET s == Append(turned, 0)
    IN  IF grown THEN [i \in 1..Len(s) |-> 1 - s[i]] ELSE s

(* An entry is found before another one if it was added after it, and the  *)
(* other way round once the chains have been turned.                       *)
Precedes(i, j, turned) ==
    IF j < i THEN turned[i] = 0 ELSE turned[j] = 1

(* The entry of those in S that a look-up finds.                           *)
FoundOf(S, i, turned) == i \in S /\ \A j \in S \ {i} : Precedes(i, j, turned)
=============================================================================
