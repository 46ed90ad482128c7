----------------------------- MODULE HashTable ------------------------------
(***************************************************************************)
(* struct hash_table of cutil, on the macros of uthash: the entries are    *)
(* linked in the order they were added, beside the buckets' chains.        *)
(*                                                                         *)
(* The doubly linked lists are sequences.  A call is one step: it holds    *)
(* the table's rwlock throughout, but for ht_entry_count, which reads one  *)
(* number, and ht_free.                                                    *)
(***************************************************************************)
EXTENDS UtHash

CONSTANTS HKey, NoHKey,
          Datum,        \* bound: what the table's users store in it
          MaxBuckets    \* bound: the largest number of buckets

ASSUME HashAssumption ==
    HKey \subseteq DOMAIN Hash /\ NoHKey \notin HKey /\ MaxBuckets \in Nat

VARIABLES app,     \* the entries in application order; head is the first one
          tbl,     \* UT_hash_table, which exists while head is not NULL
          turned,  \* history: the expansions since each entry was added
          hret     \* what the last call has returned, for what key

hashVars == <<app, tbl, turned, hret>>

(* What the table promises.                                                *)
Ordered == INSTANCE OrderedTable WITH tab <- app

Answer(k, err, out) == [key |-> k, err |-> err, out |-> out]
Failed(k) == Answer(k, -1, <<>>)

HashInit ==
    /\ app = <<>> /\ tbl = NewTable /\ turned = <<>>
    /\ hret = Answer(NoHKey, 0, <<>>)
-----------------------------------------------------------------------------
Found(k) == IF app = <<>> THEN <<>> ELSE HashFind(tbl, k)

(* HASH_ADD_KEYPTR; the first entry brings a table of its own.             *)
HashAdd(e) ==
    /\ app' = Append(app, e)
    /\ tbl' = TableAdded(IF app = <<>> THEN NewTable ELSE tbl, e)
    /\ tbl'.num_buckets <= MaxBuckets
    /\ turned' = Turned(turned, Grown(tbl, tbl'))

(* HASH_DELETE; the table goes with the last entry.                        *)
HashDelete(e) ==
    /\ app' = Unlinked(app, e)
    /\ tbl' = IF Len(app) = 1 THEN NewTable ELSE TableDeleted(tbl, e)
    /\ turned' = WithoutAt(turned, CHOOSE i \in 1..Len(app) : app[i] = e)
HashCount == IF app = <<>> THEN 0 ELSE tbl.num_items
-----------------------------------------------------------------------------
entries == <<app, tbl, turned>>
Stored == {app[i].data : i \in 1..Len(app)}

ht_entry_count ==
    /\ hret' = Answer(NoHKey, HashCount, <<>>)
    /\ UNCHANGED entries

ht_add_entry(k, d) ==
    /\ d \notin Stored
    /\ HashAdd(Entry(k, d)) /\ hret' = Answer(k, 0, <<>>)

ht_add_unique_entry(k, d) ==
    /\ d \notin Stored
    /\ IF Found(k) = <<>>
       THEN HashAdd(Entry(k, d)) /\ hret' = Answer(k, 0, <<>>)
       ELSE hret' = Failed(k) /\ UNCHANGED entries

ht_remove_entry(k) ==
    IF Found(k) = <<>> THEN hret' = Failed(k) /\ UNCHANGED entries
    ELSE HashDelete(Found(k)[1]) /\ hret' = Answer(k, 0, <<>>)

ht_has_entry(k) ==
    /\ hret' = Answer(k, IF Found(k) = <<>> THEN 0 ELSE 1, <<>>)
    /\ UNCHANGED entries

ht_get_entry(k) ==
    /\ hret' = IF Found(k) = <<>> THEN Failed(k)
               ELSE Answer(k, 0, <<Found(k)[1].data>>)
    /\ UNCHANGED entries

(* HASH_ITER, with a callback that is given every entry's datum; list_add  *)
(* puts it in front of the others.                                         *)
ht_for_each ==
    /\ hret' = Answer(NoHKey, 0, Ordered!DataOf(app))
    /\ UNCHANGED entries

ht_to_list ==
    /\ hret' = Answer(NoHKey, 0, PutAtHead(Ordered!DataOf(app), Datum))
    /\ UNCHANGED entries

(* The pointer is used again for an ht_create.                             *)
ht_free ==
    /\ app' = <<>> /\ tbl' = NewTable /\ turned' = <<>>
    /\ hret' = Answer(NoHKey, 0, <<>>)

HashNext ==
    \/ \E k \in HKey :
          \/ ht_remove_entry(k) \/ ht_get_entry(k) \/ ht_has_entry(k)
          \/ \E d \in Datum : ht_add_entry(k, d) \/ ht_add_unique_entry(k, d)
    \/ ht_entry_count \/ ht_for_each \/ ht_to_list \/ ht_free

HashSpec == HashInit /\ [][HashNext]_hashVars
-----------------------------------------------------------------------------
(* Of several entries with one key, the one ht_get_entry returns and       *)
(* ht_remove_entry takes out is the last one added; but every expansion    *)
(* turns the chains round, so that an odd number of expansions since an    *)
(* entry was added puts it behind the ones before it.                      *)
FoundByTurns ==
    \A k \in HKey : Found(k) # <<>> =>
        \E i \in 1..Len(app) :
            /\ app[i] = Found(k)[1]
            /\ FoundOf({j \in 1..Len(app) : app[j].key = k}, i, turned)

(* Collisions, expansions and removals are never seen: the table implements *)
(* a plain ordered one.                                                    *)
ImplementsTable == Ordered!TSpec
=============================================================================
