---------------------------- MODULE OrderedTable ----------------------------
(***************************************************************************)
(* What the hash table of cutil promises: the entries in the order they    *)
(* were added, several of which may have the same key, and the result of   *)
(* the last call with the key it was given, so that no call may answer for *)
(* another key.  Of the entries with the key asked for, any may be found.  *)
(***************************************************************************)
EXTENDS Integers, Sequences

CONSTANTS HKey, NoHKey, Datum

VARIABLES tab, hret

Answer(k, err, out) == [key |-> k, err |-> err, out |-> out]
Failed(k) == Answer(k, -1, <<>>)
HasKey(k) == \E i \in 1..Len(tab) : tab[i].key = k
DataOf(s) == [i \in 1..Len(s) |-> s[i].data]
Reversed(s) == [i \in 1..Len(s) |-> s[Len(s) + 1 - i]]
Without(s, n) == [i \in 1..(Len(s) - 1) |-> IF i < n THEN s[i] ELSE s[i + 1]]

TInit == tab = <<>> /\ hret = Answer(NoHKey, 0, <<>>)

TAdd(k, d) ==
    /\ tab' = Append(tab, [key |-> k, data |-> d])
    /\ hret' = Answer(k, 0, <<>>)

TAddUnique(k, d) ==
    IF HasKey(k) THEN tab' = tab /\ hret' = Failed(k) ELSE TAdd(k, d)

TRemove(k) ==
    \/ ~HasKey(k) /\ tab' = tab /\ hret' = Failed(k)
    \/ \E i \in 1..Len(tab) :
          /\ tab[i].key = k
          /\ tab' = Without(tab, i) /\ hret' = Answer(k, 0, <<>>)

TGet(k) ==
    /\ tab' = tab
    /\ \/ ~HasKey(k) /\ hret' = Failed(k)
       \/ \E i \in 1..Len(tab) :
             tab[i].key = k /\ hret' = Answer(k, 0, <<tab[i].data>>)

THas(k) ==
    tab' = tab /\ hret' = Answer(k, IF HasKey(k) THEN 1 ELSE 0, <<>>)

TCount == tab' = tab /\ hret' = Answer(NoHKey, Len(tab), <<>>)

(* All the entries, in the order they were added or in the opposite one.   *)
TForEach == tab' = tab /\ hret' = Answer(NoHKey, 0, DataOf(tab))
TToList == tab' = tab /\ hret' = Answer(NoHKey, 0, DataOf(Reversed(tab)))

TFree == tab' = <<>> /\ hret' = Answer(NoHKey, 0, <<>>)

TNext ==
    \/ \E k \in HKey :
          \/ TRemove(k) \/ TGet(k) \/ THas(k)
          \/ \E d \in Datum : TAdd(k, d) \/ TAddUnique(k, d)
    \/ TCount \/ TForEach \/ TToList \/ TFree

TSpec == TInit /\ [][TNext]_<<tab, hret>>
=============================================================================
