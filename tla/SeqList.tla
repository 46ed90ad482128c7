------------------------------ MODULE SeqList ------------------------------
(***************************************************************************)
(* What the struct list of cutil promises: a sequence of values, numbered  *)
(* from 1.  The position the last call was given and the value it returned *)
(* are part of the state, so that no call may answer for another position. *)
(***************************************************************************)
EXTENDS Naturals, Sequences

CONSTANTS Value, NoValue

VARIABLES lst, lpos, lgot

Inserted(s, n, x) ==
    [i \in 1..(Len(s) + 1) |->
        IF i < n THEN s[i] ELSE IF i = n THEN x ELSE s[i - 1]]
Without(s, n) == [i \in 1..(Len(s) - 1) |-> IF i < n THEN s[i] ELSE s[i + 1]]

SInit == lst = <<>> /\ lpos = 0 /\ lgot = NoValue

SInsert(n, v) ==
    /\ n \in 1..(Len(lst) + 1)
    /\ lst' = Inserted(lst, n, v) /\ lpos' = n /\ lgot' = NoValue

SRemove(n) ==
    /\ n \in 1..Len(lst)
    /\ lst' = Without(lst, n) /\ lpos' = n /\ lgot' = NoValue

(* Element 0 is the NULL of the front sentinel.                            *)
SGet(n) ==
    /\ n \in 0..Len(lst)
    /\ lgot' = (IF n = 0 THEN NoValue ELSE lst[n])
    /\ lpos' = n /\ lst' = lst

SFree == lst' = <<>> /\ lpos' = 0 /\ lgot' = NoValue

SNext ==
    \/ \E n \in 1..(Len(lst) + 1), v \in Value : SInsert(n, v)
    \/ \E n \in 1..Len(lst) : SRemove(n)
    \/ \E n \in 0..Len(lst) : SGet(n)
    \/ SFree

SSpec == SInit /\ [][SNext]_<<lst, lpos, lgot>>
=============================================================================
