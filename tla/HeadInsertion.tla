--------------------------- MODULE HeadInsertion ---------------------------
(***************************************************************************)
(* A loop over a list that the code has in several places: it makes a new  *)
(* list and puts some of the elements at its head, one after the other.    *)
(***************************************************************************)
LOCAL INSTANCE Integers
LOCAL INSTANCE Sequences

(* The new list of the elements of s that are in S.                        *)
PutAtHead(s, S) ==
    LET list[i \in 0..Len(s)] ==
            IF i = 0 THEN <<>>
            ELSE IF s[i] \in S THEN <<s[i]>> \o list[i - 1] ELSE list[i - 1]
    IN  list[Len(s)]
=============================================================================
