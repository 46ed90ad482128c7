----------------------------- MODULE ByteQueue ------------------------------
(***************************************************************************)
(* What a Buffer of the C++ tracker promises its users: bytes come out     *)
(* once, in the order they went in, any number at a time or up to and      *)
(* without a newline.  exact says how long the promise has been kept.      *)
(***************************************************************************)
EXTENDS Integers, Sequences

CONSTANT NL          \* the newline

VARIABLES q,         \* the bytes in the buffer
          got,       \* what the last operation took out of it
          exact      \* no operation has broken the promise

Init == q = <<>> /\ got = <<>> /\ exact = TRUE

Rest(n) == SubSeq(q, n + 1, Len(q))

Put ==
    /\ Len(q') >= Len(q) /\ SubSeq(q', 1, Len(q)) = q
    /\ got' = <<>>

Take ==
    \E n \in 1..Len(q) : got' = SubSeq(q, 1, n) /\ q' = Rest(n)

TakeLine ==
    \E n \in 1..Len(q) :
        /\ q[n] = NL /\ \A m \in 1..(n - 1) : q[m] # NL
        /\ got' = SubSeq(q, 1, n - 1) /\ q' = Rest(n)

Next ==
    \/ exact /\ exact' = TRUE /\ (Put \/ Take \/ TakeLine)
    \/ exact' = FALSE

Spec == Init /\ [][Next]_<<q, got, exact>>
=============================================================================
