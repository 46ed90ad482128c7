----------------------------- MODULE MCRegistry -----------------------------
(* A small instance of Registry: two clients behind one ip address.  Each  *)
(* announces one of two listening addresses, and they share one of them.   *)
EXTENDS Registry, TLC

CONSTANTS c1, c2, a1, a2, a3

MCAddrOf == c1 :> {a1, a2} @@ c2 :> {a2, a3}
=============================================================================
