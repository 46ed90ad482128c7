-------------------------- MODULE MCClientExchange --------------------------
(* A seeder s1 and a client l1, of which one asks and the other only serves *)
(* (and, as the tracker lists everybody, may ask itself).                   *)
EXTENDS ClientExchange, TLC

CONSTANTS s1, l1

MCConfig == {s1 :> "sleepy" @@ l1 :> "advanced",
             s1 :> "sleepy" @@ l1 :> "prompt",
             s1 :> "prompt" @@ l1 :> "sleepy"}
=============================================================================
