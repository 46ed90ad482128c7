------------------------------ MODULE MCParts ------------------------------
(* The sequential parts, each on its own: a behaviour exercises one of     *)
(* them and leaves the others as they are at the start.                    *)
EXTENDS CircularBuffer, CachedList, HashTable, Config, Look, TLC

CONSTANTS k1, k2, k3, d1, d2, d3, d4, va, vb, n1, n2, n3, n4

\* k1 and k2 share a bucket until the table has been expanded twice.
\* Options share one until it has been expanded.
MCHash == (k1 :> 0) @@ (k2 :> 4) @@ (k3 :> 1)
          @@ ("port" :> 0) @@ ("daemonize" :> 2) @@ ("conf" :> 1) @@ ("1" :> 0)

MCNumber == [t \in Text |-> IF t = One THEN 1 ELSE 0]

MCLookFile == {[name |-> va, size |-> 1, piece |-> 1, hash |-> va],
               [name |-> vb, size |-> 2, piece |-> 1, hash |-> vb],
               [name |-> vb, size |-> 0, piece |-> 2, hash |-> va]}
MCLookNumber == {-1, 1}

Symmetry == Permutations(Datum)

VARIABLE part
allVars == <<vars, listVars, hashVars, configVars, lookVars, part>>

PartsInit ==
    /\ Init /\ ListInit /\ HashInit /\ ConfigInit /\ LookInit
    /\ part \in {"buffer", "list", "hash", "config", "look"}
    /\ part = "buffer" \/ use = "in"
    /\ part = "look" \/ table = <<>>

PartsNext ==
    /\ UNCHANGED part
    /\ \/ /\ part = "buffer" /\ Next
          /\ UNCHANGED <<listVars, hashVars, configVars, lookVars>>
       \/ /\ part = "list" /\ ListNext
          /\ UNCHANGED <<vars, hashVars, configVars, lookVars>>
       \/ /\ part = "hash" /\ HashNext
          /\ UNCHANGED <<vars, listVars, configVars, lookVars>>
       \/ /\ part = "config" /\ ConfigNext
          /\ UNCHANGED <<vars, listVars, hashVars, lookVars>>
       \/ /\ part = "look" /\ LookNext
          /\ UNCHANGED <<vars, listVars, hashVars, configVars>>

PartsSpec == PartsInit /\ [][PartsNext]_allVars

\* Long files have two texts only; a file is short beside options, absent
\* beside three of them, and read no further once it has something odd.
FileTexts ==
    {keyname} \cup UNION {{nodes[i].text} \cup
                            {nodes[i].kids[j].key : j \in 1..Len(nodes[i].kids)} :
                          i \in 1..Len(nodes)}
MCBound ==
    /\ nevents > 5 => FileTexts \subseteq {Port, One, None, Freed}
    /\ nargs > 0 \/ odd # {} => nevents <= 4
    /\ nargs > 2 => nevents = 0
=============================================================================
