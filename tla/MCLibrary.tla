----------------------------- MODULE MCLibrary -----------------------------
(* Instance for TLC of what lib/kernel holds: the containers, list.c and      *)
(* hash.c, and the console with the screen behind it.  A behaviour is of the  *)
(* part that PART says.                                                       *)
EXTENDS Lists, Hash, MCConsole

CONSTANTS a, b, c, w, x, y, z

(* Keys with a tie, and keys that are all apart, so that a descending list    *)
(* has as many runs as elements.                                              *)
MCElem == {a, b, c}
MCKeys == {(a :> 2) @@ (b :> 1) @@ (c :> 1), (a :> 3) @@ (b :> 2) @@ (c :> 1)}

(* Four keys apart with hash values that share buckets at every table size,   *)
(* and two elements of one key among colliding ones.                          *)
MCHashElem == {w, x, y, z}
Datum(k, h) == [key |-> k, hash |-> h]
MCData == {(w :> Datum(0, 0)) @@ (x :> Datum(1, 2)) @@ (y :> Datum(2, 3)) @@ (z :> Datum(3, 6)),
           (w :> Datum(0, 5)) @@ (x :> Datum(0, 5)) @@ (y :> Datum(1, 1)) @@ (z :> Datum(2, 4))}

VARIABLE part

OfList(A) == part = "list" /\ A /\ UNCHANGED <<part, hvars, consoleVars>>
OfHash(A) == part = "hash" /\ A /\ UNCHANGED <<part, vars, consoleVars>>
OfConsole(A) == part = "console" /\ A /\ UNCHANGED <<part, vars, hvars>>

MCInit == /\ Init /\ HashInitial /\ ConsoleInit
          /\ part \in {"list", "hash", "console"}
          /\ part # "hash" => datum = CHOOSE d \in Data : TRUE
          /\ part # "list" => key = CHOOSE k \in Keys : TRUE
MCNext == OfList(Next) \/ OfHash(HashStep) \/ OfConsole(ConsoleNext)
MCSpec == MCInit /\ [][MCNext]_<<part, vars, hvars, consoleVars>>
=============================================================================
