------------------------------ MODULE EvDict ------------------------------
(***************************************************************************)
(* What the store of environment variables promises the host: a mapping    *)
(* from names to data that a set, a delete or a clear changes as a whole,  *)
(* and that nothing else changes.                                          *)
(***************************************************************************)
CONSTANTS
    Name,       \* the names of environment variables
    Data,       \* what can be stored under a name
    Missing     \* the name is not in the store

VARIABLE dict

Init == dict = [n \in Name |-> Missing]

Set(n, d) == dict' = [dict EXCEPT ![n] = d]

Delete(n) == dict' = [dict EXCEPT ![n] = Missing]

Clear == dict' = [n \in Name |-> Missing]

Next ==
    \/ \E n \in Name, d \in Data : Set(n, d)
    \/ \E n \in Name : Delete(n)
    \/ Clear

Spec == Init /\ [][Next]_dict
=============================================================================
