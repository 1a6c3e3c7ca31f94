------------------------------ MODULE KeyedMap ------------------------------
(***************************************************************************)
(* What a dictionary of the object runtime promises its users: a partial   *)
(* map from keys to objects, where setting an object replaces the key's    *)
(* value, setting no object or removing the key drops it, and a lookup     *)
(* returns the current value.  A set may also have no effect (the table    *)
(* could not allocate), which is a stuttering step.  Freeing the map drops *)
(* every key, and nothing is done with it afterwards.                      *)
(***************************************************************************)
CONSTANTS Keys, Objects, NoObject

VARIABLES
    map,    \* key -> its object, or NoObject when the key is absent
    freed   \* the map has been freed

Init == map = [k \in Keys |-> NoObject] /\ freed = FALSE

(* Set (o an object) or remove (o = NoObject) the value of key k.          *)
Put(k, o) == ~freed /\ map' = [map EXCEPT ![k] = o] /\ UNCHANGED freed

(* Free the map. *)
Free == ~freed /\ map' = [k \in Keys |-> NoObject] /\ freed' = TRUE

Next == (\E k \in Keys, o \in Objects \cup {NoObject} : Put(k, o)) \/ Free

Spec == Init /\ [][Next]_<<map, freed>>
=============================================================================
