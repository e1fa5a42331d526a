----------------------------- MODULE StorageMap -----------------------------
(***************************************************************************)
(* What the trait Storage promises (engine-core/src/storage.rs): a map     *)
(* from keys to data with room for so many keys and so many bytes of each; *)
(* a call that fails changes nothing.  Data are known by their length and  *)
(* by who wrote them.                                                      *)
(***************************************************************************)
EXTENDS Naturals, FiniteSets, Functions

CONSTANTS Key, Writer, Slots, Room, Lengths, None

VARIABLES
    stored,     \* the data of each key that has some
    result      \* of the latest call: Ok with data or length, or an error

vars == <<stored, result>>

Data == [length : Lengths, by : Writer]
Empty == [k \in {} |-> None]
Ok(value) == [error |-> None, value |-> value]
Error(e) == [error |-> e, value |-> None]

Init == stored = Empty /\ result = None

Write(k, data) ==
    IF data.length <= Room /\ (k \in DOMAIN stored \/ Cardinality(DOMAIN stored) < Slots)
    THEN stored' = [x \in DOMAIN stored \cup {k} |-> IF x = k THEN data ELSE stored[x]] /\ result' = Ok(None)
    ELSE result' = Error("WriteFailed") /\ UNCHANGED stored

\* Into a buffer of size bytes: the beginning of the data, if they are longer.
Read(k, size) ==
    /\ UNCHANGED stored
    /\ result' = IF k \notin DOMAIN stored THEN Error("ReadFailed")
                 ELSE Ok([stored[k] EXCEPT !.length = IF @ < size THEN @ ELSE size])

Erase(k) ==
    IF k \in DOMAIN stored
    THEN stored' = Restrict(stored, DOMAIN stored \ {k}) /\ result' = Ok(None)
    ELSE result' = Error("ReadFailed") /\ UNCHANGED stored

Clear == stored' = Empty /\ result' = None

Next ==
    \/ \E k \in Key : Erase(k) \/ (\E d \in Data : Write(k, d)) \/ (\E size \in Lengths : Read(k, size))
    \/ Clear

Spec == Init /\ [][Next]_vars
=============================================================================
