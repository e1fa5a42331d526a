------------------------------ MODULE Storage ------------------------------
(***************************************************************************)
(* MemoryStorage, the list of entries that implements the trait Storage,   *)
(* and LtftStorage on top of it (engine-core/src/storage.rs).  The cells   *)
(* of the long-term fuel trim are data of LtftLength bytes under their own *)
(* key.                                                                    *)
(***************************************************************************)
EXTENDS Naturals, Sequences, FiniteSetsExt

CONSTANTS
    Key, Writer, None,
    Slots, Room,        \* of the two heapless vectors
    Lengths,            \* bound: lengths of data and of buffers
    LtftKey, LtftLength \* LTFT_STORAGE_KEY, LTFT_CELL_COUNT * 12

StorageAssumption ==
    /\ Slots \in Nat /\ Room \in Nat /\ Lengths \subseteq Nat
    /\ LtftKey \in Key /\ LtftLength \in Lengths

VARIABLES
    data,       \* the entries, oldest first: [key, value]
    result,     \* of the latest call
    trims       \* what load_ltft returned last: the writer of the cells, an error, or None

vars == <<data, result, trims>>

Value == [length : Lengths, by : Writer]
Entry(k, v) == [key |-> k, value |-> v]
Ok(value) == [error |-> None, value |-> value]
Error(e) == [error |-> e, value |-> None]

Init == data = <<>> /\ result = None /\ trims = None

\* The first entry with the key; 0 when there is none.
Position(k) ==
    LET at == {i \in DOMAIN data : data[i].key = k} IN IF at = {} THEN 0 ELSE Min(at)

\* mutant: an entry with the key is not looked for
Store_Appended(k, v) ==
    IF Len(data) < Slots THEN data' = Append(data, Entry(k, v)) /\ result' = Ok(None)
    ELSE result' = Error("WriteFailed") /\ UNCHANGED data
Store(k, v) ==
    IF v.length > Room \/ (Position(k) = 0 /\ Len(data) >= Slots)
    THEN result' = Error("WriteFailed") /\ UNCHANGED data
    ELSE /\ result' = Ok(None)
         /\ data' = IF Position(k) # 0 THEN [data EXCEPT ![Position(k)].value = v]
                    ELSE Append(data, Entry(k, v))

Write(k, v) == Store(k, v) /\ UNCHANGED trims

Fetched(k, size) ==
    IF Position(k) = 0 THEN Error("ReadFailed")
    ELSE LET v == data[Position(k)].value
         IN  Ok([v EXCEPT !.length = IF @ < size THEN @ ELSE size])
Read(k, size) == result' = Fetched(k, size) /\ UNCHANGED <<data, trims>>

Erase(k) ==
    /\ IF Position(k) = 0 THEN result' = Error("ReadFailed") /\ UNCHANGED data
       ELSE /\ data' = SubSeq(data, 1, Position(k) - 1) \o SubSeq(data, Position(k) + 1, Len(data))
            /\ result' = Ok(None)
    /\ UNCHANGED trims

Clear == data' = <<>> /\ result' = None /\ UNCHANGED trims

\* save_ltft and load_ltft; erase_ltft is Erase(LtftKey)
SaveLtft(w) == Store(LtftKey, [length |-> LtftLength, by |-> w]) /\ UNCHANGED trims
LoadLtft ==
    LET r == Fetched(LtftKey, LtftLength) IN
    /\ result' = r
    /\ trims' = IF r.error # None THEN r.error
                ELSE IF r.value.length # LtftLength THEN "InvalidData" ELSE r.value.by
    /\ UNCHANGED data

Next ==
    \/ \E k \in Key : Erase(k) \/ (\E v \in Value : Write(k, v)) \/ (\E size \in Lengths : Read(k, size))
    \/ \E w \in Writer : SaveLtft(w)
    \/ LoadLtft \/ Clear

Spec == Init /\ [][Next]_vars

----------------------------------------------------------------------------
(* Properties.                                                             *)

\* The first entry of a key holds the data of that key.
contents == [k \in {data[i].key : i \in DOMAIN data} |-> data[Position(k)].value]
Map == INSTANCE StorageMap WITH stored <- contents

\* The list is a map, through every order of writing, replacing, erasing and clearing, at its
\* limits too: an erased key has no older data behind it, a full store still takes new data for
\* a key it has, and a refused call changes nothing.
StorageIsAMap == Map!Spec
=============================================================================
