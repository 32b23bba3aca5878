------------------------------ MODULE BlockCache -----------------------------
(***************************************************************************)
(* The cache of blocks a reader keeps (cache.rs), as the sequence of what  *)
(* it holds from the least to the most recently used: the order of the     *)
(* clock values its slots carry, which is all it takes from them.          *)
(***************************************************************************)
EXTENDS Integers, Sequences

Empty == << >>

Keys(slots) == {slots[i].key : i \in 1..Len(slots)}
Slot(slots, key) == CHOOSE i \in 1..Len(slots) : slots[i].key = key

\* Reading a key that is held makes it the most recently used.
Get(slots, key) ==
    LET i == Slot(slots, key)
    IN  SubSeq(slots, 1, i - 1) \o SubSeq(slots, i + 1, Len(slots)) \o <<slots[i]>>

\* A full cache gives up the least recently used.
Insert(slots, capacity, key, value) ==
    IF capacity = 0 THEN slots
    ELSE Append(IF Len(slots) < capacity THEN slots ELSE Tail(slots),
                [key |-> key, value |-> value])

\* What a reader of a block does: `get`, and `insert` of what the source gave on a miss.
Access(slots, capacity, key, value) ==
    IF key \in Keys(slots) THEN Get(slots, key) ELSE Insert(slots, capacity, key, value)
=============================================================================
