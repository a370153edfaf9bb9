---------------------------- MODULE CuckooTable ----------------------------
(***************************************************************************)
(* Building one group's cuckoo table and looking an item up in it.         *)
(*                                                                         *)
(* build_cuckoo_generic inserts the items of a PBC group one after the     *)
(* other, in file order.  An item goes into the first free slot of its     *)
(* bins; when they are all full it takes the place of another item, which  *)
(* goes to its own alternative bin, and so on for at most CUCKOO_MAX_KICKS *)
(* rounds.  A build that runs out of rounds panics and writes nothing.     *)
(* The table is then written with an all-zero slot for every empty one,    *)
(* and a client that fetched the bins of an item takes the first slot      *)
(* whose key field matches.                                                *)
(*                                                                         *)
(* The items of a group are 0..N-1 in insertion order.  The hash functions *)
(* are any functions from items to bins: they are chosen in Init and never *)
(* change.  The key field of item i is i + KeyBase: with KeyBase = 0 it is *)
(* the chunk id of the CHUNK table, where chunk 0 has the key an empty     *)
(* slot shows; with KeyBase = 1 it is the tag of the INDEX table, taken to *)
(* be different for different scripts and not zero.                        *)
(***************************************************************************)
EXTENDS Integers

CONSTANTS N,           \* items of the group
          B,           \* bins_per_table
          Slots,       \* slots_per_bin
          H,           \* cuckoo_num_hashes
          MaxKicks,    \* CUCKOO_MAX_KICKS
          KeyBase      \* the key field of the first item

ASSUME CuckooAssumption ==
    /\ N \in Nat /\ B \in Nat \ {0} /\ Slots \in Nat \ {0}
    /\ H \in Nat \ {0} /\ MaxKicks \in Nat /\ KeyBase \in Nat

Items == 0..(N - 1)
Bins == 0..(B - 1)
SlotIds == 0..(Slots - 1)
Hashes == 0..(H - 1)
EMPTY == N                                  \* u32::MAX: not an item
Cells == Bins \X SlotIds

VARIABLES hash,        \* hash_fns: bin of each item under each hash function
          table,       \* the item in each slot, or EMPTY
          next,        \* the item being inserted, N once all are in
          current,     \* the item looking for a place in the eviction chain
          current_bin, \* where it goes
          kick,        \* rounds of the chain so far
          pc           \* "insert", "evict", "built", "written" or "panicked"

vars == <<hash, table, next, current, current_bin, kick, pc>>

TypeOK ==
    /\ hash \in [Items \X Hashes -> Bins]
    /\ table \in [Cells -> Items \union {EMPTY}]
    /\ next \in 0..N
    /\ current \in Items \union {EMPTY}
    /\ current_bin \in Bins
    /\ kick \in 0..MaxKicks
    /\ pc \in {"insert", "evict", "built", "written", "panicked"}

----------------------------------------------------------------------------
(* cuckoo_insert *)

Full(t, b) == \A s \in SlotIds : t[<<b, s>>] # EMPTY

\* s is the slot the scan of bin b stops at.
FirstFree(t, b, s) ==
    /\ t[<<b, s>>] = EMPTY
    /\ \A r \in SlotIds : r < s => t[<<b, r>>] # EMPTY

\* The next item of the group, or the end of the loop over the entries.
NextEntry ==
    /\ next' = next + 1
    /\ pc' = IF next + 1 = N THEN "built" ELSE "insert"

\* A free slot in the first bin that has one.
Place ==
    /\ pc = "insert"
    /\ \E h \in Hashes, s \in SlotIds :
          /\ \A g \in Hashes : g < h => Full(table, hash[<<next, g>>])
          /\ FirstFree(table, hash[<<next, h>>], s)
          /\ table' = [table EXCEPT ![<<hash[<<next, h>>], s>>] = next]
    /\ NextEntry
    /\ UNCHANGED <<hash, current, current_bin, kick>>

\* Every bin of the item is full: the eviction chain begins in the first.
BeginEvict ==
    /\ pc = "insert"
    /\ \A h \in Hashes : Full(table, hash[<<next, h>>])
    /\ current' = next
    /\ current_bin' = hash[<<next, 0>>]
    /\ kick' = 0
    /\ pc' = "evict"
    /\ UNCHANGED <<hash, table, next>>

\* Mutant: the bins of the item in hand, not of the one evicted.
AltBinCurrent(i, b) ==
    IF \E h \in Hashes : hash[<<current, h>>] # b
    THEN hash[<<current, CHOOSE h \in Hashes : hash[<<current, h>>] # b>>]
    ELSE b

\* Where an item evicted from bin b goes: its first other bin, or b itself.
AltBin(i, b) ==
    IF \E h \in Hashes : hash[<<i, h>>] # b
    THEN hash[<<i, CHOOSE h \in Hashes : /\ hash[<<i, h>>] # b
                                         /\ \A g \in Hashes : g < h => hash[<<i, g>>] = b>>]
    ELSE b

EvictSlot == <<current_bin, kick % Slots>>

Swapped == [table EXCEPT ![EvictSlot] = current]

\* One round that ends the chain: the evicted item finds a free slot.
Resettle ==
    /\ pc = "evict" /\ kick < MaxKicks
    /\ \E s \in SlotIds :
          LET evicted == table[EvictSlot]
              alt == AltBin(evicted, current_bin)
          IN  /\ FirstFree(Swapped, alt, s)
              /\ table' = [Swapped EXCEPT ![<<alt, s>>] = evicted]
    /\ current' = EMPTY
    /\ NextEntry
    /\ UNCHANGED <<hash, current_bin, kick>>

\* One round that does not: the evicted item is the next to find a place.
Kick ==
    /\ pc = "evict" /\ kick < MaxKicks
    /\ Full(Swapped, AltBin(table[EvictSlot], current_bin))
    /\ table' = Swapped
    /\ current' = table[EvictSlot]
    /\ current_bin' = AltBin(table[EvictSlot], current_bin)
    /\ kick' = kick + 1
    /\ UNCHANGED <<hash, next, pc>>

\* cuckoo_insert returned false: the builder panics.
GiveUp ==
    /\ pc = "evict" /\ kick = MaxKicks
    /\ pc' = "panicked"
    /\ UNCHANGED <<hash, table, next, current, current_bin, kick>>

\* The serialisation loop, after every table was built.
Serialize ==
    /\ pc = "built"
    /\ pc' = "written"
    /\ UNCHANGED <<hash, table, next, current, current_bin, kick>>

Init ==
    /\ hash \in [Items \X Hashes -> Bins]
    /\ table = [c \in Cells |-> EMPTY]
    /\ next = 0
    /\ current = EMPTY
    /\ current_bin = 0
    /\ kick = 0
    /\ pc = IF N = 0 THEN "built" ELSE "insert"

Next == Place \/ BeginEvict \/ Resettle \/ Kick \/ GiveUp \/ Serialize

Spec == Init /\ [][Next]_vars

----------------------------------------------------------------------------
(* The file and its reader. *)

\* Bytes of item i, and those of an empty slot.
Data(i) == i + 1
ZeroSlot == [key |-> 0, data |-> 0]

SlotBytes(c) ==
    IF table[c] = EMPTY THEN ZeroSlot
    ELSE [key |-> table[c] + KeyBase, data |-> Data(table[c])]

\* The first slot of a bin with this key, as {} or {data}.
find_chunk_in_result(b, key) ==
    {SlotBytes(<<b, s>>).data : s \in {s \in SlotIds :
        /\ SlotBytes(<<b, s>>).key = key
        /\ \A r \in SlotIds : r < s => SlotBytes(<<b, r>>).key # key}}

\* The bins of the item in the order of the hash functions, up to a match.
Lookup(i) ==
    UNION {find_chunk_in_result(hash[<<i, h>>], i + KeyBase) :
             h \in {h \in Hashes :
                      \A g \in Hashes :
                          g < h => find_chunk_in_result(hash[<<i, g>>], i + KeyBase) = {}}}

----------------------------------------------------------------------------
(* Properties. *)

\* Every item inserted so far has exactly one place: a slot of the table, or
\* the hand of the eviction chain (cuckoo_insert never drops or copies one).
NothingLost ==
    \A i \in Items :
        LET held == {c \in Cells : table[c] = i} IN
        IF pc = "insert" /\ i >= next THEN held = {}
        ELSE IF pc \in {"evict", "panicked"} /\ i > next THEN held = {}
        ELSE IF pc \in {"evict", "panicked"} /\ i = current THEN held = {}
        ELSE \E c \in Cells : held = {c}

\* An item sits in a bin one of its own hash functions names, which is where
\* clients look for it.
InOwnBin ==
    \A c \in Cells : table[c] # EMPTY => \E h \in Hashes : hash[<<table[c], h>>] = c[1]

\* A chain only evicts from full bins: it never takes an empty slot for an
\* item, whose index would be out of the range of the entries.
EvictsItems == pc = "evict" => Full(table, current_bin)

\* Once the table is written every item reads back as its own bytes, chunk 0
\* included, whose key is also that of the empty slots of its bins.
ReadsBack == pc = "written" => \A i \in Items : Lookup(i) = {Data(i)}

\* A cuckoo build of one group: during a chain of evictions no item is lost or
\* doubled and each lies in a bin of its own, a bin is evicted from only when
\* it is full, and from the written table a client reads every item back.
TableSafe == TypeOK /\ NothingLost /\ InOwnBin /\ EvictsItems /\ ReadsBack
=============================================================================
