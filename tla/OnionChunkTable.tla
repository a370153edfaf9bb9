-------------------------- MODULE OnionChunkTable --------------------------
(***************************************************************************)
(* One group of the OnionPIR CHUNK database, which both sides lay out.     *)
(*                                                                         *)
(* gen_2_onion places the packed entries of a group into a table of        *)
(* one-slot bins under six hash functions and stores the table and the     *)
(* hashes of the bins.  The server reads the table back and lets bin b     *)
(* answer with the entry the table names, or with entry 0 where the table  *)
(* is empty.  A client never receives the table: it derives the entries of *)
(* the group and runs the same insertion again to know the bin of an       *)
(* entry.  A failed insertion ends the build; the client only logs it and  *)
(* goes on with the next entry.                                            *)
(*                                                                         *)
(* Entries are 0..N-1, inserted in this order by both; the hash functions  *)
(* are any functions, the same for both (the seed is the database's).      *)
(***************************************************************************)
EXTENDS Integers

CONSTANTS N,           \* entries of the group
          B,           \* bins_per_table
          H,           \* CUCKOO_NUM_HASHES
          MaxKicks,    \* CUCKOO_MAX_KICKS
          Slots        \* num_plaintexts: slots of the entry store

ChunkTableAssumption ==
    N \in Nat \ {0} /\ B \in Nat \ {0} /\ H \in Nat \ {0, 1} /\ MaxKicks \in Nat \ {0}
    /\ Slots \in Nat

Entries == 0..(N - 1)
Bins == 0..(B - 1)
Hashes == 0..(H - 1)
EMPTY == N                                  \* u32::MAX
Zeros == N                                  \* the bytes of a slot or leaf without entry
NoTable == {}

VARIABLES hash,        \* cuckoo_hash_int of each entry under each key
          who,         \* the side running the insertion: "builder" or "client"
          table, next, \* its table so far and the entry it inserts
          current_id, current_hash_fn, current_bin, kick,
          pc,          \* "insert", "evict", "serve", "ready" or "panicked"
          stored,      \* the table in the cuckoo file, as {} or {table}
          served       \* what the server answers for each bin, as {} or {answers}

vars == <<hash, who, table, next, current_id, current_hash_fn, current_bin, kick, pc,
          stored, served>>

TypeOK ==
    /\ hash \in [Entries \X Hashes -> Bins]
    /\ who \in {"builder", "client"}
    /\ table \in [Bins -> Entries \union {EMPTY}]
    /\ next \in 0..N
    /\ current_id \in Entries \union {EMPTY}
    /\ current_hash_fn \in Hashes
    /\ current_bin \in Bins
    /\ kick \in 0..MaxKicks
    /\ pc \in {"insert", "evict", "serve", "ready", "panicked"}
    /\ \A t \in stored : t \in [Bins -> Entries \union {EMPTY}]
    /\ \A t \in served : t \in [Bins -> Entries \union {Zeros}]

EmptyTable == [b \in Bins |-> EMPTY]

----------------------------------------------------------------------------
(* The insertion, step by step. *)

\* The cuckoo file, written when every table is built.
Save(t) == stored' = {t}

\* After an entry: the next one, or the end of the loop.
NextEntry(t) ==
    /\ next' = next + 1
    /\ IF next + 1 < N THEN pc' = "insert" /\ UNCHANGED stored
       ELSE IF who = "builder" THEN pc' = "serve" /\ Save(t)
       ELSE pc' = "ready" /\ UNCHANGED stored

\* The first of the entry's bins that is empty.
Place ==
    /\ pc = "insert"
    /\ \E h \in Hashes :
          /\ table[hash[<<next, h>>]] = EMPTY
          /\ \A g \in Hashes : g < h => table[hash[<<next, g>>]] # EMPTY
          /\ table' = [table EXCEPT ![hash[<<next, h>>]] = next]
    /\ NextEntry(table')
    /\ UNCHANGED <<hash, who, current_id, current_hash_fn, current_bin, kick, served>>

BeginEvict ==
    /\ pc = "insert"
    /\ \A h \in Hashes : table[hash[<<next, h>>]] # EMPTY
    /\ current_id' = next
    /\ current_hash_fn' = 0
    /\ current_bin' = hash[<<next, 0>>]
    /\ kick' = 0
    /\ pc' = "evict"
    /\ UNCHANGED <<hash, who, table, next, stored, served>>

Swapped == [table EXCEPT ![current_bin] = current_id]

\* The hash functions from the one after current_hash_fn, in the order tried.
Tried(h) == (current_hash_fn + 1 + h) % H

\* The evicted entry may move to its bin under Tried(h).
Free(evicted, h) ==
    LET bin == hash[<<evicted, Tried(h)>>] IN
    bin # current_bin /\ Swapped[bin] = EMPTY

Resettle ==
    /\ pc = "evict" /\ kick < MaxKicks
    /\ \E h \in Hashes :
          LET evicted == table[current_bin] IN
          /\ Free(evicted, h)
          /\ \A g \in Hashes : g < h => ~Free(evicted, g)
          /\ table' = [Swapped EXCEPT ![hash[<<evicted, Tried(h)>>]] = evicted]
    /\ NextEntry(table')
    /\ UNCHANGED <<hash, who, current_id, current_hash_fn, current_bin, kick, served>>

\* No bin of the evicted entry is empty: it goes on with the next round.
Kick ==
    /\ pc = "evict" /\ kick < MaxKicks
    /\ LET evicted == table[current_bin]
           alt_h == (current_hash_fn + 1 + (kick % (H - 1))) % H
           alt_bin == hash[<<evicted, alt_h>>]
       IN  /\ \A h \in Hashes : ~Free(evicted, h)
           /\ table' = Swapped
           /\ current_id' = evicted
           /\ current_hash_fn' = alt_h
           /\ current_bin' = IF alt_bin = current_bin
                             THEN hash[<<evicted, (alt_h + 1) % H>>] ELSE alt_bin
    /\ kick' = kick + 1
    /\ UNCHANGED <<hash, who, next, pc, stored, served>>

\* The rounds are used up: the build panics, a client logs it and inserts
\* the next entry.
GiveUp ==
    /\ pc = "evict" /\ kick = MaxKicks
    /\ IF who = "builder" THEN pc' = "panicked" /\ UNCHANGED <<next, stored>>
       ELSE NextEntry(table)
    /\ UNCHANGED <<hash, who, table, current_id, current_hash_fn, current_bin, kick, served>>

----------------------------------------------------------------------------
(* The server loads the file; then a client that needs an entry of the     *)
(* group runs the insertion for itself.                                    *)

\* The store of all entries, which the build pushes in batches of consecutive
\* ids: entry i is in slot i, and the slots after the last entry stay zero.
ntt_store == [slot \in 0..(Slots - 1) |-> IF slot \in Entries THEN slot ELSE Zeros]

\* The index table the server hands to OnionPIR: 0 where the bin is empty.
IndexTable(t) == [b \in Bins |-> IF t[b] = EMPTY THEN 0 ELSE t[b]]

\* A chunk server answers bin b from the slot of the shared store that its
\* index table names.
set_shared_database(index) == [b \in Bins |-> ntt_store[index[b]]]

ServerLoads ==
    /\ pc = "serve"
    /\ \E t \in stored : served' = {set_shared_database(IndexTable(t))}
    /\ who' = "client"
    /\ table' = EmptyTable
    /\ next' = 0
    /\ kick' = 0
    /\ current_id' = EMPTY
    /\ current_hash_fn' = 0
    /\ current_bin' = 0
    /\ pc' = "insert"
    /\ UNCHANGED <<hash, stored>>

Init ==
    /\ hash \in [Entries \X Hashes -> Bins]
    /\ who = "builder"
    /\ table = EmptyTable
    /\ next = 0
    /\ current_id = EMPTY /\ current_hash_fn = 0 /\ current_bin = 0 /\ kick = 0
    /\ pc = IF N > Slots THEN "panicked" ELSE "insert"
    /\ stored = NoTable /\ served = NoTable

Next == Place \/ BeginEvict \/ Resettle \/ Kick \/ GiveUp \/ ServerLoads

Spec == Init /\ [][Next]_vars

----------------------------------------------------------------------------
(* Reading an entry. *)

\* The bin the client asks for, as {} or {bin}.
find_in_chunk_cuckoo(i) ==
    {hash[<<i, h>>] : h \in {h \in Hashes :
        /\ table[hash[<<i, h>>]] = i
        /\ \A g \in Hashes : g < h => table[hash[<<i, g>>]] # i}}

\* The leaf the build commits to for a bin: the entry's bytes, or zeros.
Committed(t, b) == IF t[b] = EMPTY THEN Zeros ELSE t[b]

----------------------------------------------------------------------------
(* Properties. *)

\* An insertion in progress keeps every earlier entry, in a bin of its own
\* or in hand, for as long as it has not failed.
NothingLost ==
    (who = "builder" /\ pc # "panicked") =>
        \A i \in Entries :
            (i < next \/ (i = next /\ pc = "evict")) =>
                IF pc = "evict" /\ i = current_id
                THEN \A b \in Bins : table[b] # i
                ELSE \E b \in Bins :
                        /\ \A c \in Bins : table[c] = i <=> c = b
                        /\ \E h \in Hashes : hash[<<i, h>>] = b

\* The client's own run of the insertion ends with the table in the file:
\* its failure branch is never taken for a database that could be built.
ClientRebuilds == pc = "ready" => stored = {table}

\* For every entry the client finds a bin, the server answers it with that
\* entry, and the build committed to these bytes for the bin.
EntryServed ==
    pc = "ready" =>
        \A i \in Entries : \E b \in find_in_chunk_cuckoo(i) :
            /\ \A t \in served : t[b] = i
            /\ \A t \in stored : Committed(t, b) = i

=============================================================================
