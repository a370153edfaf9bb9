----------------------------- MODULE ChunkBuild -----------------------------
(***************************************************************************)
(* The two ways a database is laid out on disk, and how clients find a     *)
(* record in it again.                                                     *)
(*                                                                         *)
(* Chunks (build_utxo_chunks.rs, delta_gen_1_build_chunks.rs): a record    *)
(* takes whole chunks; the index gives its first chunk and their number,   *)
(* and zero chunks mean a whale.  Packed entries (gen_1_onion.rs,          *)
(* delta_gen_1_onion.rs): several records share one entry of the OnionPIR  *)
(* plaintext size, a record that does not fit starts a new entry, a larger *)
(* one spans several; the index gives entry, offset and number of entries, *)
(* and one reserved number means a whale.                                  *)
(*                                                                         *)
(* A builder takes a full set partition by partition, in hash-map order    *)
(* (chunks) or sorted (packed entries), and a delta in the order of the    *)
(* grouped file, which is hash-map order.                                  *)
(***************************************************************************)
EXTENDS UtxoChain

CONSTANTS Rank,         \* [script -> Nat]: order of the script hashes
          Partitions,   \* number of partitions of a full build
          ENTRY_SIZE,   \* tokens in one packed entry
          MAX_ENTRIES,  \* largest number of entries the index byte holds
          FLAG_WHALE,   \* reserved number of entries
          MaxBlocks     \* bound: length of the chain

ChunkBuildAssumption ==
    /\ Rank \in [Scripts -> Nat]
    /\ Partitions \in Nat \ {0}
    /\ ENTRY_SIZE \in Nat \ {0}
    /\ MAX_ENTRIES \in Nat \ {0}
    /\ FLAG_WHALE \in Nat
    /\ MaxBlocks \in Nat

VARIABLES chain,   \* the blocks so far
          job,     \* what is being built: layout, kind, from, to, part, todo
          stage,   \* "idle", "pack", "done" or "abort" (a failed assertion)
          index,   \* [script -> slot] of the index file
          file,    \* the chunks or packed entries written
          cur,     \* Packer: the entry being filled ...
          pos      \* ... and how much of it is taken

vars == <<chain, job, stage, index, file, cur, pos>>

Blank == [i \in 1 .. ENTRY_SIZE |-> 0]

NoJob == [layout |-> "chunks", kind |-> "full", from |-> 0, to |-> 0, part |-> 0, todo |-> {}]

Init ==
    /\ chain = <<>>
    /\ job = NoJob
    /\ stage = "idle"
    /\ index = <<>>
    /\ file = <<>>
    /\ cur = Blank
    /\ pos = 0

IndexSlots == [start : Nat, off : Nat, num : Nat]

TypeOK ==
    /\ chain \in Seq(Block)
    /\ job.layout \in {"chunks", "packed"} /\ job.kind \in {"full", "delta"}
    /\ job.from \in 0 .. MaxBlocks /\ job.to \in 0 .. MaxBlocks
    /\ job.part \in 0 .. Partitions /\ job.todo \subseteq Scripts
    /\ stage \in {"idle", "pack", "done", "abort"}
    /\ DOMAIN index \subseteq Scripts
    /\ \A s \in DOMAIN index : index[s] \in IndexSlots
    /\ pos \in 0 .. ENTRY_SIZE
    /\ \A i \in DOMAIN file :
          Len(file[i]) = IF job.layout = "chunks" THEN BLOCK_SIZE ELSE ENTRY_SIZE
----------------------------------------------------------------------------
(* The chain grows; a builder is started on it. *)

Mine ==
    /\ stage = "idle"
    /\ Len(chain) < MaxBlocks
    /\ \E new \in SUBSET (Outpoints \ Created(chain, Len(chain))) :
          LET live == (Created(chain, Len(chain)) \cup new) \ Consumed(chain, Len(chain))
          IN \E gone \in SUBSET {o \in live : Worth[o] # "burn"} :
                chain' = Append(chain, [created |-> new, spent |-> gone])
    /\ UNCHANGED <<job, stage, index, file, cur, pos>>

\* A builder opens its input and creates its two output files.
Begin(layout, kind, from, to, todo) ==
    /\ stage = "idle"
    /\ job' = [layout |-> layout, kind |-> kind, from |-> from, to |-> to,
               part |-> 0, todo |-> todo]
    /\ stage' = "pack"
    /\ UNCHANGED <<chain, index, file, cur, pos>>

\* build_utxo_chunks and gen_1_onion read the flat UTXO set of a snapshot.
StartChunks ==
    \E h \in DOMAIN chain : Begin("chunks", "full", 0, h, FullScripts(chain, h))

StartPacked ==
    \E h \in DOMAIN chain : Begin("packed", "full", 0, h, FullScripts(chain, h))

\* delta_gen_1_build_chunks and delta_gen_1_onion read the grouped file.
StartDeltaChunks ==
    \E a, b \in DOMAIN chain : a < b /\ Begin("chunks", "delta", a, b, DeltaScripts(chain, a, b))

StartDeltaPacked ==
    \E a, b \in DOMAIN chain : a < b /\ Begin("packed", "delta", a, b, DeltaScripts(chain, a, b))
----------------------------------------------------------------------------
(* One record. *)

InPartition(s) == job.kind = "delta" \/ Rank[s] % Partitions = job.part

\* The record to write next.
Turn(s) ==
    /\ stage = "pack"
    /\ s \in job.todo
    /\ InPartition(s)
    /\ job.layout = "packed" /\ job.kind = "full" =>
          \A t \in job.todo : InPartition(t) => Rank[s] <= Rank[t]

Bytes(s) ==
    IF job.kind = "full" THEN FullBytes(chain, job.to, s)
                         ELSE DeltaBytes(chain, job.from, job.to, s)

Slot(s, start, off, num) == (s :> [start |-> start, off |-> off, num |-> num]) @@ index

Written(s) == job' = [job EXCEPT !.todo = @ \ {s}]

\* Data cut into pieces of n tokens, the last one padded with zeros.
Pieces(data, n) ==
    [k \in 1 .. div_ceil(Len(data), n) |->
        [i \in 1 .. n |-> LET j == (k - 1) * n + i IN IF j <= Len(data) THEN data[j] ELSE 0]]

TooLarge(s) ==
    IF job.kind = "full"
    THEN FullWhale(chain, job.to, s)
    ELSE LET unit  == IF job.layout = "chunks" THEN BLOCK_SIZE ELSE ENTRY_SIZE
             limit == IF job.layout = "chunks" THEN MAX_CHUNKS_PER_SPK ELSE MAX_ENTRIES
         IN div_ceil(Len(Bytes(s)), unit) > limit

\* A whale has an index slot and no data.
SentinelChunks(s) ==
    /\ Turn(s) /\ job.layout = "chunks" /\ TooLarge(s)
    /\ index' = Slot(s, 0, 0, 0)
    /\ Written(s)
    /\ UNCHANGED <<chain, stage, file, cur, pos>>

\* The record's blocks go to the end of the chunk file.
AppendBlocks(s, blocks) ==
    /\ index' = Slot(s, Len(file), 0, Len(blocks))
    /\ file' = file \o blocks
    /\ Written(s)
    /\ UNCHANGED stage

\* The build asserts that a full record's chunk count fits the index byte.
WriteChunks(s) ==
    /\ Turn(s) /\ job.layout = "chunks" /\ job.kind = "full" /\ ~TooLarge(s)
    /\ LET blocks == Pieces(Bytes(s), BLOCK_SIZE)
       IN IF Len(blocks) > MAX_CHUNKS_PER_SPK
          THEN /\ stage' = "abort"
               /\ UNCHANGED <<index, file, job>>
          ELSE AppendBlocks(s, blocks)
    /\ UNCHANGED <<chain, cur, pos>>

\* A delta's chunk count was compared with the limit before.
WriteDeltaChunks(s) ==
    /\ Turn(s) /\ job.layout = "chunks" /\ job.kind = "delta" /\ ~TooLarge(s)
    /\ AppendBlocks(s, Pieces(Bytes(s), BLOCK_SIZE))
    /\ UNCHANGED <<chain, cur, pos>>

SentinelPacked(s) ==
    /\ Turn(s) /\ job.layout = "packed" /\ TooLarge(s)
    /\ index' = Slot(s, 0, 0, FLAG_WHALE)
    /\ Written(s)
    /\ UNCHANGED <<chain, stage, file, cur, pos>>
----------------------------------------------------------------------------
(* Packer. *)

\* The entry with the data laid down after its first p tokens.
Laid(entry, p, data) ==
    [i \in 1 .. ENTRY_SIZE |-> IF p < i /\ i <= p + Len(data) THEN data[i - p] ELSE entry[i]]

\* Write a started entry out, zeros to its end.
flush_entry(pk) ==
    IF pk.pos > 0 THEN [file |-> Append(pk.file, pk.cur), cur |-> Blank, pos |-> 0] ELSE pk

FlushIfFull(pk) == IF pk.pos = ENTRY_SIZE THEN flush_entry(pk) ELSE pk

\* Fits in what is left of the current entry.
PackHere(pk, data) ==
    [pk   |-> FlushIfFull([pk EXCEPT !.cur = Laid(@, pk.pos, data), !.pos = @ + Len(data)]),
     slot |-> [start |-> Len(pk.file), off |-> pk.pos, num |-> 1]]

\* Larger than an entry: from the start of a fresh one, over as many as it
\* takes; the last one stays open for the next record.
PackSpan(pk, data) ==
    LET fresh == flush_entry(pk)
        parts == Pieces(data, ENTRY_SIZE)
        rest  == Len(data) - (Len(parts) - 1) * ENTRY_SIZE
    IN [pk   |-> FlushIfFull([file |-> fresh.file \o Front(parts), cur |-> Last(parts), pos |-> rest]),
        slot |-> [start |-> Len(fresh.file), off |-> 0, num |-> Len(parts)]]

pack(pk, data) ==
    IF Len(data) <= ENTRY_SIZE - pk.pos THEN PackHere(pk, data)
    ELSE IF Len(data) <= ENTRY_SIZE THEN PackHere(flush_entry(pk), data)
    ELSE PackSpan(pk, data)

\* Packing asserts that a record's entry count fits the index byte.
PackRecord(s) ==
    /\ Turn(s) /\ job.layout = "packed" /\ ~TooLarge(s)
    /\ LET out == pack([file |-> file, cur |-> cur, pos |-> pos], Bytes(s))
       IN IF out.slot.num > MAX_ENTRIES
          THEN /\ stage' = "abort"
               /\ UNCHANGED <<index, file, cur, pos, job>>
          ELSE /\ index' = Slot(s, out.slot.start, out.slot.off, out.slot.num)
               /\ file' = out.pk.file /\ cur' = out.pk.cur /\ pos' = out.pk.pos
               /\ Written(s)
               /\ UNCHANGED stage
    /\ UNCHANGED chain

WritePacked(s) == job.kind = "full" /\ PackRecord(s)

WriteDeltaPacked(s) == job.kind = "delta" /\ PackRecord(s)

NextPartition ==
    /\ stage = "pack" /\ job.kind = "full"
    /\ job.part < Partitions
    /\ \A s \in job.todo : ~InPartition(s)
    /\ job' = [job EXCEPT !.part = @ + 1]
    /\ UNCHANGED <<chain, stage, index, file, cur, pos>>

\* Every record is written.
AllWritten ==
    /\ stage = "pack" /\ job.todo = {}
    /\ job.kind = "full" => job.part = Partitions

\* The chunk builders flush their writers: no block is open.
FinishChunks ==
    /\ AllWritten /\ job.layout = "chunks"
    /\ stage' = "done"
    /\ UNCHANGED <<chain, job, index, file, cur, pos>>

\* Packer::finish writes the open entry out.
finish ==
    /\ AllWritten /\ job.layout = "packed"
    /\ LET done == flush_entry([file |-> file, cur |-> cur, pos |-> pos])
       IN file' = done.file /\ cur' = done.cur /\ pos' = done.pos
    /\ stage' = "done"
    /\ UNCHANGED <<chain, job, index>>

Next ==
    \/ Mine \/ StartChunks \/ StartPacked \/ StartDeltaChunks \/ StartDeltaPacked
    \/ NextPartition \/ FinishChunks \/ finish
    \/ \E s \in Scripts :
          \/ SentinelChunks(s) \/ WriteChunks(s) \/ WriteDeltaChunks(s)
          \/ SentinelPacked(s) \/ WritePacked(s) \/ WriteDeltaPacked(s)

Spec == Init /\ [][Next]_vars
----------------------------------------------------------------------------
(* Reading a record back. *)

Concat(parts) == FoldLeft(LAMBDA acc, x : acc \o x, <<>>, parts)

\* DPF and HarmonyPIR: the chunks the slot names.
ReadChunks(slot) == Concat(SubSeq(file, slot.start + 1, slot.start + slot.num))

\* OnionPIR: the entries the slot names, the first one from the offset on.
assemble_entry_bytes(slot) ==
    LET whole == Concat(SubSeq(file, slot.start + 1, slot.start + slot.num))
    IN SubSeq(whole, slot.off + 1, Len(whole))

\* The reserved number reads as zero entries.
scan_index_bin(slot) == IF slot.num = FLAG_WHALE THEN [slot EXCEPT !.num = 0] ELSE slot

SlotSeen(s) == IF job.layout = "packed" THEN scan_index_bin(index[s]) ELSE index[s]

ReadAbsent(s) == s \notin DOMAIN index

ReadWhale(s) == ~ReadAbsent(s) /\ SlotSeen(s).num = 0

ReadBytes(s) ==
    IF job.layout = "packed" THEN assemble_entry_bytes(SlotSeen(s)) ELSE ReadChunks(SlotSeen(s))
----------------------------------------------------------------------------
(* Properties. *)

\* From a finished full database, in either layout, a client reads for every
\* script exactly the coins it holds at the snapshot height: nothing for a
\* script without coins, "whale" only above the UTXO limit, and otherwise the
\* same outpoints, no matter which records share an entry with it or in which
\* order they were written.
FullReadsBack ==
    stage = "done" /\ job.kind = "full" =>
        \A s \in Scripts :
            LET coins == Holds(chain, job.to, s)
            IN /\ ReadAbsent(s) <=> coins = {}
               /\ ReadWhale(s) <=> Cardinality(coins) > MAX_UTXOS_PER_SPK
               /\ ~ReadAbsent(s) /\ ~ReadWhale(s) => parse_utxo_data(ReadBytes(s)) = coins

\* A finished delta bridges its two heights: for every script that is not a
\* whale in it, applying the record read back from the files to the coins
\* held at the base height gives the coins held at the tip height, and a
\* script without a record holds the same coins at both.
DeltaBridges ==
    stage = "done" /\ job.kind = "delta" =>
        \A s \in Scripts :
            LET before == Holds(chain, job.from, s)
                after  == Holds(chain, job.to, s)
            IN /\ ReadAbsent(s) => before = after
               /\ ~ReadAbsent(s) /\ ~ReadWhale(s) =>
                     apply_delta_data(before, decode_delta_data(ReadBytes(s))) = after

\* No build assertion fails: the limit on coins keeps every full record
\* within the count the index byte holds, and larger deltas are written as
\* whales before they are packed.
NoAbort == stage # "abort"
=============================================================================
