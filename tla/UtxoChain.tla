------------------------------ MODULE UtxoChain ------------------------------
(***************************************************************************)
(* The records a database is built from, and how a client reads them       *)
(* back: the flat UTXO set (gen_0_utxo_set.rs), the grouping by script     *)
(* with dust and whales left out (build_utxo_chunks.rs, gen_1_onion.rs),   *)
(* the replay of a range of blocks into a delta (delta_gen_0_compute_      *)
(* delta.rs), and the decoders of codec.rs, sync.rs and the web client.    *)
(*                                                                         *)
(* A chain is a sequence of blocks [created, spent] of sets of outpoints.  *)
(* A serialized record is a sequence of tokens: a count, the outpoints it  *)
(* counts, and zero tokens of padding.  A record is one per script; a      *)
(* record that is too large is a whale and carries no outpoints.           *)
(***************************************************************************)
EXTENDS Naturals, FiniteSets, SequencesExt

CONSTANTS Scripts,            \* script hashes
          Owner,              \* [outpoint -> script it pays]
          Worth,              \* [outpoint -> "coin" | "dust" | "burn"]
          MAX_UTXOS_PER_SPK,  \* full databases: more coins make a whale
          BLOCK_SIZE,         \* tokens in one chunk
          MAX_CHUNKS_PER_SPK  \* deltas: more chunks make a whale

Outpoints == DOMAIN Owner

UtxoChainAssumption ==
    /\ Owner \in [Outpoints -> Scripts]
    /\ Worth \in [Outpoints -> {"coin", "dust", "burn"}]
    /\ MAX_UTXOS_PER_SPK \in Nat \ {0}
    /\ BLOCK_SIZE \in Nat \ {0}
    /\ MAX_CHUNKS_PER_SPK \in Nat \ {0}

Block == [created : SUBSET Outpoints, spent : SUBSET Outpoints]

div_ceil(n, d) == (n + d - 1) \div d
----------------------------------------------------------------------------
(* The chain. *)

Created(chain, h) == UNION {chain[i].created : i \in 1 .. h}

Consumed(chain, h) == UNION {chain[i].spent : i \in 1 .. h}

\* The UTXO set Bitcoin Core dumps at height h: what was created and not
\* consumed.  An output that can never be spent is not in it.
dumptxoutset(chain, h) ==
    {o \in Created(chain, h) \ Consumed(chain, h) : Worth[o] # "burn"}

\* The height an output was created at.
Born(chain, o) == CHOOSE h \in DOMAIN chain : o \in chain[h].created

\* What a client should be told the script holds at height h.
Holds(chain, h, s) ==
    {o \in dumptxoutset(chain, h) : Owner[o] = s /\ Worth[o] = "coin"}
----------------------------------------------------------------------------
(* Full databases. *)

\* One row per dumped output: script hash, outpoint, amount, height.
process_utxo_snapshot(chain, h) ==
    {[script |-> Owner[o], out |-> o, worth |-> Worth[o], height |-> Born(chain, o)] :
        o \in dumptxoutset(chain, h)}

\* The rows of one script that are worth more than the dust threshold.
Group(rows, s) == {r \in rows : r.script = s /\ r.worth # "dust"}

\* Most recent first; rows of one height in any order.
Recent(group) ==
    CHOOSE q \in SetToSeqs(group) :
        \A i, j \in DOMAIN q : i < j => q[i].height >= q[j].height

serialize_group_sorted(group) ==
    <<Cardinality(group)>> \o [i \in 1 .. Cardinality(group) |-> Recent(group)[i].out]

\* The scripts with a record, those too large to store, and the bytes.
FullScripts(chain, h) == {s \in Scripts : Group(process_utxo_snapshot(chain, h), s) # {}}

FullWhale(chain, h, s) ==
    Cardinality(Group(process_utxo_snapshot(chain, h), s)) > MAX_UTXOS_PER_SPK

FullBytes(chain, h, s) == serialize_group_sorted(Group(process_utxo_snapshot(chain, h), s))
----------------------------------------------------------------------------
(* Deltas: blocks a+1 .. b replayed over the dump at height a. *)

\* The dump loaded into memory: every outpoint in it and the script it pays.
utxo_map(chain, a) == [o \in dumptxoutset(chain, a) |-> Owner[o]]

\* Mutant: an output created and consumed in the range stays in the new set.
ReplayKeepsConsumed(chain, map, acc, h) ==
    [created |-> acc.created \cup chain[h].created,
     minus   |-> acc.minus \o SetToSeq((chain[h].spent \cap DOMAIN map)
                                          \ (acc.created \cup chain[h].created))]

\* An input consumes an output of the range, which then never was, or an
\* output of the dump, which is recorded as spent.  Later outputs of a block
\* may consume earlier ones.
Replay(chain, map, acc, h) ==
    [created |-> (acc.created \cup chain[h].created) \ chain[h].spent,
     minus   |-> acc.minus \o SetToSeq((chain[h].spent \cap DOMAIN map)
                                          \ (acc.created \cup chain[h].created))]

replay_blocks(chain, a, b) ==
    FoldLeft(LAMBDA acc, h : Replay(chain, utxo_map(chain, a), acc, h),
             [created |-> {}, minus |-> <<>>],
             [i \in 1 .. (b - a) |-> a + i])

\* What is left of the range's outputs is new, except dust.
ScriptDelta(chain, a, b, s) ==
    LET acc == replay_blocks(chain, a, b)
    IN [spent |-> SelectSeq(acc.minus, LAMBDA o : Owner[o] = s),
        new   |-> SetToSeq({o \in acc.created : Owner[o] = s /\ Worth[o] # "dust"})]

\* A script is in the file once an outpoint was filed under it.
DeltaScripts(chain, a, b) ==
    {s \in Scripts : LET d == ScriptDelta(chain, a, b, s) IN d.spent # <<>> \/ d.new # <<>>}

DeltaBytes(chain, a, b, s) ==
    LET d == ScriptDelta(chain, a, b, s)
    IN <<Len(d.spent)>> \o d.spent \o <<Len(d.new)>> \o d.new

DeltaWhale(chain, a, b, s) ==
    div_ceil(Len(DeltaBytes(chain, a, b, s)), BLOCK_SIZE) > MAX_CHUNKS_PER_SPK
----------------------------------------------------------------------------
(* Decoders. *)

\* Up to n outpoints of the tokens from position p on; short data stops the
\* loop at the last whole entry.
Entries(data, p, n) == {data[i] : i \in {j \in DOMAIN data : p <= j /\ j < p + n}}

\* A UTXO list: the count, then that many entries; padding is ignored.
parse_utxo_data(data) == IF data = <<>> THEN {} ELSE Entries(data, 2, data[1])

\* A delta: the spent outpoints, then the new ones.
decode_delta_data(data) ==
    [spent |-> Entries(data, 2, data[1]),
     new   |-> Entries(data, data[1] + 3, data[data[1] + 2])]

\* Remove what was spent, append what is new.
apply_delta_data(entries, delta) == (entries \ delta.spent) \cup delta.new
=============================================================================
