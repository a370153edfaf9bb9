----------------------------- MODULE WireFrames -----------------------------
(***************************************************************************)
(* The frames of the protocol, as each side writes and reads them.         *)
(*                                                                         *)
(* A frame body is a sequence of cells.  A one-byte field is one cell; a   *)
(* wider field (u16, u32, u64, a key, a hash) is two cells, so that a      *)
(* frame can end in the middle of it.  Cells range over 0..Base-1 and a    *)
(* wide number is little-endian, as on the wire.  A cursor is what a       *)
(* decoder carries along: whether every read so far was in bounds, the     *)
(* cells not read yet and the values read.  It is the Cursor of the        *)
(* client's frame classifier and the (data, pos) pair of the other         *)
(* decoders.                                                               *)
(*                                                                         *)
(* The module has two specifications over the same cells: a request frame  *)
(* on its way to the server (RequestInit, RequestNext) and a response      *)
(* frame on its way back (ResponseInit, ResponseNext).                     *)
(***************************************************************************)
EXTENDS Integers, FiniteSets, Sequences, SequencesExt

CONSTANTS
    Base,               \* the values a cell can take (256 in the code)
    Dbs,                \* database ids requests name
    DpfKeys,            \* serialized DPF keys clients generate
    Blobs,              \* opaque blobs: FHE keys, queries, tokens, API keys
    Words,              \* 16-, 32-byte values, as two cells
    MAX_KEYS_PER_GROUP,
    INDEX_CUCKOO_NUM_HASHES,
    MIN_DPF_DOMAIN_N, MAX_DPF_DOMAIN_N,
    MAX_ORAM_LOOKUP_SCRIPTHASHES,
    MAX_CREDIT_PRESENT_PAYLOAD_LEN,
    MAX_API_KEY_LEN,
    RoundStride,        \* sibling rounds are table * RoundStride + level (100)
    LevelStride,        \* HarmonyPIR sibling levels start at LevelStride (10)
    Names,              \* database names
    Anchors,            \* chain anchors, <<>> for none
    MaxPadding,         \* cells of padding a Direct ORAM answer may end with
    MinGroups           \* fewer groups cannot be planned for (3)

BaseAssumption == Base \in Nat /\ Base >= 2

----------------------------------------------------------------------------
(* Writing. *)

Wide(n) == <<n % Base, n \div Base>>
Narrow(n) == <<n % Base>>                  \* `as u8`
Flag(b) == IF b THEN <<1>> ELSE <<0>>
encode_lp_bytes_u32(b) == Wide(Len(b)) \o b

\* The cells Put gives for each element of s, in order.
Each(Put(_), s) == FlattenSeq([i \in 1..Len(s) |-> Put(s[i])])

\* The trailing database id, only sent when it is not 0.
OptionalDb(db) == IF db # 0 THEN <<db>> ELSE <<>>

----------------------------------------------------------------------------
(* Reading. *)

Start(data) == [ok |-> TRUE, rest |-> data, out |-> <<>>]

skip(c, n) ==
    IF c.ok /\ n <= Len(c.rest)
    THEN [c EXCEPT !.rest = SubSeq(@, n + 1, Len(@))]
    ELSE [c EXCEPT !.ok = FALSE]

\* n cells as one value.
Bytes(c, n) ==
    LET d == skip(c, n) IN
    IF d.ok THEN [d EXCEPT !.out = Append(@, SubSeq(c.rest, 1, n))] ELSE d

U8(c) ==
    LET d == skip(c, 1) IN
    IF d.ok THEN [d EXCEPT !.out = Append(@, c.rest[1])] ELSE d

U16(c) ==
    LET d == skip(c, 2) IN
    IF d.ok THEN [d EXCEPT !.out = Append(@, c.rest[1] + Base * c.rest[2])] ELSE d

Wide32(c) == Bytes(c, 2)                   \* a key, a nonce, a hash

\* The fields of a fixed layout: all of them, or the read fails.
Fields(c, layout) ==
    LET at(i) == i + Cardinality({j \in 1..(i - 1) : layout[j] # "u8"})
        Value(i) == CASE layout[i] = "u8" -> c.rest[at(i)]
                      [] layout[i] = "u16" -> c.rest[at(i)] + Base * c.rest[at(i) + 1]
                      [] layout[i] = "wide" -> SubSeq(c.rest, at(i), at(i) + 1)
        d == skip(c, at(Len(layout) + 1) - 1)
    IN  IF d.ok THEN [d EXCEPT !.out = @ \o [i \in 1..Len(layout) |-> Value(i)]] ELSE d

\* What the last read put into out, taken back out of it.
Drop(c) == [c EXCEPT !.out = Front(@)]

decode_lp_bytes_u32_required(c) ==
    LET d == U16(c) IN IF d.ok THEN Bytes(Drop(d), Last(d.out)) ELSE d

\* An older peer stops before the field: an empty one.
decode_lp_bytes_u32_or_empty(c) ==
    IF c.ok /\ c.rest = <<>> THEN [c EXCEPT !.out = Append(@, <<>>)]
    ELSE decode_lp_bytes_u32_required(c)

Times(Step(_), n, c) ==
    LET after[i \in 0..n] == IF i = 0 THEN c ELSE Step(after[i - 1]) IN after[n]

\* Nothing is left after the last field.
AtEnd(c) == c.ok /\ c.rest = <<>>

\* The server's reading of the trailing database id.
TrailingDb(c) == IF c.rest = <<>> THEN 0 ELSE c.rest[1]

\* Values k+1..k+n of what was read.
Got(c, k, n) == SubSeq(c.out, k + 1, k + n)

----------------------------------------------------------------------------
(* The request frames of the protocol, as each side writes and reads them. *)
(*                                                                         *)
(* A request is encoded by the client that sends it (native SDK, browser)  *)
(* and by the runtime's own Request::encode, which the tests of both sides *)
(* use; it is decoded by the server, classified for its price by the       *)
(* server (from the decoded request), by the SDK's credit wrapper (from    *)
(* the raw frame, with a reader of its own) and, for OnionPIR frames, by   *)
(* the browser, and it is walked by the traffic inspector that checks the  *)
(* HarmonyPIR counts.  The module gives every one of those functions and   *)
(* compares them on every frame an honest client sends and on every frame  *)
(* shortened at its end: a frame of a peer that does not know the last     *)
(* fields, or one that was cut.                                            *)

ORAM_LOOKUP_PADDED_MARKER == Base * Base - 1     \* u16::MAX
CREDIT_PRESENT_KIND_CASHU == 1
SENTINEL == Base - 1                             \* 0xFF

StrideAssumption == 2 * RoundStride <= ORAM_LOOKUP_PADDED_MARKER

----------------------------------------------------------------------------
(* Encoders.  A message is a record; op is its opcode.  The frame is its   *)
(* declared length, its opcode and the cells after it.                     *)

IndexBatches == {"REQ_INDEX_BATCH", "REQ_CHUNK_BATCH", "REQ_BUCKET_MERKLE_SIB_BATCH"}
OnionBatches == {"REQ_ONIONPIR_INDEX_QUERY", "REQ_ONIONPIR_CHUNK_QUERY",
                 "REQ_ONIONPIR_MERKLE_INDEX_SIBLING", "REQ_ONIONPIR_MERKLE_DATA_SIBLING"}
TopRequests == {"REQ_BUCKET_MERKLE_TREE_TOPS", "REQ_ONIONPIR_MERKLE_INDEX_TREE_TOP",
                "REQ_ONIONPIR_MERKLE_DATA_TREE_TOP"}
BareRequests == {"REQ_PING", "REQ_GET_INFO", "REQ_GET_DB_CATALOG", "REQ_HARMONY_GET_INFO",
         "REQ_ANNOUNCE"}

encode_request(op, body) == [len |-> 1 + Len(body), op |-> op, body |-> body]

encode_batch_query(q) ==
    Wide(q.round) \o Narrow(Len(q.keys))
        \o Narrow(IF q.keys = <<>> THEN 0 ELSE Len(q.keys[1]))
        \o Each(LAMBDA group : Each(encode_lp_bytes_u32, group), q.keys)
        \o OptionalDb(q.db)

encode_harmony_batch_query(q) ==
    <<q.level>> \o Wide(q.round) \o Wide(Len(q.items)) \o <<q.subs>>
        \o Each(LAMBDA item : <<item.group>>
                    \o Each(LAMBDA sq : Wide(Len(sq)) \o Each(Wide, sq), item.queries),
                q.items)
        \o OptionalDb(q.db)

all_slots_present(q) ==
    Len(q.present) = Len(q.hashes) /\ \A i \in 1..Len(q.present) : q.present[i]

encode_oram_lookup_request(q) ==
    <<q.db>>
        \o (IF all_slots_present(q) THEN Wide(Len(q.hashes))
            ELSE Wide(ORAM_LOOKUP_PADDED_MARKER) \o Wide(Len(q.hashes))
                 \o Each(Flag, q.present))
        \o FlattenSeq(q.hashes)

RegisterKeysMsg_encode(k) ==
    encode_lp_bytes_u32(k.galois) \o encode_lp_bytes_u32(k.gsw) \o OptionalDb(k.db)

OnionPirBatchQuery_encode(q) ==
    Wide(q.round) \o Narrow(Len(q.queries)) \o Each(encode_lp_bytes_u32, q.queries)
        \o OptionalDb(q.db)

\* Request::encode, and the message types beside it that have an encode.
EncodeRequest(m) ==
    encode_request(m.op,
        CASE m.op \in BareRequests -> <<>>
          [] m.op \in {"REQ_GET_DB_PROOF", "REQ_GET_DB_PROOF_V2"} -> <<m.db>>
          [] m.op = "REQ_ATTEST" -> m.nonce
          [] m.op = "REQ_HANDSHAKE" -> m.eph \o m.nonce
          [] m.op \in IndexBatches -> encode_batch_query(m)
          [] m.op = "REQ_HARMONY_HINTS" ->
                m.prp \o <<m.backend, m.level>> \o Narrow(Len(m.groups)) \o m.groups
                    \o OptionalDb(m.db)
          [] m.op = "REQ_HARMONY_HINTS_V2" -> <<SENTINEL, 0>> \o OptionalDb(m.db)
          [] m.op = "REQ_HARMONY_HINTS_V2_HALF" -> m.token \o <<m.side>> \o OptionalDb(m.db)
          [] m.op = "REQ_HARMONY_BATCH_QUERY" -> encode_harmony_batch_query(m)
          [] m.op = "REQ_ORAM_LOOKUP" -> encode_oram_lookup_request(m)
          [] m.op = "REQ_CREDIT_PRESENT" -> <<m.kind>> \o encode_lp_bytes_u32(m.coins)
          [] m.op = "REQ_API_KEY" -> m.key
          [] m.op = "REQ_REGISTER_KEYS" -> RegisterKeysMsg_encode(m)
          [] m.op \in OnionBatches -> OnionPirBatchQuery_encode(m)
          [] m.op \in TopRequests -> OptionalDb(m.db))

----------------------------------------------------------------------------
(* The client's own encoders. *)

\* A flat sibling table takes one key per group.
encode_sibling_batch(db, round, keys) ==
    encode_request("REQ_BUCKET_MERKLE_SIB_BATCH",
        Wide(round) \o Narrow(Len(keys)) \o <<1>>
            \o Each(encode_lp_bytes_u32, keys) \o OptionalDb(db))

encode_tree_tops_request(db) ==
    encode_request("REQ_BUCKET_MERKLE_TREE_TOPS", OptionalDb(db))

encode_tree_top_request(op, db) == encode_request(op, OptionalDb(db))

encode_register_keys(galois, gsw, db) ==
    [len |-> 1 + 2 + Len(galois) + 2 + Len(gsw) + (IF db # 0 THEN 1 ELSE 0),
     op |-> "REQ_REGISTER_KEYS",
     body |-> encode_lp_bytes_u32(galois) \o encode_lp_bytes_u32(gsw) \o OptionalDb(db)]

encode_onionpir_batch_query(op, round, queries, db) ==
    encode_request(op, Wide(round) \o Narrow(Len(queries))
                           \o Each(encode_lp_bytes_u32, queries) \o OptionalDb(db))

encode_sibling_batch_query(op, round, queries, db) ==
    encode_onionpir_batch_query(op, round, queries, db)

\* No frame at all when the client itself refuses the argument.
encode_credit_present_body(kind, coins) ==
    IF Len(coins) \notin 1..MAX_CREDIT_PRESENT_PAYLOAD_LEN THEN {}
    ELSE {encode_request("REQ_CREDIT_PRESENT", <<kind>> \o encode_lp_bytes_u32(coins))}

present_api_key(key) ==
    IF Len(key) \notin 1..MAX_API_KEY_LEN THEN {} ELSE {encode_request("REQ_API_KEY", key)}

\* The browser's two, which build the whole frame by hand.
encodeCreditPresentFrame(kind, coins) ==
    IF \/ kind # CREDIT_PRESENT_KIND_CASHU
       \/ coins = <<>>
       \/ Len(coins) > MAX_CREDIT_PRESENT_PAYLOAD_LEN
    THEN {}
    ELSE {[len |-> 1 + 1 + 2 + Len(coins), op |-> "REQ_CREDIT_PRESENT",
           body |-> <<kind>> \o Wide(Len(coins)) \o coins]}

encodeApiKeyFrame(key) ==
    IF key = <<>> \/ Len(key) > MAX_API_KEY_LEN THEN {}
    ELSE {[len |-> 1 + Len(key), op |-> "REQ_API_KEY", body |-> key]}

\* Every frame a client puts on the wire for m.
ClientFrames(m) ==
    CASE m.op = "REQ_BUCKET_MERKLE_SIB_BATCH" ->
            {encode_sibling_batch(m.db, m.round, [g \in 1..Len(m.keys) |-> m.keys[g][1]])}
      [] m.op = "REQ_BUCKET_MERKLE_TREE_TOPS" -> {encode_tree_tops_request(m.db)}
      [] m.op \in TopRequests \ {"REQ_BUCKET_MERKLE_TREE_TOPS"} ->
            {encode_tree_top_request(m.op, m.db)}
      [] m.op = "REQ_REGISTER_KEYS" -> {encode_register_keys(m.galois, m.gsw, m.db)}
      [] m.op \in {"REQ_ONIONPIR_INDEX_QUERY", "REQ_ONIONPIR_CHUNK_QUERY"} ->
            {encode_onionpir_batch_query(m.op, m.round, m.queries, m.db)}
      [] m.op \in OnionBatches -> {encode_sibling_batch_query(m.op, m.round, m.queries, m.db)}
      [] m.op = "REQ_CREDIT_PRESENT" ->
            encode_credit_present_body(m.kind, m.coins)
                \cup encodeCreditPresentFrame(m.kind, m.coins)
      [] m.op = "REQ_API_KEY" -> present_api_key(m.key) \cup encodeApiKeyFrame(m.key)
      [] OTHER -> {EncodeRequest(m)}

----------------------------------------------------------------------------
(* The server's decoders.  <<>> is a decode error, <<m>> the message.      *)

\* The scaled layout of a serialized key: the domain exponent, the seed and
\* one cell per layer below it.
KeyCells(n) == 3 + (n - MIN_DPF_DOMAIN_N)

validate_dpf_key_bytes(key) ==
    /\ Len(key) >= 2
    /\ key[1] \in MIN_DPF_DOMAIN_N..MAX_DPF_DOMAIN_N
    /\ Len(key) >= KeyCells(key[1])

decode_batch_query(op, data, min_keys_per_group) ==
    LET head == Fields(Start(data), <<"u16", "u8", "u8">>)
        groups == head.out[2]
        per == head.out[3]
        body == Times(decode_lp_bytes_u32_required, groups * per, head)
        key(g, k) == body.out[3 + (g - 1) * per + k]
    IN  IF \/ ~head.ok
           \/ per > MAX_KEYS_PER_GROUP
           \/ groups > 0 /\ per < min_keys_per_group
           \/ ~body.ok
           \/ \E g \in 1..groups, k \in 1..per : ~validate_dpf_key_bytes(key(g, k))
        THEN <<>>
        ELSE <<[op |-> op, round |-> head.out[1], db |-> TrailingDb(body),
                keys |-> [g \in 1..groups |-> [k \in 1..per |-> key(g, k)]]]>>

decode_harmony_hint_request(data) ==
    LET head == Fields(Start(data), <<"wide", "u8", "u8", "u8">>)
        body == IF head.ok THEN Bytes(head, head.out[4]) ELSE head
    IN  IF ~body.ok THEN <<>>
        ELSE <<[op |-> "REQ_HARMONY_HINTS", prp |-> body.out[1], backend |-> body.out[2],
                level |-> body.out[3], groups |-> body.out[5], db |-> TrailingDb(body)]>>

\* One wire form per request: a zero database id is never spelled out.
decode_harmony_hint_request_v2(data) ==
    IF \/ Len(data) \notin {2, 3}
       \/ data[1] # SENTINEL
       \/ data[2] # 0
       \/ Len(data) = 3 /\ data[3] = 0
    THEN <<>>
    ELSE <<[op |-> "REQ_HARMONY_HINTS_V2", db |-> IF Len(data) = 3 THEN data[3] ELSE 0]>>

decode_harmony_hint_request_v2_half(data) ==
    IF \/ Len(data) \notin {3, 4}
       \/ SubSeq(data, 1, 2) = <<0, 0>>
       \/ data[3] \notin {0, 1}
       \/ Len(data) = 4 /\ data[4] = 0
    THEN <<>>
    ELSE <<[op |-> "REQ_HARMONY_HINTS_V2_HALF", token |-> SubSeq(data, 1, 2),
            side |-> data[3], db |-> IF Len(data) = 4 THEN data[4] ELSE 0]>>

\* A count and that many indices.
Indices(c) ==
    LET d == U16(c)
        e == Bytes(Drop(d), 2 * Last(d.out))
        cells == Last(e.out)
    IN  IF ~d.ok THEN d ELSE IF ~e.ok THEN e
        ELSE [e EXCEPT !.out = Append(Front(@),
                 [i \in 1..(Len(cells) \div 2) |-> cells[2 * i - 1] + Base * cells[2 * i]])]

\* level, round, groups and sub-queries per group; then per group its id and
\* its sub-queries.
HarmonyCursor(data, Sub(_)) ==
    LET head == Fields(Start(data), <<"u8", "u16", "u16", "u8">>)
        group(c) == Times(Sub, head.out[4], U8(c))
    IN  IF ~head.ok THEN head ELSE Times(group, head.out[3], head)

decode_harmony_batch_query(data) ==
    LET c == HarmonyCursor(data, Indices)
        subs == c.out[4]
        at(g) == 4 + (g - 1) * (1 + subs)
    IN  IF ~c.ok THEN <<>>
        ELSE <<[op |-> "REQ_HARMONY_BATCH_QUERY", level |-> c.out[1], round |-> c.out[2],
                subs |-> subs, db |-> TrailingDb(c),
                items |-> [g \in 1..c.out[3] |->
                              [group |-> c.out[at(g) + 1],
                               queries |-> Got(c, at(g) + 1, subs)]]]>>

decode_oram_lookup_request(data) ==
    LET head == Fields(Start(data), <<"u8", "u16">>)
        padded == head.ok /\ head.out[2] = ORAM_LOOKUP_PADDED_MARKER
        sized == IF padded THEN U16(head) ELSE head
        count == Last(sized.out)
        flagged == IF padded THEN Bytes(sized, count)
                   ELSE [sized EXCEPT !.out = Append(@, [i \in 1..count |-> 1])]
        flags == Last(flagged.out)
        full == Times(Wide32, count, flagged)
    IN  IF \/ ~sized.ok
           \/ ~flagged.ok
           \/ \E i \in 1..count : flags[i] \notin {0, 1}
           \/ count > MAX_ORAM_LOOKUP_SCRIPTHASHES
           \/ ~full.ok
        THEN <<>>
        ELSE <<[op |-> "REQ_ORAM_LOOKUP", db |-> head.out[1],
                hashes |-> Got(full, Len(flagged.out), count),
                present |-> [i \in 1..count |-> flags[i] = 1]]>>

RegisterKeysMsg_decode(data) ==
    LET c == Times(decode_lp_bytes_u32_required, 2, Start(data)) IN
    IF ~c.ok THEN <<>>
    ELSE <<[op |-> "REQ_REGISTER_KEYS", galois |-> c.out[1], gsw |-> c.out[2],
            db |-> TrailingDb(c)]>>

OnionPirBatchQuery_decode(op, data) ==
    LET head == Fields(Start(data), <<"u16", "u8">>)
        c == IF head.ok THEN Times(decode_lp_bytes_u32_required, head.out[2], head) ELSE head
    IN  IF ~c.ok THEN <<>>
        ELSE <<[op |-> op, round |-> c.out[1], queries |-> Got(c, 2, c.out[2]),
                db |-> TrailingDb(c)]>>

decode_credit_present(data) ==
    LET c == Fields(Start(data), <<"u8", "u16">>) IN
    IF \/ ~c.ok
       \/ c.out[2] > MAX_CREDIT_PRESENT_PAYLOAD_LEN
       \/ Len(c.rest) # c.out[2]
    THEN <<>>
    ELSE <<[op |-> "REQ_CREDIT_PRESENT", kind |-> c.out[1], coins |-> c.rest]>>

\* Request::decode, and the tree-top and OnionPIR requests dispatch reads
\* for itself.
DecodeRequest(frame) ==
    LET op == frame.op
        data == frame.body
    IN  CASE op \in BareRequests -> <<[op |-> op]>>
          [] op \in {"REQ_GET_DB_PROOF", "REQ_GET_DB_PROOF_V2"} ->
                IF Len(data) # 1 THEN <<>> ELSE <<[op |-> op, db |-> data[1]]>>
          [] op = "REQ_ATTEST" ->
                IF Len(data) < 2 THEN <<>> ELSE <<[op |-> op, nonce |-> SubSeq(data, 1, 2)]>>
          [] op = "REQ_HANDSHAKE" ->
                IF Len(data) < 4 THEN <<>>
                ELSE <<[op |-> op, eph |-> SubSeq(data, 1, 2), nonce |-> SubSeq(data, 3, 4)]>>
          [] op \in IndexBatches ->
                decode_batch_query(op, data,
                    IF op = "REQ_INDEX_BATCH" THEN INDEX_CUCKOO_NUM_HASHES ELSE 0)
          [] op = "REQ_HARMONY_HINTS" -> decode_harmony_hint_request(data)
          [] op = "REQ_HARMONY_HINTS_V2" -> decode_harmony_hint_request_v2(data)
          [] op = "REQ_HARMONY_HINTS_V2_HALF" -> decode_harmony_hint_request_v2_half(data)
          [] op = "REQ_HARMONY_BATCH_QUERY" -> decode_harmony_batch_query(data)
          [] op = "REQ_ORAM_LOOKUP" -> decode_oram_lookup_request(data)
          [] op = "REQ_CREDIT_PRESENT" -> decode_credit_present(data)
          [] op = "REQ_API_KEY" ->
                IF Len(data) \notin 1..MAX_API_KEY_LEN THEN <<>> ELSE <<[op |-> op, key |-> data]>>
          [] op = "REQ_REGISTER_KEYS" -> RegisterKeysMsg_decode(data)
          [] op \in OnionBatches -> OnionPirBatchQuery_decode(op, data)
          [] op \in TopRequests ->
                <<[op |-> op, db |-> IF data = <<>> THEN 0 ELSE data[1]]>>

----------------------------------------------------------------------------
(* What a frame is charged as.  {} is an unmetered or unreadable frame,    *)
(* {<<op, db>>} a metered request on a database.                           *)

MeteredOp(kind, table, level, subs) ==
    [kind |-> kind, table |-> table, level |-> level, subs |-> subs]
Plain(kind) == MeteredOp(kind, "none", 0, 0)

ValidHarmonyLevel(level) == level \in {0, 1} \cup (LevelStride..(3 * LevelStride - 1))

dpf_sibling_round(round) ==
    IF round \div RoundStride > 1 THEN {}
    ELSE {<<IF round \div RoundStride = 0 THEN "Index" ELSE "Chunk", round % RoundStride>>}

SiblingPasses(round) ==
    {MeteredOp("DpfSiblingPass", r[1], r[2], 0) : r \in dpf_sibling_round(round)}

OnionOp(op) ==
    CASE op = "REQ_ONIONPIR_INDEX_QUERY" -> Plain("OnionIndexQuery")
      [] op = "REQ_ONIONPIR_CHUNK_QUERY" -> Plain("OnionChunkQuery")
      [] op = "REQ_ONIONPIR_MERKLE_INDEX_SIBLING" -> MeteredOp("OnionSiblingQuery", "Index", 0, 0)
      [] op = "REQ_ONIONPIR_MERKLE_DATA_SIBLING" -> MeteredOp("OnionSiblingQuery", "Chunk", 0, 0)

Metered == IndexBatches \cup OnionBatches \cup TopRequests
              \cup {"REQ_HARMONY_HINTS", "REQ_HARMONY_HINTS_V2", "REQ_HARMONY_HINTS_V2_HALF",
                    "REQ_HARMONY_BATCH_QUERY", "REQ_ORAM_LOOKUP", "REQ_REGISTER_KEYS"}

\* What the request decoded is priced as.
Priced(m) ==
    LET ops ==
         CASE m.op = "REQ_INDEX_BATCH" -> {Plain("DpfIndexRound")}
           [] m.op = "REQ_CHUNK_BATCH" -> {Plain("DpfChunkRound")}
           [] m.op = "REQ_BUCKET_MERKLE_SIB_BATCH" -> SiblingPasses(m.round)
           [] m.op = "REQ_HARMONY_HINTS" -> {MeteredOp("HarmonyHintSet", "none", m.level, 0)}
           [] m.op = "REQ_HARMONY_HINTS_V2" -> {Plain("HarmonyPoolEntry")}
           [] m.op = "REQ_HARMONY_HINTS_V2_HALF" -> {Plain("HarmonyContinuation")}
           [] m.op = "REQ_HARMONY_BATCH_QUERY" ->
                 {MeteredOp("HarmonyQuery", "none", m.level, m.subs)}
           [] m.op = "REQ_ORAM_LOOKUP" -> {Plain("OramLookup")}
           [] m.op = "REQ_BUCKET_MERKLE_TREE_TOPS" -> {Plain("TreeTops")}
           [] m.op \in TopRequests \ {"REQ_BUCKET_MERKLE_TREE_TOPS"} ->
                 {Plain("OnionTreeTops")}
           [] m.op = "REQ_REGISTER_KEYS" -> {Plain("OnionRegisterKeys")}
           [] m.op \in OnionBatches -> {OnionOp(m.op)}
    IN  {<<op, m.db>> : op \in ops}

\* The server decodes the frame and reads the operation off the request.
metered_op_for_frame(frame) ==
    IF frame.op \notin Metered THEN {} ELSE UNION {Priced(m) : m \in Range(DecodeRequest(frame))}

\* Mutant: the trailing byte is not looked at.
trailing_db_id_ignored(c) == IF ~c.ok \/ Len(c.rest) > 1 THEN {} ELSE {0}

\* The credit wrapper's own reader: none left is database 0, one left is the
\* id, more is not a frame of ours.
trailing_db_id(c) == IF ~c.ok \/ Len(c.rest) > 1 THEN {} ELSE {TrailingDb(c)}

skip_u16_items(c, n) == Times(decode_lp_bytes_u32_required, n, c)
skip_u32_items(c, n) == Times(decode_lp_bytes_u32_required, n, c)

classify_payload(op, body) ==
    LET c == Start(body)
        batch == Fields(c, <<"u16", "u8", "u8">>)
        keys == IF batch.ok THEN skip_u16_items(batch, batch.out[2] * batch.out[3]) ELSE batch
        hints == Fields(skip(c, 2), <<"u8", "u8", "u8">>)
        groups == IF hints.ok THEN skip(hints, hints.out[3]) ELSE hints
        harmony == HarmonyCursor(body, Indices)
        onion == Fields(c, <<"u16", "u8">>)
        queries == IF onion.ok THEN skip_u32_items(onion, onion.out[2]) ELSE onion
        On(ops, dbs) == ops \X dbs
    IN  CASE op \in IndexBatches ->
                On(IF ~keys.ok THEN {}
                   ELSE IF op = "REQ_INDEX_BATCH" THEN {Plain("DpfIndexRound")}
                   ELSE IF op = "REQ_CHUNK_BATCH" THEN {Plain("DpfChunkRound")}
                   ELSE SiblingPasses(batch.out[1]),
                   trailing_db_id(keys))
          [] op = "REQ_BUCKET_MERKLE_TREE_TOPS" -> On({Plain("TreeTops")}, trailing_db_id(c))
          [] op = "REQ_HARMONY_HINTS" ->
                On(IF groups.ok /\ ValidHarmonyLevel(hints.out[2])
                   THEN {MeteredOp("HarmonyHintSet", "none", hints.out[2], 0)} ELSE {},
                   trailing_db_id(groups))
          [] op = "REQ_HARMONY_HINTS_V2" ->
                On({Plain("HarmonyPoolEntry")}, trailing_db_id(Fields(c, <<"u8", "u8">>)))
          [] op = "REQ_HARMONY_HINTS_V2_HALF" ->
                On({Plain("HarmonyContinuation")}, trailing_db_id(U8(skip(c, 2))))
          [] op = "REQ_HARMONY_BATCH_QUERY" ->
                On(IF harmony.ok /\ ValidHarmonyLevel(harmony.out[1])
                   THEN {MeteredOp("HarmonyQuery", "none", harmony.out[1], harmony.out[4])} ELSE {},
                   trailing_db_id(harmony))
          [] op = "REQ_ORAM_LOOKUP" ->
                On({Plain("OramLookup")}, IF body = <<>> THEN {} ELSE {body[1]})
          [] op = "REQ_REGISTER_KEYS" ->
                On({Plain("OnionRegisterKeys")}, trailing_db_id(skip_u32_items(c, 2)))
          [] op \in OnionBatches -> On({OnionOp(op)}, trailing_db_id(queries))
          [] op \in TopRequests \ {"REQ_BUCKET_MERKLE_TREE_TOPS"} ->
                On({Plain("OnionTreeTops")}, trailing_db_id(c))
          [] OTHER -> {}

classify_frame(frame) ==
    IF frame.len # 1 + Len(frame.body) THEN {} ELSE classify_payload(frame.op, frame.body)

\* The browser's reader of the frames it sends itself; its sibling operation
\* does not say which table.
classifyOnionFrame(frame) ==
    LET c == Start(frame.body)
        onion == Fields(c, <<"u16", "u8">>)
        queries == IF onion.ok THEN skip_u32_items(onion, onion.out[2]) ELSE onion
        sibling == frame.op \in {"REQ_ONIONPIR_MERKLE_INDEX_SIBLING",
                                 "REQ_ONIONPIR_MERKLE_DATA_SIBLING"}
    IN  IF frame.len # 1 + Len(frame.body) THEN {}
        ELSE CASE frame.op = "REQ_REGISTER_KEYS" ->
                    {Plain("OnionRegisterKeys")} \X trailing_db_id(skip_u32_items(c, 2))
               [] frame.op \in OnionBatches ->
                    {IF sibling THEN Plain("OnionSiblingQuery") ELSE OnionOp(frame.op)}
                        \X trailing_db_id(queries)
               [] frame.op \in TopRequests \ {"REQ_BUCKET_MERKLE_TREE_TOPS"} ->
                    {Plain("OnionTreeTops")} \X trailing_db_id(c)
               [] OTHER -> {}

\* The inspector keeps a sub-query's count and steps over its indices.
Count(c) == LET d == U16(c) IN IF d.ok THEN skip(d, 2 * Last(d.out)) ELSE d

\* The counts per group and sub-query, in order: <<>> an error.
decode_payload_counts(data) ==
    LET c == HarmonyCursor(data, Count)
        subs == c.out[4]
    IN  IF ~c.ok THEN <<>>
        ELSE <<[i \in 1..(c.out[3] * subs) |->
                   c.out[4 + ((i - 1) \div subs) * (1 + subs) + 2 + ((i - 1) % subs)]]>>

----------------------------------------------------------------------------
(* The response frames of the protocol: what the server writes, what the   *)
(* runtime's reference decoder makes of it, and what each client reads.    *)
(*                                                                         *)
(* The clients do not use the reference decoder.  The native SDK mirrors   *)
(* it function by function, to stay clear of the server's dependencies,    *)
(* and the browser has a third reader of the catalog and of the payment    *)
(* answers.  The module gives all of them and compares them on every frame *)
(* a server sends and on each of its shortened forms: what an older server *)
(* sends, or a frame that was cut.  Cells and cursors are those of         *)
(* the module; a chain anchor is two cells for a snapshot, four for a      *)
(* delta, and the seeds it determines are a function of it.                *)

CATALOG_EXT_V1 == 1
DATABASE_PROOF_BUNDLE_VERSION == 1
DATABASE_PROOF_BUNDLE_VERSION_V2 == 2
ProofFields == 6
Zero == <<0, 0>>

BatchResults == {"RESP_INDEX_BATCH", "RESP_CHUNK_BATCH", "RESP_BUCKET_MERKLE_SIB_BATCH"}
OnionResults == {"RESP_ONIONPIR_INDEX_RESULT", "RESP_ONIONPIR_CHUNK_RESULT",
                 "RESP_ONIONPIR_MERKLE_INDEX_SIBLING", "RESP_ONIONPIR_MERKLE_DATA_SIBLING"}
Infos == {"RESP_INFO", "RESP_HARMONY_INFO"}
Proofs == {"RESP_DB_PROOF", "RESP_DB_PROOF_V2"}
BareResponses == {"RESP_PONG", "RESP_API_KEY_OK", "RESP_KEYS_ACK"}

\* The seed a chain anchor determines for one use, abstracted from its hash.
derive_seed(anchor, domain) == <<(anchor[1] + domain) % Base, anchor[Len(anchor)]>>

----------------------------------------------------------------------------
(* Encoders. *)

\* The kind (0 none, 1 snapshot, 2 delta) and the anchor's cells.
encode_anchor_ext(anchor) == <<Len(anchor) \div 2>> \o anchor

EncodeInfo(i) ==
    Wide(i.index_bins) \o Wide(i.chunk_bins) \o <<i.index_k, i.chunk_k>> \o i.tag
        \o i.index_seed \o i.chunk_seed \o encode_anchor_ext(i.anchor)

encode_db_catalog(c) ==
    Narrow(Len(c.databases))
        \o Each(LAMBDA e : <<e.db, e.type>> \o Narrow(Len(e.name)) \o e.name
                    \o Wide(e.base) \o Wide(e.height) \o Wide(e.index_bins) \o Wide(e.chunk_bins)
                    \o <<e.index_k, e.chunk_k>> \o e.tag \o <<e.n_index, e.n_chunk>>
                    \o Flag(e.merkle), c.databases)
        \o <<CATALOG_EXT_V1>>
        \o Each(LAMBDA e : e.index_seed \o e.chunk_seed \o encode_anchor_ext(e.anchor),
                c.databases)

encode_db_proof_bundle(p, version) ==
    Wide(version) \o <<p.db>> \o Each(encode_lp_bytes_u32, p.fields)

encode_attest_result(a) ==
    encode_lp_bytes_u32(a.report) \o Narrow(Len(a.roots)) \o FlattenSeq(a.roots)
        \o a.binary \o a.static \o encode_lp_bytes_u32(a.git)
        \o Each(encode_lp_bytes_u32, a.certs)

encode_batch_result(r) ==
    Wide(r.round) \o Narrow(Len(r.results))
        \o Narrow(IF r.results = <<>> THEN 0 ELSE Len(r.results[1]))
        \o Each(LAMBDA group : Each(encode_lp_bytes_u32, group), r.results)

encode_harmony_batch_result(r) ==
    <<r.level>> \o Wide(r.round) \o Wide(Len(r.items)) \o <<r.subs>>
        \o Each(LAMBDA i : <<i.group>> \o Each(encode_lp_bytes_u32, i.results), r.items)

encode_oram_lookup_result(r) ==
    <<r.db>> \o Wide(Len(r.items))
        \o Each(LAMBDA i : <<(IF i.found THEN 1 ELSE 0) + (IF i.whale THEN 2 ELSE 0)>>
                    \o Wide(i.start) \o <<i.chunks>> \o encode_lp_bytes_u32(i.data), r.items)
        \o [i \in 1..r.padding |-> 0]

OnionPirBatchResult_encode(r) ==
    Wide(r.round) \o Narrow(Len(r.results)) \o Each(encode_lp_bytes_u32, r.results)

\* Response::encode.  The frame is its opcode and the cells after it.
EncodeResponse(m) ==
    [op |-> m.op,
     body |->
        CASE m.op \in BareResponses -> <<>>
          [] m.op \in Infos -> EncodeInfo(m)
          [] m.op = "RESP_DB_CATALOG" -> encode_db_catalog(m)
          [] m.op = "RESP_DB_PROOF" -> encode_db_proof_bundle(m, DATABASE_PROOF_BUNDLE_VERSION)
          [] m.op = "RESP_DB_PROOF_V2" ->
                encode_db_proof_bundle(m, DATABASE_PROOF_BUNDLE_VERSION_V2)
          [] m.op = "RESP_ATTEST" -> encode_attest_result(m)
          [] m.op = "RESP_HANDSHAKE" -> m.eph
          [] m.op = "RESP_ANNOUNCE" -> encode_lp_bytes_u32(m.bundle)
          [] m.op \in BatchResults -> encode_batch_result(m)
          [] m.op = "RESP_ERROR" -> encode_lp_bytes_u32(m.text)
          [] m.op = "RESP_HARMONY_BATCH_QUERY" -> encode_harmony_batch_result(m)
          [] m.op = "RESP_ORAM_LOOKUP" -> encode_oram_lookup_result(m)
          [] m.op = "RESP_CREDIT_OK" -> m.added \o m.balance
          [] m.op \in OnionResults -> OnionPirBatchResult_encode(m)]

----------------------------------------------------------------------------
(* The reference decoders.  <<>> is a decode error, <<m>> the message.     *)

\* The anchor record after its kind: none, a snapshot's or a delta's cells.
decode_anchor_ext(c) ==
    LET d == U8(c) IN
    IF ~d.ok \/ Last(d.out) > 2 THEN [d EXCEPT !.ok = FALSE]
    ELSE Bytes(Drop(d), 2 * Last(d.out))

\* The seeds and the anchor came later: a shorter answer is an older
\* server's, with zero seeds and no anchor.
DecodeInfo(op, data) ==
    LET old == Fields(Start(data), <<"u16", "u16", "u8", "u8", "wide">>)
        seeds == Fields(old, <<"wide", "wide">>)
        full == decode_anchor_ext(seeds)
        info(c) == [op |-> op, index_bins |-> c.out[1], chunk_bins |-> c.out[2],
                    index_k |-> c.out[3], chunk_k |-> c.out[4], tag |-> c.out[5],
                    index_seed |-> c.out[6], chunk_seed |-> c.out[7], anchor |-> c.out[8]]
    IN  IF ~old.ok THEN <<>>
        ELSE IF ~seeds.ok THEN <<info([old EXCEPT !.out = @ \o <<Zero, Zero, <<>>>>])>>
        ELSE IF seeds.rest = <<>> THEN <<info([seeds EXCEPT !.out = @ \o <<<<>>>>])>>
        ELSE IF ~full.ok THEN <<>>
        ELSE <<info(full)>>

\* One catalog entry up to the DPF domains: twelve values.
EntryFields(c) ==
    LET head == Fields(c, <<"u8", "u8", "u8">>)
        name == IF head.ok THEN Bytes(Drop(head), Last(head.out)) ELSE head
    IN  Fields(name, <<"u16", "u16", "u16", "u16", "u8", "u8", "wide", "u8", "u8">>)

\* The reference decoder takes a missing last flag for no Merkle data.
RuntimeEntry(c) ==
    LET d == EntryFields(c) IN
    IF d.ok /\ d.rest = <<>> THEN [d EXCEPT !.out = Append(@, 0)] ELSE U8(d)

EntryWidth == 13

ExtEntry(c) == decode_anchor_ext(Fields(c, <<"wide", "wide">>))

\* The entries and, after the marker, their seeds and anchors.
CatalogCursor(data, Entry(_), Ext(_)) ==
    LET head == U8(Start(data))
        n == head.out[1]
        entries == Times(Entry, n, head)
        more == entries.ok /\ entries.rest # <<>> /\ entries.rest[1] = CATALOG_EXT_V1
        legacy == [i \in 1..(3 * n) |-> IF i % 3 = 0 THEN <<>> ELSE Zero]
    IN  IF ~head.ok THEN head
        ELSE IF more THEN Times(Ext, n, skip(entries, 1))
        ELSE [entries EXCEPT !.out = @ \o legacy]

\* Database i of n in what the cursor read.
Database(c, i, n) ==
    LET e == 1 + (i - 1) * EntryWidth
        x == 1 + n * EntryWidth + (i - 1) * 3
    IN  [db |-> c.out[e + 1], type |-> c.out[e + 2], name |-> c.out[e + 3],
         base |-> c.out[e + 4], height |-> c.out[e + 5],
         index_bins |-> c.out[e + 6], chunk_bins |-> c.out[e + 7],
         index_k |-> c.out[e + 8], chunk_k |-> c.out[e + 9], tag |-> c.out[e + 10],
         n_index |-> c.out[e + 11], n_chunk |-> c.out[e + 12], merkle |-> c.out[e + 13] # 0,
         index_seed |-> c.out[x + 1], chunk_seed |-> c.out[x + 2], anchor |-> c.out[x + 3]]

Databases(c) == [i \in 1..c.out[1] |-> Database(c, i, c.out[1])]

decode_db_catalog(data) ==
    LET c == CatalogCursor(data, RuntimeEntry, ExtEntry) IN
    IF c.ok THEN <<[op |-> "RESP_DB_CATALOG", databases |-> Databases(c)]>> ELSE <<>>

decode_db_proof_bundle(op, data, version) ==
    LET head == Fields(Start(data), <<"u16", "u8">>)
        c == Times(decode_lp_bytes_u32_required, ProofFields, head)
    IN  IF ~head.ok \/ head.out[1] # version \/ ~AtEnd(c) THEN <<>>
        ELSE <<[op |-> op, db |-> c.out[2], fields |-> Got(c, 2, ProofFields)]>>

Attested(c) ==
    LET n == c.out[2] IN
    [op |-> "RESP_ATTEST", report |-> c.out[1], roots |-> Got(c, 2, n),
     binary |-> c.out[n + 3], static |-> c.out[n + 4], git |-> c.out[n + 5],
     certs |-> Got(c, n + 5, 3)]

\* The certificate chain came last: an older server stops before it.
decode_attest_result(data) ==
    LET head == U8(decode_lp_bytes_u32_required(Start(data)))
        roots == IF head.ok THEN Times(Wide32, Last(head.out), head) ELSE head
        git == decode_lp_bytes_u32_required(Fields(roots, <<"wide", "wide">>))
        c == Times(decode_lp_bytes_u32_or_empty, 3, git)
    IN  IF c.ok THEN <<Attested(c)>> ELSE <<>>

\* Batch results: round, groups, results per group, the results.
BatchCursor(data) ==
    LET head == Fields(Start(data), <<"u16", "u8", "u8">>) IN
    IF head.ok THEN Times(decode_lp_bytes_u32_required, head.out[2] * head.out[3], head) ELSE head

Grouped(c, from, groups, per) ==
    [g \in 1..groups |-> [k \in 1..per |-> c.out[from + (g - 1) * per + k]]]

decode_batch_result(op, data) ==
    LET c == BatchCursor(data) IN
    IF ~c.ok THEN <<>>
    ELSE <<[op |-> op, round |-> c.out[1], results |-> Grouped(c, 3, c.out[2], c.out[3])]>>

decode_harmony_batch_result(data) ==
    LET head == Fields(Start(data), <<"u8", "u16", "u16", "u8">>)
        subs == head.out[4]
        group(c) == Times(decode_lp_bytes_u32_required, subs, U8(c))
        c == Times(group, head.out[3], head)
        at(g) == 4 + (g - 1) * (1 + subs)
    IN  IF ~head.ok \/ ~c.ok THEN <<>>
        ELSE <<[op |-> "RESP_HARMONY_BATCH_QUERY", level |-> c.out[1], round |-> c.out[2],
                subs |-> subs,
                items |-> [g \in 1..c.out[3] |->
                              [group |-> c.out[at(g) + 1], results |-> Got(c, at(g) + 1, subs)]]]>>

OramItem(c) == decode_lp_bytes_u32_required(Fields(c, <<"u8", "u16", "u8">>))

\* What follows the last item is padding and is not looked at.
OramCursor(data) ==
    LET head == Fields(Start(data), <<"u8", "u16">>) IN
    IF head.ok THEN Times(OramItem, head.out[2], head) ELSE head

OramItems(c) ==
    [i \in 1..c.out[2] |->
        LET at == 2 + 4 * (i - 1) IN
        [found |-> c.out[at + 1] % 2 = 1, whale |-> (c.out[at + 1] \div 2) % 2 = 1,
         start |-> c.out[at + 2], chunks |-> c.out[at + 3], data |-> c.out[at + 4]]]

decode_oram_lookup_result(data) ==
    LET c == OramCursor(data) IN
    IF ~c.ok THEN <<>>
    ELSE <<[op |-> "RESP_ORAM_LOOKUP", db |-> c.out[1], items |-> OramItems(c), padding |-> 0]>>

OnionCursor(data) ==
    LET head == Fields(Start(data), <<"u16", "u8">>) IN
    IF head.ok THEN Times(decode_lp_bytes_u32_required, head.out[2], head) ELSE head

OnionPirBatchResult_decode(op, data) ==
    LET c == OnionCursor(data) IN
    IF ~c.ok THEN <<>>
    ELSE <<[op |-> op, round |-> c.out[1], results |-> Got(c, 2, c.out[2])]>>

\* Response::decode.  It slices an error envelope without a check: a short one
\* would panic, and no server or client decodes one this way.
DecodeResponse(frame) ==
    LET op == frame.op
        data == frame.body
        blob == decode_lp_bytes_u32_required(Start(data))
    IN  CASE op \in {"RESP_PONG", "RESP_KEYS_ACK"} -> <<[op |-> op]>>
          [] op = "RESP_API_KEY_OK" -> IF data = <<>> THEN <<[op |-> op]>> ELSE <<>>
          [] op \in Infos -> DecodeInfo(op, data)
          [] op = "RESP_DB_CATALOG" -> decode_db_catalog(data)
          [] op = "RESP_DB_PROOF" ->
                decode_db_proof_bundle(op, data, DATABASE_PROOF_BUNDLE_VERSION)
          [] op = "RESP_DB_PROOF_V2" ->
                decode_db_proof_bundle(op, data, DATABASE_PROOF_BUNDLE_VERSION_V2)
          [] op = "RESP_ATTEST" -> decode_attest_result(data)
          [] op = "RESP_HANDSHAKE" ->
                IF Len(data) < 2 THEN <<>> ELSE <<[op |-> op, eph |-> SubSeq(data, 1, 2)]>>
          [] op = "RESP_ANNOUNCE" ->
                IF blob.ok THEN <<[op |-> op, bundle |-> blob.out[1]]>> ELSE <<>>
          [] op \in BatchResults -> decode_batch_result(op, data)
          [] op = "RESP_ERROR" -> IF blob.ok THEN <<[op |-> op, text |-> blob.out[1]]>> ELSE <<>>
          [] op = "RESP_HARMONY_BATCH_QUERY" -> decode_harmony_batch_result(data)
          [] op = "RESP_ORAM_LOOKUP" -> decode_oram_lookup_result(data)
          [] op = "RESP_CREDIT_OK" ->
                IF Len(data) # 4 THEN <<>>
                ELSE <<[op |-> op, added |-> SubSeq(data, 1, 2), balance |-> SubSeq(data, 3, 4)]>>
          [] op \in OnionResults -> OnionPirBatchResult_decode(op, data)

----------------------------------------------------------------------------
(* The clients' decoders. *)

Truncated == <<Base>>             \* the text "<truncated error message>"

\* The strict reader: exactly the declared text, <<>> a decode error.
decode_error_response_message(body) ==
    LET c == decode_lp_bytes_u32_required(Start(body)) IN
    IF AtEnd(c) THEN <<c.out[1]>> ELSE <<>>

\* The tolerant readers of the Direct ORAM, payment and identity answers and
\* of the browser: the declared text, a marker when it was cut, or whatever
\* there is when not even the length arrived.
decode_error_envelope(body) ==
    LET c == decode_lp_bytes_u32_required(Start(body)) IN
    IF c.ok THEN c.out[1] ELSE IF Len(body) >= 2 THEN Truncated ELSE body

decode_error_response(body) == decode_error_envelope(body)
announce_error_text(body) == decode_error_envelope(body)

decodeErrorEnvelope(body) ==
    IF Len(body) >= 2
    THEN LET len == body[1] + Base * body[2] IN
         IF 2 + len <= Len(body) THEN SubSeq(body, 3, 2 + len) ELSE Truncated
    ELSE body

\* The database-proof reader shows the raw rest when the text was cut.
decode_error_message(body) ==
    LET c == decode_lp_bytes_u32_required(Start(body)) IN
    IF c.ok THEN c.out[1] ELSE body

validate_db_geometry(e) ==
    /\ e.index_k >= MinGroups /\ e.chunk_k >= MinGroups
    /\ e.index_bins # 0 /\ e.chunk_bins # 0

\* The seeds must be the ones the anchor determines; without one there is
\* nothing to compare.
verify_anchor_seeds(e) ==
    e.anchor # <<>> => /\ e.index_seed = derive_seed(e.anchor, 1)
                       /\ e.tag = derive_seed(e.anchor, 2)
                       /\ e.chunk_seed = derive_seed(e.anchor, 3)

\* The client's record of a database: a base height belongs to a delta.
InfoOf(e) == [e EXCEPT !.base = IF e.type = 1 THEN e.base ELSE 0]

\* The SDK insists on the Merkle flag.
ClientEntry(c) == U8(EntryFields(c))

decode_catalog(body) ==
    LET c == CatalogCursor(body, ClientEntry, ExtEntry) IN
    IF ~c.ok THEN <<>>
    ELSE IF \A i \in 1..c.out[1] : /\ validate_db_geometry(Database(c, i, c.out[1]))
                                   /\ verify_anchor_seeds(Database(c, i, c.out[1]))
    THEN <<[i \in 1..c.out[1] |-> InfoOf(Database(c, i, c.out[1]))]>>
    ELSE <<>>

\* The browser keeps the defaults of an entry that was cut and steps over no
\* anchor it has no length for.
BrowserExt(c) ==
    LET d == Fields(c, <<"wide", "wide", "u8">>)
        n == IF Last(d.out) \in {1, 2} THEN 2 * Last(d.out) ELSE 0
    IN  IF ~d.ok THEN [c EXCEPT !.out = @ \o <<Zero, Zero, <<>>>>]
        ELSE Bytes(Drop(d), IF n <= Len(d.rest) THEN n ELSE 0)

\* Where the code reads past the end (an undefined value or a RangeError) the
\* model fails; the property looks at frames the SDK reads to their end.
decodeDatabaseCatalog(body) ==
    LET c == CatalogCursor(body, RuntimeEntry, BrowserExt) IN
    IF c.ok THEN <<Databases(c)>> ELSE <<>>

\* The mirror of decode_attest_result, with the optional tail last.
decode_attest_response(body) ==
    LET count == U8(decode_lp_bytes_u32_required(Start(body)))
        keys == IF count.ok
                THEN Fields(Times(Wide32, Last(count.out), count), <<"wide", "wide">>) ELSE count
        rev == decode_lp_bytes_u32_required(keys)
        optional(c) == IF AtEnd(c) THEN [c EXCEPT !.out = Append(@, <<>>)]
                       ELSE decode_lp_bytes_u32_required(c)
        c == optional(optional(optional(rev)))
    IN  IF c.ok THEN <<Attested(c)>> ELSE <<>>

take_lp_bytes(c) == decode_lp_bytes_u32_required(c)

decode_database_proof_bundle(op, body, version) ==
    LET head == Fields(Start(body), <<"u16", "u8">>)
        c == take_lp_bytes(take_lp_bytes(take_lp_bytes(
                take_lp_bytes(take_lp_bytes(take_lp_bytes(head))))))
    IN  IF head.ok /\ head.out[1] = version /\ AtEnd(c)
        THEN <<[op |-> op, db |-> c.out[2], fields |-> Got(c, 2, 6)]>> ELSE <<>>

\* The opcode picks the version; the other one's bundle is refused.
decode_database_proof_response_for(frame) ==
    decode_database_proof_bundle(frame.op, frame.body,
        IF frame.op = "RESP_DB_PROOF" THEN DATABASE_PROOF_BUNDLE_VERSION
        ELSE DATABASE_PROOF_BUNDLE_VERSION_V2)

parse_announce_response(body) ==
    LET c == decode_lp_bytes_u32_required(Start(body)) IN
    IF c.ok THEN <<[op |-> "RESP_ANNOUNCE", bundle |-> c.out[1]]>> ELSE <<>>

parse_credit_response(body) ==
    IF Len(body) # 4 THEN <<>>
    ELSE <<[op |-> "RESP_CREDIT_OK", added |-> SubSeq(body, 1, 2), balance |-> SubSeq(body, 3, 4)]>>

parseCreditResponsePayload(body) ==
    LET c == Fields(Start(body), <<"wide", "wide">>) IN
    IF AtEnd(c) THEN <<[op |-> "RESP_CREDIT_OK", added |-> c.out[1], balance |-> c.out[2]]>>
    ELSE <<>>

parseApiKeyResponsePayload(body) == IF body = <<>> THEN <<[op |-> "RESP_API_KEY_OK"]>> ELSE <<>>

decode_register_keys_ack(body) == IF body = <<>> THEN <<[op |-> "RESP_KEYS_ACK"]>> ELSE <<>>

\* The sibling answer must be for this round, have this many results and end
\* with the last of them.
decode_sibling_batch_result(op, body, round, expected) ==
    LET c == OnionCursor(body) IN
    IF AtEnd(c) /\ c.out[1] = round /\ c.out[2] = expected
    THEN <<[op |-> op, round |-> round, results |-> Got(c, 2, expected)]>> ELSE <<>>

\* Every group answered, with as many results as keys were sent.
check_batch_response_shape(results, groups, per) ==
    Len(results) = groups /\ \A g \in 1..Len(results) : Len(results[g]) = per

----------------------------------------------------------------------------
(* What is on its way. *)

VARIABLES
    request,            \* what the client asks for
    response,           \* what the server answers
    frame               \* what arrives

Nothing == [op |-> "none"]

----------------------------------------------------------------------------
(* The requests honest clients make. *)

Rounds == {0, 1, RoundStride + 1}
SomeLevels == {0, 1, LevelStride, 3 * LevelStride - 1}
SomeQueries == {<<>>, <<Base + 1>>, <<2, Base>>}
UpTo(n, S) == UNION {[1..k -> S] : k \in 0..n}

Messages ==
         [op : BareRequests]
    \cup [op : {"REQ_GET_DB_PROOF", "REQ_GET_DB_PROOF_V2"} \cup TopRequests, db : Dbs]
    \cup [op : {"REQ_ATTEST"}, nonce : Words]
    \cup [op : {"REQ_HANDSHAKE"}, eph : Words, nonce : Words]
    \cup [op : {"REQ_INDEX_BATCH", "REQ_CHUNK_BATCH"}, round : {0, 1}, db : Dbs,
          keys : {<<<<a, b>>>> : a, b \in DpfKeys}
                    \cup {<<<<a, b>>, <<b, a>>>> : a, b \in DpfKeys}]
    \cup [op : {"REQ_BUCKET_MERKLE_SIB_BATCH"}, round : Rounds, db : Dbs,
          keys : {<<<<a>>, <<b>>>> : a, b \in DpfKeys}]
    \cup [op : {"REQ_HARMONY_HINTS"}, prp : Words, backend : {0, 1}, level : SomeLevels,
          groups : {<<0>>, <<1, 0>>}, db : Dbs]
    \cup [op : {"REQ_HARMONY_HINTS_V2"}, db : Dbs]
    \cup [op : {"REQ_HARMONY_HINTS_V2_HALF"}, token : Words \ {<<0, 0>>}, side : {0, 1}, db : Dbs]
    \cup [op : {"REQ_HARMONY_BATCH_QUERY"}, level : SomeLevels, round : {1}, subs : {1},
          items : UpTo(2, [group : {0, 2}, queries : [1..1 -> SomeQueries]]), db : Dbs]
    \cup [op : {"REQ_HARMONY_BATCH_QUERY"}, level : {0}, round : {1}, subs : {2},
          items : UpTo(1, [group : {2}, queries : [1..2 -> SomeQueries]]), db : Dbs]
    \cup UNION {[op : {"REQ_ORAM_LOOKUP"}, hashes : [1..n -> Words],
                 present : [1..n -> BOOLEAN], db : Dbs]
                : n \in 0..MAX_ORAM_LOOKUP_SCRIPTHASHES}
    \cup [op : {"REQ_CREDIT_PRESENT"}, kind : {CREDIT_PRESENT_KIND_CASHU}, coins : Blobs]
    \cup [op : {"REQ_API_KEY"}, key : Blobs]
    \cup [op : {"REQ_REGISTER_KEYS"}, galois : Blobs, gsw : Blobs, db : Dbs]
    \cup [op : OnionBatches, round : {0, 1}, queries : UpTo(2, Blobs), db : Dbs]


\* A frame one of the client's encoders gives; none for an argument they refuse.
RequestInit ==
    /\ request \in Messages
    /\ frame \in ClientFrames(request)
    /\ response = Nothing

\* The same frame without its last cell, its length restated.
ShortenRequest ==
    /\ frame.body # <<>>
    /\ frame' = [frame EXCEPT !.body = Front(@), !.len = @ - 1]
    /\ UNCHANGED <<request, response>>

RequestNext == ShortenRequest

WholeRequest == frame = EncodeRequest(request)

----------------------------------------------------------------------------
(* Properties. *)

\* The server decodes every frame a client writes, with any of the encoders,
\* to the request the client meant (group structure, padded slots and database
\* id included), and that frame is the one the runtime's encoder gives.
RequestsUnderstood ==
    frame \in ClientFrames(request) => DecodeRequest(frame) = <<request>> /\ frame = EncodeRequest(request)

\* The frames an earlier client sent for the same request, before the
\* database id existed: the request, on database 0.
Older ==
    IF "db" \in DOMAIN request /\ Len(frame.body) = Len(EncodeRequest([request EXCEPT !.db = 0]).body)
    THEN {<<[request EXCEPT !.db = 0]>>} ELSE {}

\* A frame that lost its end is refused, or is the frame an earlier client
\* sent for the same request and is served as that one; it is never taken
\* for some other request.  (An API key is the rest of its frame: a shorter
\* one is another key, which its hash then tells apart.)
ShortRefused ==
    ~WholeRequest => \/ DecodeRequest(frame) \in {<<>>} \cup Older
                     \/ request.op = "REQ_API_KEY" /\ IsPrefix(frame.body, request.key)

\* The client's classifier, which walks the raw bytes, prices every frame the
\* server prices as the same operation on the same database, shortened ones
\* included: the local mirror of the balance cannot drift by a misread frame.
PriceAgrees ==
    \A priced \in {metered_op_for_frame(frame)} : priced # {} => classify_frame(frame) = priced

\* The browser's classifier of OnionPIR frames agrees with the SDK's, apart
\* from the table of a sibling query, which no price depends on.
BrowserClassifies ==
    frame.op \in OnionBatches \cup TopRequests \cup {"REQ_REGISTER_KEYS"}
        /\ frame.op # "REQ_BUCKET_MERKLE_TREE_TOPS"
    => classifyOnionFrame(frame)
         = {<<[c[1] EXCEPT !.table = "none"], c[2]>> : c \in classify_frame(frame)}

CountsOf(q) ==
    FlattenSeq([g \in 1..Len(q.items) |->
                   [k \in 1..q.subs |-> Len(q.items[g].queries[k])]])

\* The traffic inspector refuses exactly the HarmonyPIR frames the server
\* refuses, and reports for the others the number of indices of each
\* sub-query the server goes through.
CountsSeen ==
    frame.op = "REQ_HARMONY_BATCH_QUERY" =>
        decode_payload_counts(frame.body) =
            [i \in DOMAIN DecodeRequest(frame) |-> CountsOf(DecodeRequest(frame)[i])]

----------------------------------------------------------------------------
(* The responses honest servers send. *)

\* A database whose seeds come from its anchor, or an older one with seeds of
\* its own.
DatabaseEntry(db, type, name, base, anchor, merkle) ==
    LET seed(d) == IF anchor = <<>> THEN <<d, db>> ELSE derive_seed(anchor, d) IN
    [db |-> db, type |-> type, name |-> name, base |-> base, height |-> Base + db,
     index_bins |-> 1, chunk_bins |-> Base, index_k |-> MinGroups, chunk_k |-> MinGroups + 1,
     tag |-> seed(2), n_index |-> 2, n_chunk |-> 3, merkle |-> merkle,
     index_seed |-> seed(1), chunk_seed |-> seed(3), anchor |-> anchor]

Snapshots == {DatabaseEntry(0, 0, n, 0, a, m) : n \in Names, m \in BOOLEAN,
                                                a \in {x \in Anchors : Len(x) \in {0, 2}}}
Deltas == {DatabaseEntry(1, 1, n, 3, a, m) : n \in Names, m \in BOOLEAN,
                                             a \in {x \in Anchors : Len(x) \in {0, 4}}}

Responses ==
         [op : BareResponses]
    \cup [op : Infos, index_bins : {1}, chunk_bins : {Base}, index_k : {MinGroups},
          chunk_k : {MinGroups}, tag : Words, index_seed : Words, chunk_seed : Words,
          anchor : Anchors]
    \cup [op : {"RESP_DB_CATALOG"},
          databases : {<<s>> : s \in Snapshots} \cup {<<s, d>> : s \in Snapshots, d \in Deltas}]
    \cup [op : Proofs, db : {1}, fields : [1..ProofFields -> {<<>>, <<5>>}]]
    \cup [op : {"RESP_ATTEST"}, report : Blobs, roots : {<<>>} \cup {<<a, b>> : a, b \in Words},
          binary : {<<3, 1>>}, static : Words, git : Blobs, certs : [1..3 -> {<<>>, <<2, 2>>}]]
    \cup [op : {"RESP_HANDSHAKE"}, eph : Words]
    \cup [op : {"RESP_ANNOUNCE"}, bundle : Blobs]
    \cup [op : BatchResults, round : {1, Base}, results : {<<<<a, b>>, <<b, a>>>> : a, b \in Blobs}]
    \cup [op : {"RESP_ERROR"}, text : Blobs]
    \cup [op : {"RESP_HARMONY_BATCH_QUERY"}, level : {0, 1}, round : {1}, subs : {1},
          items : {<<[group |-> g, results |-> <<a>>], [group |-> 0, results |-> <<b>>]>>
                      : g \in {1, 2}, a, b \in Blobs}]
    \cup [op : {"RESP_ORAM_LOOKUP"}, db : {0}, padding : 0..MaxPadding,
          items : {<<[found |-> f, whale |-> w, start |-> Base, chunks |-> 1, data |-> a],
                     [found |-> FALSE, whale |-> FALSE, start |-> 0, chunks |-> 0, data |-> <<>>]>>
                      : f, w \in BOOLEAN, a \in Blobs}]
    \cup [op : {"RESP_CREDIT_OK"}, added : Words, balance : Words]
    \cup [op : OnionResults, round : {0}, results : {<<a, b>> : a, b \in Blobs}]


ResponseInit ==
    /\ response \in Responses
    /\ frame = EncodeResponse(response)
    /\ request = Nothing

\* The same frame without its last cell.
ShortenResponse ==
    /\ frame.body # <<>>
    /\ frame' = [frame EXCEPT !.body = Front(@)]
    /\ UNCHANGED <<request, response>>

ResponseNext == ShortenResponse

----------------------------------------------------------------------------
(* Properties. *)

WholeResponse == frame = EncodeResponse(response)

\* What the answer means to a client.
Meant(m) ==
    IF m.op = "RESP_DB_CATALOG"
    THEN [i \in 1..Len(m.databases) |-> InfoOf(m.databases[i])]
    ELSE m

\* The outcomes of the client decoders the frame reaches.
Readings ==
    LET op == frame.op
        body == frame.body
    IN  CASE op = "RESP_DB_CATALOG" -> {decode_catalog(body)}
          [] op = "RESP_ATTEST" -> {decode_attest_response(body)}
          [] op \in Proofs -> {decode_database_proof_response_for(frame)}
          [] op = "RESP_ANNOUNCE" -> {parse_announce_response(body)}
          [] op = "RESP_CREDIT_OK" ->
                {parse_credit_response(body), parseCreditResponsePayload(body)}
          [] op = "RESP_API_KEY_OK" -> {parseApiKeyResponsePayload(body)}
          [] op = "RESP_KEYS_ACK" -> {decode_register_keys_ack(body)}
          [] op \in OnionResults ->
                {decode_sibling_batch_result(op, body, response.round, Len(response.results))}
          [] OTHER -> {}

\* Padding is not part of what a Direct ORAM answer says.
Unpadded(m) == IF m.op = "RESP_ORAM_LOOKUP" THEN [m EXCEPT !.padding = 0] ELSE m

\* The reference decoder and every client decoder read a whole response as
\* the server meant it, a batch with the shape of the request included.
ResponsesUnderstood ==
    WholeResponse =>
             /\ DecodeResponse(frame) = <<Unpadded(response)>>
             /\ Readings \subseteq {<<Meant(response)>>}
             /\ (frame.op \in BatchResults =>
                    check_batch_response_shape(DecodeResponse(frame)[1].results, 2, 2))

\* The same answer as an older server gave it, before the catalog had seeds
\* and anchors and the attestation had certificates: the cells it sent and
\* what they mean.
Legacy(e) == [e EXCEPT !.index_seed = Zero, !.chunk_seed = Zero, !.anchor = <<>>]
Earlier ==
    IF response.op = "RESP_DB_CATALOG"
    THEN LET n == Len(response.databases)
             ext == 1 + Len(Each(LAMBDA e : e.index_seed \o e.chunk_seed
                                                \o encode_anchor_ext(e.anchor), response.databases))
             whole == EncodeResponse(response).body
         IN  {<<SubSeq(whole, 1, Len(whole) - ext),
                [i \in 1..n |-> InfoOf(Legacy(response.databases[i]))]>>}
    ELSE IF response.op = "RESP_ATTEST"
    THEN {<<encode_attest_result([response EXCEPT !.certs = SubSeq(@, 1, j)]),
            [response EXCEPT !.certs = [k \in 1..3 |-> IF k <= j THEN @[k] ELSE <<>>]]>>
             : j \in 0..2}
    ELSE {}

\* A response that lost its end is refused by every client, unless it is what
\* an older server sends: then it is read as that server meant it, and the
\* reference decoder reads the same.
OlderServersRead ==
    ~WholeResponse => \A r \in Readings :
        LET olds == {o[2] : o \in {x \in Earlier : x[1] = frame.body}} IN
        IF olds = {} THEN r = <<>>
        ELSE \E o \in olds : r = <<o>> /\ Meant(DecodeResponse(frame)[1]) = o

\* Whatever catalog the SDK accepts, whole or from an older server, the
\* browser's own reader reads as the same databases with the same seeds.
BrowserCatalogAgrees ==
    frame.op = "RESP_DB_CATALOG" /\ decode_catalog(frame.body) # <<>> =>
        LET seen == decodeDatabaseCatalog(frame.body) IN
        /\ seen # <<>>
        /\ [i \in 1..Len(seen[1]) |-> InfoOf(seen[1][i])] = decode_catalog(frame.body)[1]

\* Every reader of an error envelope but the attestation's shows the text the
\* server sent when it all arrived; when it was cut, the strict reader refuses
\* it and the tolerant ones do not show a part of it as if it were the whole.
ErrorTextRead ==
    frame.op = "RESP_ERROR" =>
        LET tolerant == {decode_error_envelope(frame.body), decode_error_response(frame.body),
                         announce_error_text(frame.body), decodeErrorEnvelope(frame.body)}
        IN  IF WholeResponse
            THEN /\ decode_error_response_message(frame.body) = <<response.text>>
                 /\ tolerant \cup {decode_error_message(frame.body)} = {response.text}
            ELSE /\ decode_error_response_message(frame.body) = <<>>
                 /\ tolerant = {IF Len(frame.body) >= 2 THEN Truncated ELSE frame.body}
=============================================================================
