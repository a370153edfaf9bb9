----------------------------- MODULE GasPricing -----------------------------
(***************************************************************************)
(* What a metered request costs, as four pieces of code see it: the server *)
(* prices it from the geometry of its databases (`GasTable::work_gas`),    *)
(* publishes a card with one figure per kind of request, and the Rust and  *)
(* the browser client price their frames from that card and keep a copy of *)
(* the connection's balance.                                               *)
(*                                                                         *)
(* An optional figure is a set with at most one element.  Costs are        *)
(* integers over Unit: the code's millisecond figures are floats.  Bytes   *)
(* are counted in KB, Million of them to the 10^6 bytes egress is priced   *)
(* by.  The saturation of 64-bit arithmetic is left out.                   *)
(***************************************************************************)
EXTENDS Integers, Sequences

CONSTANTS Rate,          \* Calibration: integer costs over Unit
          Unit,          \* what one gas is of them
          Geometries,    \* DatabaseGeometry values
          MaxSubs,       \* sub-queries of a HarmonyPIR batch
          Base,          \* base_gas_per_frame
          PerCredit,     \* gas_per_credit
          PerMb,         \* egress_gas_per_mb
          Million,       \* KB in 10^6 bytes
          MaxRequests    \* bound: requests of a connection

UnitAssumption == Unit \in Nat \ {0} /\ PerCredit \in Nat \ {0} /\ Million \in Nat \ {0}

----------------------------------------------------------------------------
(* Metered operations. *)

MeteredOp(kind, table, level, subs) ==
    [kind |-> kind, table |-> table, level |-> level, subs |-> subs]
Op(kind) == MeteredOp(kind, "none", 0, 0)

Tables == {"Index", "Chunk"}
Levels == 0..2                              \* sibling levels, one more than any table has
HarmonyLevels == {0, 1} \cup {10 + l : l \in Levels} \cup {20 + l : l \in Levels}

Ops ==
         {Op(k) : k \in {"DpfIndexRound", "DpfChunkRound", "TreeTops", "OnionRegisterKeys",
                         "OnionIndexQuery", "OnionChunkQuery", "OnionTreeTops",
                         "HarmonyPoolEntry", "HarmonyContinuation", "OramLookup"}}
    \cup {MeteredOp("OnionSiblingQuery", t, 0, 0) : t \in Tables}
    \cup {MeteredOp("DpfSiblingPass", t, l, 0) : t \in Tables, l \in Levels}
    \cup {MeteredOp("HarmonyHintSet", "none", l, 0) : l \in HarmonyLevels}
    \cup {MeteredOp("HarmonyQuery", "none", l, s) : l \in HarmonyLevels, s \in 0..MaxSubs}

\* The table of a wire level and, in a set, its sibling level.
harmony_level(level) ==
    CASE level = 0 -> {[table |-> "Index", sibling |-> {}]}
      [] level = 1 -> {[table |-> "Chunk", sibling |-> {}]}
      [] level \in 10..19 -> {[table |-> "Index", sibling |-> {level - 10}]}
      [] level \in 20..29 -> {[table |-> "Chunk", sibling |-> {level - 20}]}
      [] OTHER -> {}

----------------------------------------------------------------------------
(* The server's price, from geometry. *)

Larger(a, b) == IF a >= b THEN a ELSE b
Round(cost) == (2 * cost + Unit) \div (2 * Unit)
At(list, level) == IF level < Len(list) THEN {list[level + 1]} ELSE {}

cells(sub) == sub.bins * sub.groups
dpf(sub) == cells(sub) * Rate.dpf_bin + sub.bytes * Rate.dpf_byte

\* round(sqrt(2n))
harmony_segment(bins) ==
    CHOOSE t \in 0..(2 * bins) :
        /\ t = 0 \/ (2 * t - 1) * (2 * t - 1) <= 8 * bins
        /\ 8 * bins < (2 * t + 1) * (2 * t + 1)

sibling(cuckoo, table, level) == At(cuckoo.siblings[table], level)

\* The tables a HarmonyPIR level is about.
LevelTables(cuckoo, level) ==
    UNION {IF h.sibling = {} THEN {cuckoo.main[h.table]}
           ELSE UNION {sibling(cuckoo, h.table, l) : l \in h.sibling} : h \in harmony_level(level)}

query_cost(sub, subs) ==
    sub.groups * Larger(harmony_segment(sub.bins) - 1, 0) * Larger(subs, 1) * Rate.query

pool_cost(cuckoo) == (cells(cuckoo.main["Index"]) + cells(cuckoo.main["Chunk"])) * Rate.pool

Cost(d, op) ==
    CASE op.kind = "DpfIndexRound" -> {dpf(c.main["Index"]) : c \in d.cuckoo}
      [] op.kind = "DpfChunkRound" -> {dpf(c.main["Chunk"]) : c \in d.cuckoo}
      [] op.kind = "DpfSiblingPass" ->
            UNION {{dpf(s) : s \in sibling(c, op.table, op.level)} : c \in d.cuckoo}
      [] op.kind = "TreeTops" -> {Rate.tree_tops : c \in d.cuckoo}
      [] op.kind = "OnionRegisterKeys" -> {Rate.register : o \in d.onion}
      [] op.kind = "OnionIndexQuery" -> {o.index * Rate.onion_index : o \in d.onion}
      [] op.kind = "OnionChunkQuery" -> {o.chunk * Rate.onion_chunk : o \in d.onion}
      [] op.kind = "OnionSiblingQuery" -> {Rate.onion_sibling : o \in d.onion}
      [] op.kind = "OnionTreeTops" -> {Rate.tree_tops : o \in d.onion}
      [] op.kind = "HarmonyHintSet" ->
            UNION {{cells(s) * (IF op.level < 10 THEN Rate.pool ELSE Rate.sibling)
                        : s \in LevelTables(c, op.level)} : c \in d.cuckoo}
      [] op.kind \in {"HarmonyPoolEntry", "HarmonyContinuation"} -> {pool_cost(c) : c \in d.cuckoo}
      [] op.kind = "HarmonyQuery" ->
            UNION {{query_cost(s, op.subs) : s \in LevelTables(c, op.level)} : c \in d.cuckoo}
      [] op.kind = "OramLookup" -> {slots * Rate.oram : slots \in d.oram}

work_gas(d, op) ==
    {IF op.kind = "HarmonyContinuation" THEN Round(c) \div 2 ELSE Round(c) : c \in Cost(d, op)}

frame_gas(work) == work + Base
egress_gas(kb) == (kb * PerMb) \div Million
credits_to_cover(gas) == (gas + PerCredit - 1) \div PerCredit

admission_gas(d, op) == {frame_gas(w) : w \in work_gas(d, op)}

----------------------------------------------------------------------------
(* The published card. *)

\* One figure per level, each from the operation of its level.
PerLevel(d, ops) == [i \in DOMAIN ops |-> CHOOSE w \in work_gas(d, ops[i]) : TRUE]

per_database_entries(d) ==
    LET gas(kind) == work_gas(d, Op(kind))
        levels(t) == UNION {DOMAIN c.siblings[t] : c \in d.cuckoo}
    IN  [dpf |-> [t \in Tables |-> gas(IF t = "Index" THEN "DpfIndexRound" ELSE "DpfChunkRound")],
         dpf_sibling_pass |-> [t \in Tables |->
             PerLevel(d, [i \in levels(t) |-> MeteredOp("DpfSiblingPass", t, i - 1, 0)])],
         tree_tops |-> gas("TreeTops"),
         onion_register_keys |-> gas("OnionRegisterKeys"),
         onion_index_query |-> gas("OnionIndexQuery"),
         onion_chunk_query |-> gas("OnionChunkQuery"),
         onion_sibling_query |-> work_gas(d, MeteredOp("OnionSiblingQuery", "Index", 0, 0)),
         harmony_pool_entry |-> gas("HarmonyPoolEntry"),
         harmony_sibling_set |-> [t \in Tables |->
             PerLevel(d, [i \in levels(t) |->
                 MeteredOp("HarmonyHintSet", "none", (IF t = "Index" THEN 10 ELSE 20) + i - 1, 0)])],
         harmony_query |-> [t \in Tables |->
             work_gas(d, MeteredOp("HarmonyQuery", "none", IF t = "Index" THEN 0 ELSE 1, 1))],
         oram_lookup |-> gas("OramLookup")]

----------------------------------------------------------------------------
(* The clients' prices, from the card. *)

continuation_gas(k) == {g \div 2 : g \in k.harmony_pool_entry}

\* An index hint set is a third of an entry, a chunk one the rest; a sibling
\* level has a figure of its own.
hint_set_gas(k, level) ==
    UNION {IF h.sibling # {}
           THEN UNION {At(k.harmony_sibling_set[h.table], l) : l \in h.sibling}
           ELSE {IF h.table = "Index" THEN g \div 3 ELSE g - g \div 3 : g \in k.harmony_pool_entry}
              : h \in harmony_level(level)}

\* Mutant: the number of sub-queries is left out.
query_gas_single(k, level, subs) ==
    UNION {k.harmony_query[h.table] : h \in harmony_level(level)}

\* A query at any level is a multiple of the main table's single one.
query_gas(k, level, subs) ==
    UNION {{g * Larger(subs, 1) : g \in k.harmony_query[h.table]} : h \in harmony_level(level)}

\* DatabaseGasCard::work_gas
card_work_gas(k, op) ==
    CASE op.kind = "DpfIndexRound" -> k.dpf["Index"]
      [] op.kind = "DpfChunkRound" -> k.dpf["Chunk"]
      [] op.kind = "DpfSiblingPass" -> At(k.dpf_sibling_pass[op.table], op.level)
      [] op.kind = "TreeTops" -> k.tree_tops
      [] op.kind = "OnionRegisterKeys" -> k.onion_register_keys
      [] op.kind = "OnionIndexQuery" -> k.onion_index_query
      [] op.kind = "OnionChunkQuery" -> k.onion_chunk_query
      [] op.kind = "OnionSiblingQuery" -> k.onion_sibling_query
      [] op.kind = "OnionTreeTops" ->
            IF k.tree_tops = {} THEN {5} ELSE k.tree_tops
      [] op.kind = "HarmonyPoolEntry" -> k.harmony_pool_entry
      [] op.kind = "HarmonyContinuation" -> continuation_gas(k)
      [] op.kind = "HarmonyHintSet" -> hint_set_gas(k, op.level)
      [] op.kind = "HarmonyQuery" -> query_gas(k, op.level, op.subs)
      [] op.kind = "OramLookup" -> k.oram_lookup

browser_query_table(level) == IF level = 1 \/ level >= 20 THEN "Chunk" ELSE "Index"

\* The browser's workGas: written apart where the code is.
workGas(k, op) ==
    CASE op.kind = "OnionTreeTops" ->
            IF k.onion_index_query = {} THEN {}
            ELSE IF k.tree_tops = {} THEN {5} ELSE k.tree_tops
      [] op.kind = "HarmonyHintSet" ->
            CASE op.level = 0 -> {g \div 3 : g \in k.harmony_pool_entry}
              [] op.level = 1 -> {g - g \div 3 : g \in k.harmony_pool_entry}
              [] op.level >= 20 -> At(k.harmony_sibling_set["Chunk"], op.level - 20)
              [] op.level \in 10..19 -> At(k.harmony_sibling_set["Index"], op.level - 10)
              [] OTHER -> {}
      [] op.kind = "HarmonyQuery" ->
            {g * Larger(1, op.subs) : g \in k.harmony_query[browser_query_table(op.level)]}
      [] OTHER -> card_work_gas(k, op)

\* The KB of the response pre-funded with a frame.
Mb == 1024
sibling_reserve(table, level) ==
    LET sizes == IF table = "Index" THEN <<8, 3, 1, 1>> ELSE <<12, 4, 2, 2>>
    IN  Mb * sizes[(IF level < 3 THEN level ELSE 3) + 1]

expected_response_bytes(op) ==
    CASE op.kind = "DpfIndexRound" -> 16
      [] op.kind \in {"DpfChunkRound", "DpfSiblingPass"} -> 32
      [] op.kind = "TreeTops" -> 12 * Mb
      [] op.kind = "OnionRegisterKeys" -> 1
      [] op.kind \in {"OnionIndexQuery", "OnionTreeTops"} -> 2 * Mb
      [] op.kind \in {"OnionChunkQuery", "OnionSiblingQuery"} -> Mb
      [] op.kind = "HarmonyPoolEntry" -> 20 * Mb
      [] op.kind = "HarmonyContinuation" -> 16 * Mb
      [] op.kind \in {"HarmonyHintSet", "HarmonyQuery"} ->
            (CHOOSE kb \in {IF h.sibling # {}
                            THEN sibling_reserve(h.table, CHOOSE l \in h.sibling : TRUE)
                            ELSE IF h.table = "Index" THEN 5 * Mb ELSE 16 * Mb
                               : h \in harmony_level(op.level)} : TRUE)
      [] op.kind = "OramLookup" -> 64

expectedResponseBytes(op) ==
    CASE op.kind = "OnionRegisterKeys" -> 1
      [] op.kind \in {"OnionIndexQuery", "OnionTreeTops"} -> 2 * Mb
      [] op.kind \in {"OnionChunkQuery", "OnionSiblingQuery"} -> Mb
      [] op.kind = "TreeTops" -> 12 * Mb
      [] op.kind = "HarmonyPoolEntry" -> 20 * Mb
      [] op.kind = "HarmonyContinuation" -> 16 * Mb
      [] op.kind \in {"HarmonyHintSet", "HarmonyQuery"} ->
            CASE op.level = 0 -> 5 * Mb
              [] op.level = 1 -> 16 * Mb
              [] op.level >= 20 -> sibling_reserve("Chunk", op.level - 20)
              [] OTHER -> sibling_reserve("Index", op.level - 10)
      [] op.kind = "DpfIndexRound" -> 16
      [] op.kind = "OramLookup" -> 64
      [] OTHER -> 32

----------------------------------------------------------------------------
(* One connection: the server's balance and the client's meter. *)

VARIABLES
    db,         \* the database, as the server loaded it
    card,       \* the client's copy of its figures
    server,     \* GasBalance of the connection
    meter,      \* ConnectionCreditMeter.balance
    asked,      \* the request being funded, sent or served, in a set
    stage,      \* "idle", "funded", "retried", "served" or "refused"
    exact,      \* every frame since the last refusal had a published price
    requests    \* bound counter
vars == <<db, card, server, meter, asked, stage, exact, requests>>

\* Operations whose price is published, not derived from another's.
Published(op) ==
    CASE op.kind = "HarmonyQuery" -> op.level \in {0, 1} /\ op.subs <= 1
      [] op.kind = "HarmonyHintSet" -> op.level >= 10
      [] OTHER -> TRUE

credits_to_present(gas, kb) ==
    LET shortfall == gas + egress_gas(kb) - meter
    IN  IF shortfall <= 0 THEN 0 ELSE credits_to_cover(shortfall)

Init ==
    /\ db \in Geometries
    /\ card = per_database_entries(db)
    /\ server = 0 /\ meter = 0 /\ asked = {} /\ stage = "idle" /\ exact = TRUE /\ requests = 0

\* The client prices a frame and presents what is missing; the receipt names
\* the server's balance.
Fund(op) ==
    /\ stage = "idle" /\ requests < MaxRequests
    /\ \E work \in card_work_gas(card, op) :
         LET credits == credits_to_present(frame_gas(work), expected_response_bytes(op)) IN
         /\ server' = server + credits * PerCredit
         /\ meter' = IF credits = 0 THEN meter ELSE server'
    /\ asked' = {op} /\ stage' = "funded" /\ requests' = requests + 1
    /\ UNCHANGED <<db, card, exact>>

\* The frame arrives: work and base fee are charged before it is served, or it
\* is refused, naming the balance.
Send ==
    /\ stage \in {"funded", "retried"}
    /\ \E op \in asked, price \in admission_gas(db, CHOOSE o \in asked : TRUE) :
         IF price <= server
         THEN /\ server' = server - price
              /\ meter' = meter - frame_gas(CHOOSE w \in card_work_gas(card, op) : TRUE)
              /\ stage' = "served"
              /\ exact' = (exact /\ Published(op))
         ELSE /\ meter' = server
              /\ stage' = "refused"
              /\ exact' = TRUE
              /\ UNCHANGED server
    /\ UNCHANGED <<db, card, asked, requests>>

\* The client pays what the refusal named and sends the frame again.
Retry ==
    /\ stage = "refused"
    /\ \E op \in asked, price \in admission_gas(db, CHOOSE o \in asked : TRUE) :
         server' = server + credits_to_present(price, expected_response_bytes(op)) * PerCredit
    /\ meter' = server' /\ stage' = "retried"
    /\ UNCHANGED <<db, card, asked, exact, requests>>

record_response(kb) == meter - egress_gas(kb)

\* The response's egress is charged when it has been sent.
Respond ==
    /\ stage = "served"
    /\ \E op \in asked : \E kb \in {0, expected_response_bytes(op)} :
         /\ server' = server - egress_gas(kb)
         /\ meter' = record_response(kb)
    /\ asked' = {} /\ stage' = "idle"
    /\ UNCHANGED <<db, card, exact, requests>>

Next == (\E op \in Ops : Fund(op)) \/ Send \/ Retry \/ Respond

Spec == Init /\ [][Next]_vars

----------------------------------------------------------------------------
(* Properties. *)

\* Served by this server, apart from OnionPIR tree tops where there is no
\* OnionPIR: the SDK prices those all the same.
Served(op) == op.kind # "OnionTreeTops" \/ db.onion # {}

\* The client's price of an operation with a published figure is the
\* server's, for every geometry, backends that are not loaded included.
PublishedPricesAgree ==
    \A op \in Ops : Published(op) /\ Served(op) =>
        card_work_gas(card, op) = work_gas(db, op)

\* A batch, and a query on a sibling level, is priced from the single query's
\* rounded figure: the client is never short by more than half a gas per
\* sub-query, sibling tables being smaller than the table they prove.
DerivedPricesClose ==
    \A op \in Ops : op.kind = "HarmonyQuery" =>
        \A w \in work_gas(db, op) : \A g \in card_work_gas(card, op) :
            2 * (w - g) <= Larger(op.subs, 1) + 1

\* The browser prices and reserves for each operation as the SDK does.
BrowserPricesAgree ==
    \A op \in Ops : /\ Served(op) => workGas(card, op) = card_work_gas(card, op)
                    /\ expectedResponseBytes(op) = expected_response_bytes(op)

\* As long as prices are exact, a response no larger than the reserve leaves
\* the balance at 0 or more: the next frame does not find a debt.
ReserveCoversEgress == exact => server >= 0

\* The client's meter is the server's balance as long as every frame since
\* the last refusal had a published price.
MeterExact == exact => meter = server

=============================================================================
