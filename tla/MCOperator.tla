----------------------------- MODULE MCOperator -----------------------------
(***************************************************************************)
(* Instances of what an operator runs beside the PIR servers: the database *)
(* builder (cuckoo tables, chunk files, OnionPIR tables), the directory of *)
(* providers with its publisher, its clients and their rollback floors,    *)
(* and the relay it is published on. It extends the cuckoo table and the   *)
(* floors. The parts share no state, so every behaviour explores one of    *)
(* them, its focus.                                                        *)
(***************************************************************************)
EXTENDS CuckooTable, DirectoryFloors, TLC

CONSTANTS Foci,       \* the parts a run explores, one in each behaviour
          s1, s2, a1, a2, a3, z1, z2, t1, t2, p, q, r1, r2, w1, w2

VARIABLE focus         \* the part of this behaviour; the others stay put

VARIABLES index_hash, index_table, index_next, index_current, index_current_bin, index_kick, index_pc
indexVars == <<index_hash, index_table, index_next, index_current, index_current_bin, index_kick, index_pc>>
indexIdle ==
    index_hash = 0 /\ index_table = 0 /\ index_next = 0 /\ index_current = 0
    /\ index_current_bin = 0 /\ index_kick = 0 /\ index_pc = 0

VARIABLES chain, job, stage, index, build_file, cur, pos
buildVars == <<chain, job, stage, index, build_file, cur, pos>>
buildIdle ==
    chain = 0 /\ job = 0 /\ stage = 0 /\ index = 0 /\ build_file = 0 /\ cur = 0
    /\ pos = 0

VARIABLES onion_hash, who, onion_table, onion_next, current_id, current_hash_fn, onion_current_bin,
          onion_kick, onion_pc, stored, onion_served
onionVars == <<onion_hash, who, onion_table, onion_next, current_id, current_hash_fn, onion_current_bin,
               onion_kick, onion_pc, stored, onion_served>>
onionIdle ==
    onion_hash = 0 /\ who = 0 /\ onion_table = 0 /\ onion_next = 0 /\ current_id = 0
    /\ current_hash_fn = 0 /\ onion_current_bin = 0 /\ onion_kick = 0 /\ onion_pc = 0
    /\ stored = 0 /\ onion_served = 0

VARIABLES input, scratch, meta, hashes, index_all, merge_pc, merge_next, runs, finished, leftover,
          cut, merge_served
mergeVars == <<input, scratch, meta, hashes, index_all, merge_pc, merge_next, runs, finished, leftover,
               cut, merge_served>>
mergeIdle ==
    input = 0 /\ scratch = 0 /\ meta = 0 /\ hashes = 0 /\ index_all = 0 /\ merge_pc = 0
    /\ merge_next = 0 /\ runs = 0 /\ finished = 0 /\ leftover = 0 /\ cut = 0
    /\ merge_served = 0

VARIABLES dir_now, dir_file, dir_board, ledger, announced, run, relay, client, ok, signed, left
dirVars == <<dir_now, dir_file, dir_board, ledger, announced, run, relay, client, ok, signed, left>>
dirIdle ==
    dir_now = 0 /\ dir_file = 0 /\ dir_board = 0 /\ ledger = 0 /\ announced = 0
    /\ run = 0 /\ relay = 0 /\ client = 0 /\ ok = 0 /\ signed = 0 /\ left = 0

VARIABLES slots, archive, heads, count, relay_board, conn, acked, nacked, relay_now, crashes
relayVars == <<slots, archive, heads, count, relay_board, conn, acked, nacked, relay_now, crashes>>
relayIdle ==
    slots = 0 /\ archive = 0 /\ heads = 0 /\ count = 0 /\ relay_board = 0 /\ conn = 0
    /\ acked = 0 /\ nacked = 0 /\ relay_now = 0 /\ crashes = 0

-----------------------------------------------------------------------------
(* The chain of the chunk builder: two scripts, one dust output.           *)
OwnerBasic == (a1 :> s1) @@ (a2 :> s1) @@ (a3 :> s1) @@ (z1 :> s2) @@ (z2 :> s2)
WorthBasic == (a1 :> "coin") @@ (a2 :> "coin") @@ (a3 :> "coin") @@ (z1 :> "coin") @@ (z2 :> "dust")
RankBasic == (s1 :> 2) @@ (s2 :> 1)

(* Directory events: a provider that changes, is removed and comes back,   *)
(* and events that contradict each other.                                  *)
FloorEntry(id, seq, at, status, op, digest) ==
    [kind |-> "entry", provider |-> p, id |-> id, seq |-> seq, at |-> at,
     status |-> status, op |-> op, digest |-> digest]
FloorCheck(id, epoch, at, members) ==
    [kind |-> "checkpoint", shard |-> 0, id |-> id, epoch |-> epoch, at |-> at,
     from |-> at, until |-> 9, members |-> members]
FloorEvents ==
    { FloorEntry(11, 1, 1, "Active", 1, 1),
      FloorEntry(12, 2, 2, "Active", 2, 2),
      FloorEntry(13, 2, 3, "Active", 2, 3),
      FloorEntry(14, 3, 3, "Tombstone", 0, 0),
      FloorEntry(15, 4, 4, "Active", 1, 1),
      FloorEntry(16, 4, 5, "Active", 2, 2),
      FloorEntry(17, 5, 6, "Active", 3, 4),
      FloorCheck(21, 1, 1, {}), FloorCheck(22, 2, 2, {}), FloorCheck(23, 2, 3, {1}) }

OneShard == [x \in {p, q} |-> 0]
TwoShards == [x \in {p, q} |-> IF x = p THEN 0 ELSE 1]

(* What is sent to the relay. *)
RelayEntry(provider, id, at, until) ==
    [kind |-> "entry", provider |-> provider, shard |-> 0, id |-> id, at |-> at, until |-> until]
SomeEvents ==
    {RelayEntry(p, 1, 1, 2), RelayEntry(p, 2, 1, 2),
     [kind |-> "checkpoint", shard |-> 0, id |-> 3, at |-> 1, until |-> 1]}
SomeNews ==
    {[node |-> p, id |-> 1, at |-> 1, until |-> 1], [node |-> p, id |-> 2, at |-> 2, until |-> 3],
     [node |-> q, id |-> 3, at |-> 2, until |-> 3]}

-----------------------------------------------------------------------------
(* The instances. *)

IndexTable == INSTANCE CuckooTable WITH
        N <- 5, B <- 2, Slots <- 3, H <- 2, MaxKicks <- 5, KeyBase <- 1, hash <- index_hash,
        table <- index_table, next <- index_next, current <- index_current,
        current_bin <- index_current_bin, kick <- index_kick, pc <- index_pc

Chunks == INSTANCE ChunkBuild WITH
        Scripts <- {s1, s2}, Owner <- OwnerBasic, Worth <- WorthBasic, MAX_UTXOS_PER_SPK <- 2,
        BLOCK_SIZE <- 2, MAX_CHUNKS_PER_SPK <- 2, Rank <- RankBasic, Partitions <- 2,
        ENTRY_SIZE <- 4, MAX_ENTRIES <- 2, FLAG_WHALE <- 9, MaxBlocks <- 2,
        file <- build_file

OnionTable == INSTANCE OnionChunkTable WITH
        N <- 3, B <- 3, H <- 2, MaxKicks <- 4, Slots <- 4, hash <- onion_hash, table <- onion_table,
        next <- onion_next, current_bin <- onion_current_bin, kick <- onion_kick,
        pc <- onion_pc, served <- onion_served

OnionIndex == INSTANCE OnionBuild WITH
        K <- 3, Builds <- 3, BinsOf <- <<1, 1, 2>>, MaxRuns <- 4, pc <- merge_pc,
        next <- merge_next, served <- merge_served

Publish == INSTANCE DirectoryCatalog WITH
        Providers <- {q}, Listed <- {}, ShardOf <- OneShard, Relays <- <<r1>>, Span <- 3,
        MaxTime <- 4, Runs <- 4, Faults <- 0, Moves <- 0, News <- 2, Refreshes <- 1,
        now <- dir_now, file <- dir_file, board <- dir_board

Faulty == INSTANCE DirectoryCatalog WITH
        Providers <- {p, q}, Listed <- {p}, ShardOf <- TwoShards, Relays <- <<r1>>, Span <- 2,
        MaxTime <- 3, Runs <- 3, Faults <- 1, Moves <- 0, News <- 0, Refreshes <- 2,
        now <- dir_now, file <- dir_file, board <- dir_board

TwoRelays == INSTANCE DirectoryCatalog WITH
        Providers <- {p, q}, Listed <- {p}, ShardOf <- OneShard, Relays <- <<r1, r2>>, Span <- 1,
        MaxTime <- 3, Runs <- 2, Faults <- 0, Moves <- 1, News <- 1, Refreshes <- 1,
        now <- dir_now, file <- dir_file, board <- dir_board

RelayRead == INSTANCE RelayServer WITH
        Publishers <- {w1}, Readers <- {r1}, Events <- SomeEvents, News <- {}, GlobalSlots <- 2,
        ShardCapacity <- 2, ArchiveCapacity <- 3, BoardCapacity <- 1, PageSize <- 1,
        Egress <- 4, Work <- 2, MaxTime <- 1, Crashes <- 0, board <- relay_board,
        now <- relay_now

RelayWrite == INSTANCE RelayServer WITH
        Publishers <- {w1, w2}, Readers <- {}, Events <- SomeEvents, News <- {}, GlobalSlots <- 3,
        ShardCapacity <- 1, ArchiveCapacity <- 2, BoardCapacity <- 1, PageSize <- 1,
        Egress <- 4, Work <- 1, MaxTime <- 2, Crashes <- 1, board <- relay_board,
        now <- relay_now

RelayBoard == INSTANCE RelayServer WITH
        Publishers <- {w1, w2}, Readers <- {r1}, Events <- {RelayEntry(p, 1, 1, 2)},
        News <- SomeNews, GlobalSlots <- 2, ShardCapacity <- 1, ArchiveCapacity <- 1,
        BoardCapacity <- 1, PageSize <- 1, Egress <- 6, Work <- 1, MaxTime <- 2,
        Crashes <- 0, board <- relay_board, now <- relay_now

ASSUME InstanceAssumptions ==
    /\ CallsAssumption
    /\ EventsAssumption
    /\ Chunks!UtxoChainAssumption
    /\ Chunks!ChunkBuildAssumption
    /\ OnionTable!ChunkTableAssumption
    /\ OnionIndex!OnionBuildAssumption

-----------------------------------------------------------------------------
suiteVars == <<focus, vars, floorsVars, indexVars, buildVars, onionVars, mergeVars, dirVars, relayVars>>

SuiteInit ==
    /\ focus \in Foci
    /\ Init /\ (focus = "chunk" \/ hash = [x \in Items \X Hashes |-> 0])
    /\ FloorsInit
    /\ IF focus = "index" THEN IndexTable!Init ELSE indexIdle
    /\ IF focus = "chunks" THEN Chunks!Init ELSE buildIdle
    /\ IF focus = "onion_table" THEN OnionTable!Init ELSE onionIdle
    /\ IF focus = "onion_build" THEN OnionIndex!Init ELSE mergeIdle
    /\ CASE focus = "publish" -> Publish!Init
         [] focus = "faulty" -> Faulty!Init
         [] focus = "two_relays" -> TwoRelays!Init
         [] OTHER -> dirIdle
    /\ CASE focus = "relay_read" -> RelayRead!Init
         [] focus = "relay_write" -> RelayWrite!Init
         [] focus = "relay_board" -> RelayBoard!Init
         [] OTHER -> relayIdle

CuckooStep ==
    /\ focus = "chunk" /\ Next
    /\ UNCHANGED <<focus, floorsVars, indexVars, buildVars, onionVars, mergeVars, dirVars, relayVars>>

FloorsStep ==
    /\ focus = "floors" /\ FloorsNext
    /\ UNCHANGED <<focus, vars, indexVars, buildVars, onionVars, mergeVars, dirVars, relayVars>>

IndexStep ==
    /\ focus = "index" /\ IndexTable!Next
    /\ UNCHANGED <<focus, vars, floorsVars, buildVars, onionVars, mergeVars, dirVars, relayVars>>

BuildStep ==
    /\ focus = "chunks" /\ Chunks!Next
    /\ UNCHANGED <<focus, vars, floorsVars, indexVars, onionVars, mergeVars, dirVars, relayVars>>

OnionStep ==
    /\ focus = "onion_table" /\ OnionTable!Next
    /\ UNCHANGED <<focus, vars, floorsVars, indexVars, buildVars, mergeVars, dirVars, relayVars>>

MergeStep ==
    /\ focus = "onion_build" /\ OnionIndex!Next
    /\ UNCHANGED <<focus, vars, floorsVars, indexVars, buildVars, onionVars, dirVars, relayVars>>

DirStep ==
    /\ \/ focus = "publish" /\ Publish!Next
       \/ focus = "faulty" /\ Faulty!Next
       \/ focus = "two_relays" /\ TwoRelays!Next
    /\ UNCHANGED <<focus, vars, floorsVars, indexVars, buildVars, onionVars, mergeVars, relayVars>>

RelayStep ==
    /\ \/ focus = "relay_read" /\ RelayRead!Next
       \/ focus = "relay_write" /\ RelayWrite!Next
       \/ focus = "relay_board" /\ RelayBoard!Next
    /\ UNCHANGED <<focus, vars, floorsVars, indexVars, buildVars, onionVars, mergeVars, dirVars>>

SuiteNext ==
    \/ CuckooStep
    \/ FloorsStep
    \/ IndexStep
    \/ BuildStep
    \/ OnionStep
    \/ MergeStep
    \/ DirStep
    \/ RelayStep

SuiteSpec == SuiteInit /\ [][SuiteNext]_suiteVars

-----------------------------------------------------------------------------
(* Properties. *)

(***************************************************************************)
(* The other tables of a database. The INDEX table keeps what TableSafe    *)
(* says of the CHUNK table; a client that repeats the OnionPIR insertion   *)
(* ends with the table in the file, and the server answers the bin of an   *)
(* entry with that entry; and what a server loads is one build, that of    *)
(* the input once a full run has ended, unless a killed run left groups of *)
(* another input with as many bins.                                        *)
(***************************************************************************)
BuildsSafe ==
    /\ focus = "index" => IndexTable!TableSafe
    /\ focus = "onion_table" => OnionTable!TypeOK /\ OnionTable!ClientRebuilds /\ OnionTable!EntryServed
    /\ focus = "onion_build" =>
          OnionIndex!TypeOK /\ OnionIndex!ServedOneBuild
          /\ OnionIndex!GroupsOfInput /\ OnionIndex!FinishedLoads

(***************************************************************************)
(* The two layouts of records. A client reads for every script exactly the *)
(* coins it holds from a finished full database; a record of a finished    *)
(* delta applied to the coins at its base gives the coins at its tip, and  *)
(* a script without one holds the same at both; and no assertion of the    *)
(* builders fails.                                                         *)
(***************************************************************************)
ChunksSafe ==
    focus = "chunks" => Chunks!TypeOK /\ Chunks!FullReadsBack /\ Chunks!DeltaBridges /\ Chunks!NoAbort

(***************************************************************************)
(* Publishing and reading the directory. After a run that succeeded a      *)
(* client accepts every shard of every relay, and after runs that failed   *)
(* part-way two good ones are enough; numbers increase with the time of    *)
(* signing; the ledger is never ahead of the relays; what is shown of a    *)
(* shard is all that one run signed for it; and everything in a catalog is *)
(* current as long as it says it is valid.                                 *)
(***************************************************************************)
CatalogSafe ==
    /\ focus = "publish" => Publish!PublishedIsAccepted /\ Publish!NumbersIncrease
    /\ focus = "faulty" =>
          Faulty!TypeOK /\ Faulty!LedgerBacked /\ Faulty!ShownIsOneRun
          /\ Faulty!AcceptedAfterTwo
    /\ focus = "two_relays" =>
          TwoRelays!LedgerBacked /\ TwoRelays!ShownIsOneRun
          /\ TwoRelays!ValidWhileCurrent

(***************************************************************************)
(* The relay. A finished catalog answer holds exactly the events of the    *)
(* instant its snapshot was frozen, one per coordinate, and is never cut   *)
(* by the byte budget; what is on disk passes the validation of the next   *)
(* start and holds what was acknowledged; and a connection with a permit   *)
(* of its lane is never kept waiting for the global one.                   *)
(***************************************************************************)
RelaySafe ==
    /\ focus = "relay_read" =>
          RelayRead!TypeOK /\ RelayRead!SnapshotIsInstant
          /\ RelayRead!OneEventPerCoordinate /\ RelayRead!AnswersFitBudget
    /\ focus = "relay_write" => RelayWrite!Restartable /\ RelayWrite!AckedIsArchived
    /\ focus = "relay_board" => RelayBoard!NoGlobalWait

(***************************************************************************)
(* The relay answers a publisher truthfully over retries, crashes, expiry  *)
(* and failing stores: an event acknowledged once is never refused later,  *)
(* and an event that is refused is not in the archive.                     *)
(***************************************************************************)
PublisherAnswered ==
    [][/\ focus = "relay_write" => RelayWrite!AckIsFinal /\ RelayWrite!NackIsTrue]_suiteVars

(***************************************************************************)
(* "We intentionally delete it so subsequent runs don't mix stale per-     *)
(* group files with the new consolidated layout" (main): the consolidated  *)
(* file of a full run that ended holds the groups of the build the         *)
(* metadata describes.                                                     *)
(***************************************************************************)
NoStaleMix ==
    focus = "onion_build" => OnionIndex!NoStaleMix
=============================================================================
