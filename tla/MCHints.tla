------------------------------ MODULE MCHints -------------------------------
(***************************************************************************)
(* Instances of what happens to HarmonyPIR hints: the pool of precomputed  *)
(* sets a server keeps on disk (this module extends it), its behaviour     *)
(* over power failures, their download, their storage in the browser and   *)
(* the queries that use them up. The parts share no state, so every        *)
(* behaviour explores one of them, its focus.                              *)
(***************************************************************************)
EXTENDS HintPool, TLC

CONSTANTS Foci,       \* the parts a run explores, one in each behaviour
          p1, p2, k1, k2, k3, b1, b2, b3, e1, e2, t1, t2, s1, s2, Nil

VARIABLE focus         \* the part of this behaviour; the others stay put

VARIABLES hint_made, hint_file, hint_tmp, hint_up, hint_binding, hint_load, hint_mem, hint_gen,
          hint_hand, hint_served, hint_servedFor, hint_durable, hint_losses
hintVars == <<hint_made, hint_file, hint_tmp, hint_up, hint_binding, hint_load, hint_mem, hint_gen,
              hint_hand, hint_served, hint_servedFor, hint_durable, hint_losses>>
hintIdle ==
    hint_made = 0 /\ hint_file = 0 /\ hint_tmp = 0 /\ hint_up = 0 /\ hint_binding = 0
    /\ hint_load = 0 /\ hint_mem = 0 /\ hint_gen = 0 /\ hint_hand = 0 /\ hint_served = 0
    /\ hint_servedFor = 0 /\ hint_durable = 0 /\ hint_losses = 0

VARIABLES fetch_conn, inbox, fetch_wire, orphans, pool, pending, sent, fetch_key, useV2, hints,
          loaded, cache, fetch_call, fetches
fetchVars == <<fetch_conn, inbox, fetch_wire, orphans, pool, pending, sent, fetch_key, useV2, hints,
               loaded, cache, fetch_call, fetches>>
fetchIdle ==
    fetch_conn = 0 /\ inbox = 0 /\ fetch_wire = 0 /\ orphans = 0 /\ pool = 0
    /\ pending = 0 /\ sent = 0 /\ fetch_key = 0 /\ useV2 = 0 /\ hints = 0 /\ loaded = 0
    /\ cache = 0 /\ fetch_call = 0 /\ fetches = 0

VARIABLES depth, snap, store_key, main, sibs, sibLoaded, store_up, blobs
storeVars == <<depth, snap, store_key, main, sibs, sibLoaded, store_up, blobs>>
storeIdle ==
    depth = 0 /\ snap = 0 /\ store_key = 0 /\ main = 0 /\ sibs = 0 /\ sibLoaded = 0
    /\ store_up = 0 /\ blobs = 0

VARIABLES truth, harmony_conn, harmony_wire, inflight, used, harmony_call, batches, shape, results,
          failed
harmonyVars == <<truth, harmony_conn, harmony_wire, inflight, used, harmony_call, batches, shape, results,
                 failed>>
harmonyIdle ==
    truth = 0 /\ harmony_conn = 0 /\ harmony_wire = 0 /\ inflight = 0 /\ used = 0
    /\ harmony_call = 0 /\ batches = 0 /\ shape = 0 /\ results = 0 /\ failed = 0

-----------------------------------------------------------------------------
Symmetry == Permutations({k1, k2, k3})

-----------------------------------------------------------------------------
(* The instances. *)

OneDb == INSTANCE HintPool WITH
        Procs <- {p1, p2}, Keys <- {k1, k2, k3}, Bindings <- {b3}, PoolSize <- 2, MaxLosses <- 0,
        made <- hint_made, file <- hint_file, tmp <- hint_tmp, up <- hint_up,
        binding <- hint_binding, load <- hint_load, mem <- hint_mem, gen <- hint_gen,
        hand <- hint_hand, served <- hint_served, servedFor <- hint_servedFor,
        durable <- hint_durable, losses <- hint_losses

Power == INSTANCE HintPool WITH
        Procs <- {p1, p2}, Keys <- {k1, k2}, Bindings <- {b3}, PoolSize <- 2, MaxLosses <- 1,
        made <- hint_made, file <- hint_file, tmp <- hint_tmp, up <- hint_up,
        binding <- hint_binding, load <- hint_load, mem <- hint_mem, gen <- hint_gen,
        hand <- hint_hand, served <- hint_served, servedFor <- hint_servedFor,
        durable <- hint_durable, losses <- hint_losses

FetchPaired == INSTANCE HintFetch WITH
        Dbs <- {0, 1}, OwnKeys <- {k1, k2}, Entries <- {e1, e2}, K <- 1, Paired <- TRUE,
        V2Modes <- BOOLEAN, MaxFetch <- 2, None <- Nil, conn <- fetch_conn,
        wire <- fetch_wire, key <- fetch_key, call <- fetch_call

FetchSingle == INSTANCE HintFetch WITH
        Dbs <- {0}, OwnKeys <- {k1}, Entries <- {e1, e2}, K <- 2, Paired <- FALSE,
        V2Modes <- {TRUE}, MaxFetch <- 3, None <- Nil, conn <- fetch_conn,
        wire <- fetch_wire, key <- fetch_key, call <- fetch_call

FetchStale == INSTANCE HintFetch WITH
        Dbs <- {0, 1}, OwnKeys <- {k1}, Entries <- {e1, e2}, K <- 2, Paired <- FALSE,
        V2Modes <- {FALSE}, MaxFetch <- 2, None <- Nil, conn <- fetch_conn,
        wire <- fetch_wire, key <- fetch_key, call <- fetch_call

StorePaired == INSTANCE HintStore WITH
        Keys <- {k1, k2}, Snaps <- {t1, t2}, KIndex <- 1, KChunk <- 1, MaxLevels <- 1,
        Paired <- TRUE, None <- Nil, key <- store_key, up <- store_up

StoreSingle == INSTANCE HintStore WITH
        Keys <- {k1}, Snaps <- {t1}, KIndex <- 2, KChunk <- 1, MaxLevels <- 2, Paired <- FALSE,
        None <- Nil, key <- store_key, up <- store_up

HarmonyPair == INSTANCE HarmonyQuery WITH
        Scripts <- {s1, s2}, K <- 2, MaxQueries <- 3, MaxBatches <- 2, Paired <- TRUE,
        HasMerkle <- TRUE, MayRefuse <- FALSE, conn <- harmony_conn, wire <- harmony_wire,
        call <- harmony_call

HarmonyOne == INSTANCE HarmonyQuery WITH
        Scripts <- {s1, s2}, K <- 2, MaxQueries <- 3, MaxBatches <- 2, Paired <- FALSE,
        HasMerkle <- TRUE, MayRefuse <- TRUE, conn <- harmony_conn, wire <- harmony_wire,
        call <- harmony_call

HarmonyStale == INSTANCE HarmonyQuery WITH
        Scripts <- {s1}, K <- 3, MaxQueries <- 4, MaxBatches <- 5, Paired <- FALSE,
        HasMerkle <- TRUE, MayRefuse <- FALSE, conn <- harmony_conn, wire <- harmony_wire,
        call <- harmony_call

HarmonyPlain == INSTANCE HarmonyQuery WITH
        Scripts <- {s1, s2}, K <- 2, MaxQueries <- 4, MaxBatches <- 2, Paired <- TRUE,
        HasMerkle <- FALSE, MayRefuse <- TRUE, conn <- harmony_conn, wire <- harmony_wire,
        call <- harmony_call

ASSUME InstanceAssumptions ==
    /\ FetchPaired!HintFetchAssumption
    /\ FetchSingle!HintFetchAssumption
    /\ FetchStale!HintFetchAssumption
    /\ StorePaired!StoreAssumption
    /\ StoreSingle!StoreAssumption
    /\ HarmonyPair!HarmonyQueryAssumption
    /\ HarmonyOne!HarmonyQueryAssumption
    /\ HarmonyStale!HarmonyQueryAssumption
    /\ HarmonyPlain!HarmonyQueryAssumption

-----------------------------------------------------------------------------
suiteVars == <<focus, powerVars, hintVars, fetchVars, storeVars, harmonyVars>>

SuiteInit ==
    /\ focus \in Foci
    /\ PowerInit /\ (focus = "pool" \/ binding = [p \in Procs |-> b1])
    /\ CASE focus = "one_db" -> OneDb!PowerInit
         [] focus = "power" -> Power!PowerInit
         [] OTHER -> hintIdle
    /\ CASE focus = "fetch_paired" -> FetchPaired!Init
         [] focus = "fetch_single" -> FetchSingle!Init
         [] focus = "fetch_stale" -> FetchStale!Init
         [] OTHER -> fetchIdle
    /\ CASE focus = "store_paired" -> StorePaired!Init
         [] focus = "store_single" -> StoreSingle!Init
         [] OTHER -> storeIdle
    /\ CASE focus = "harmony_pair" -> HarmonyPair!Init
         [] focus = "harmony_one" -> HarmonyOne!Init
         [] focus = "harmony_stale" -> HarmonyStale!Init
         [] focus = "harmony_plain" -> HarmonyPlain!Init
         [] OTHER -> harmonyIdle

PoolStep ==
    /\ focus = "pool" /\ PoolNext
    /\ UNCHANGED <<focus, hintVars, fetchVars, storeVars, harmonyVars>>

HintStep ==
    /\ \/ focus = "one_db" /\ OneDb!PoolNext
       \/ focus = "power" /\ Power!PowerNext
    /\ UNCHANGED <<focus, powerVars, fetchVars, storeVars, harmonyVars>>

FetchStep ==
    /\ \/ focus = "fetch_paired" /\ FetchPaired!Next
       \/ focus = "fetch_single" /\ FetchSingle!Next
       \/ focus = "fetch_stale" /\ FetchStale!Next
    /\ UNCHANGED <<focus, powerVars, hintVars, storeVars, harmonyVars>>

StoreStep ==
    /\ \/ focus = "store_paired" /\ StorePaired!Next
       \/ focus = "store_single" /\ StoreSingle!Next
    /\ UNCHANGED <<focus, powerVars, hintVars, fetchVars, harmonyVars>>

HarmonyStep ==
    /\ \/ focus = "harmony_pair" /\ HarmonyPair!Next
       \/ focus = "harmony_one" /\ HarmonyOne!Next
       \/ focus = "harmony_stale" /\ HarmonyStale!Next
       \/ focus = "harmony_plain" /\ HarmonyPlain!Next
    /\ UNCHANGED <<focus, powerVars, hintVars, fetchVars, storeVars>>

SuiteNext ==
    \/ PoolStep
    \/ HintStep
    \/ FetchStep
    \/ StoreStep
    \/ HarmonyStep

SuiteSpec == SuiteInit /\ [][SuiteNext]_suiteVars

-----------------------------------------------------------------------------
(* Properties. *)

(***************************************************************************)
(* Entries on disk. With one database, try_take skips an entry only        *)
(* because a client got it, so none is wasted; and after a power failure   *)
(* no process holds an entry read from a torn file.                        *)
(***************************************************************************)
EntriesKept ==
    /\ focus = "one_db" => OneDb!SkippedWasServed
    /\ focus = "power" => Power!TypeOK /\ Power!TornNeverLoaded

(***************************************************************************)
(* The promise of ServedAtMostOnce ("each pool entry is single-use") for a *)
(* host that may lose power.                                               *)
(***************************************************************************)
PowerServedAtMostOnce ==
    focus = "power" => Power!ServedAtMostOnce

(***************************************************************************)
(* Downloading hints. A database reported as loaded has in every group     *)
(* hints of that database and level under the client's key; the server     *)
(* gives each half of a pool entry out once; and between paired fetches    *)
(* nothing of an earlier one is left on a hint socket.                     *)
(***************************************************************************)
FetchSafe ==
    /\ focus = "fetch_paired" =>
          FetchPaired!TypeOK /\ FetchPaired!HintsMatch
          /\ FetchPaired!HalfGivenOnce /\ FetchPaired!CleanBoundary
    /\ focus = "fetch_single" =>
          FetchSingle!TypeOK /\ FetchSingle!HintsMatch
          /\ FetchSingle!HalfGivenOnce
    /\ focus = "fetch_stale" => FetchStale!TypeOK /\ FetchStale!HintsMatch

(***************************************************************************)
(* Hints kept between queries. Groups reported as loaded are those of the  *)
(* session's key and snapshot; a sibling group, fetched or restored,       *)
(* derives its key from the number the server uses, and no two groups      *)
(* share one; and the early return is taken only when every sibling group  *)
(* has its hints.                                                          *)
(***************************************************************************)
StoreSafe ==
    /\ focus = "store_paired" =>
          StorePaired!TypeOK /\ StorePaired!LoadedForSession
          /\ StorePaired!KeyNumbersAgree /\ StorePaired!ReadySiblingsFilled
    /\ focus = "store_single" => StoreSingle!TypeOK /\ StoreSingle!KeyNumbersAgree

(***************************************************************************)
(* HarmonyPIR batches. A batch whose chunks fit one round sends the rounds *)
(* of one that found nothing; groups are in flight between batches only    *)
(* after a batch has failed; and a verified result says what the database  *)
(* holds, whatever answers earlier batches left on the sockets.            *)
(***************************************************************************)
HarmonySafe ==
    /\ focus = "harmony_pair" =>
          HarmonyPair!TypeOK /\ HarmonyPair!FoundLooksAbsent
          /\ HarmonyPair!IdleBetweenBatches
    /\ focus = "harmony_one" =>
          HarmonyOne!TypeOK /\ HarmonyOne!FoundLooksAbsent
          /\ HarmonyOne!IdleBetweenBatches
    /\ focus = "harmony_plain" => HarmonyPlain!TypeOK /\ HarmonyPlain!FoundLooksAbsent
    /\ focus = "harmony_stale" => HarmonyStale!TypeOK /\ HarmonyStale!VerifiedIsTrue
=============================================================================
