------------------------------ MODULE MCClient ------------------------------
(***************************************************************************)
(* Instances of the SDK and browser clients: the life of a client handle   *)
(* (this module extends it), the query rounds of the DPF and OnionPIR      *)
(* clients, the two Merkle verifications, and the planning and merging of  *)
(* delta syncs. The parts share no state, so every behaviour explores one  *)
(* of them, its focus.                                                     *)
(***************************************************************************)
EXTENDS ClientSession, TLC

CONSTANTS Foci,       \* the parts a run explores, one in each behaviour
          main, delta, s1, s2, a1, a2, b1, NoResult

VARIABLE focus         \* the part of this behaviour; the others stay put

VARIABLES dpf_sver, dpf_conn, dpf_cver, dpf_cat, dpf_roots, dpf_tops, dpf_call, dpf_inbox, dpf_out,
          dpf_shapes, dpf_used
dpfVars == <<dpf_sver, dpf_conn, dpf_cver, dpf_cat, dpf_roots, dpf_tops, dpf_call, dpf_inbox, dpf_out,
             dpf_shapes, dpf_used>>
dpfIdle ==
    dpf_sver = 0 /\ dpf_conn = 0 /\ dpf_cver = 0 /\ dpf_cat = 0 /\ dpf_roots = 0
    /\ dpf_tops = 0 /\ dpf_call = 0 /\ dpf_inbox = 0 /\ dpf_out = 0 /\ dpf_shapes = 0
    /\ dpf_used = 0

VARIABLES onion_sver, onion_conn, onion_cver, onion_cat, params, merkle, onion_roots, onion_tops, reg,
          onion_call, onion_inbox, onion_out, onion_shapes, onion_used
onionVars == <<onion_sver, onion_conn, onion_cver, onion_cat, params, merkle, onion_roots, onion_tops, reg,
               onion_call, onion_inbox, onion_out, onion_shapes, onion_used>>
onionIdle ==
    onion_sver = 0 /\ onion_conn = 0 /\ onion_cver = 0 /\ onion_cat = 0 /\ params = 0
    /\ merkle = 0 /\ onion_roots = 0 /\ onion_tops = 0 /\ reg = 0 /\ onion_call = 0
    /\ onion_inbox = 0 /\ onion_out = 0 /\ onion_shapes = 0 /\ onion_used = 0

VARIABLES merkle_bins, items, phase, merkle_tops, sent, verified, rows, walked, faulty, result
merkleVars == <<merkle_bins, items, phase, merkle_tops, sent, verified, rows, walked, faulty, result>>
merkleIdle ==
    merkle_bins = 0 /\ items = 0 /\ phase = 0 /\ merkle_tops = 0 /\ sent = 0
    /\ verified = 0 /\ rows = 0 /\ walked = 0 /\ faulty = 0 /\ result = 0

VARIABLES arity, omerkle_bins, files, blob, query, verdict
omerkleVars == <<arity, omerkle_bins, files, blob, query, verdict>>
omerkleIdle ==
    arity = 0 /\ omerkle_bins = 0 /\ files = 0 /\ blob = 0 /\ query = 0 /\ verdict = 0

VARIABLES plan_catalog
planVars == <<plan_catalog>>
planIdle ==
    plan_catalog = 0

VARIABLES sdk_catalog, sdk_chain, seen, held, height, plan, step, merged, faults
sdkVars == <<sdk_catalog, sdk_chain, seen, held, height, plan, step, merged, faults>>
sdkIdle ==
    sdk_catalog = 0 /\ sdk_chain = 0 /\ seen = 0 /\ held = 0 /\ height = 0 /\ plan = 0
    /\ step = 0 /\ merged = 0 /\ faults = 0

VARIABLES web_catalog, web_chain, cache, saved, run, web_out
webVars == <<web_catalog, web_chain, cache, saved, run, web_out>>
webIdle ==
    web_catalog = 0 /\ web_chain = 0 /\ cache = 0 /\ saved = 0 /\ run = 0 /\ web_out = 0

-----------------------------------------------------------------------------
(* Three revisions of one height: two that only their Merkle roots tell    *)
(* apart and one of another layout, without trees.  Both servers start on  *)
(* the first.                                                              *)
SessionDbs == [r \in Revs |-> [height |-> 1, layout |-> IF r = 3 THEN 2 ELSE 1, merkle |-> r # 3]]
SessionStart == (\A s \in Server : served[s] = 1) /\ (focus # "session" => backend = "dpf")

(* Databases with every status of a script, in two versions of one height. *)
OneGroup == (1 :> 1) @@ (2 :> 1)
V1 == (main :> <<"found", "absent">>) @@ (delta :> <<"whale", "found">>)
V2 == (main :> <<"whale", "found">>) @@ (delta :> <<"absent", "found">>)
Contents == <<V1, V2>>
SameHeight == <<10, 10>>
EachPlan == {<<main>>, <<delta>>}
AllBatches == {{1}, {2}, {1, 2}}

(* Catalogues: all deltas between five heights beside two full snapshots,  *)
(* for planning; one chain of deltas, for merging.                         *)
Full(h) == [kind |-> "full", base |-> 0, height |-> h]
Delta(a, b) == [kind |-> "delta", base |-> a, height |-> b]
AllDbs ==
    {Full(1), Full(3)} \cup {Delta(a, b) : <<a, b>> \in {x \in (1 .. 4) \X (1 .. 5) : x[1] < x[2]}}
SomeDbs == {Full(1), Full(3), Delta(1, 2), Delta(2, 3)}

OwnerTwo == (a1 :> s1) @@ (a2 :> s1) @@ (b1 :> s2)
WorthTwo == (a1 :> "coin") @@ (a2 :> "coin") @@ (b1 :> "coin")
Block(made, gone) == [created |-> made, spent |-> gone]
SomeChains ==
    { <<Block({a1, a2}, {}), Block({b1}, {a1}), Block({}, {b1})>>,
      <<Block({a1, b1}, {}), Block({a2}, {a1}), Block({}, {b1})>> }

-----------------------------------------------------------------------------
(* The instances. *)

DpfSession == INSTANCE DpfQuery WITH
        Dbs <- {main, delta}, Scripts <- {1, 2}, Group <- OneGroup, Status <- Contents,
        Height <- SameHeight, WithMerkle <- {main, delta}, Plans <- {<<main, delta>>},
        Batches <- {{1}}, MaxVer <- 2, MaxCalls <- 3, MaxFault <- 1, MaxInstall <- 2,
        sver <- dpf_sver, conn <- dpf_conn, cver <- dpf_cver, cat <- dpf_cat,
        roots <- dpf_roots, tops <- dpf_tops, call <- dpf_call, inbox <- dpf_inbox,
        out <- dpf_out, shapes <- dpf_shapes, used <- dpf_used

DpfStale == INSTANCE DpfQuery WITH
        Dbs <- {main, delta}, Scripts <- {1, 2}, Group <- OneGroup, Status <- Contents,
        Height <- SameHeight, WithMerkle <- {main}, Plans <- {}, Batches <- AllBatches,
        MaxVer <- 1, MaxCalls <- 3, MaxFault <- 2, MaxInstall <- 0, sver <- dpf_sver,
        conn <- dpf_conn, cver <- dpf_cver, cat <- dpf_cat, roots <- dpf_roots,
        tops <- dpf_tops, call <- dpf_call, inbox <- dpf_inbox, out <- dpf_out,
        shapes <- dpf_shapes, used <- dpf_used

OnionSession == INSTANCE OnionQuery WITH
        Dbs <- {main, delta}, Scripts <- {1, 2}, Group <- OneGroup, Status <- Contents,
        Height <- SameHeight, WithMerkle <- {main, delta},
        Plans <- {<<main>>, <<main, delta>>}, Batches <- {{1}}, MaxVer <- 2, MaxCalls <- 4,
        MaxAbandon <- 0, MaxEvict <- 0, MaxInstall <- 2, sver <- onion_sver,
        conn <- onion_conn, cver <- onion_cver, cat <- onion_cat, roots <- onion_roots,
        tops <- onion_tops, call <- onion_call, inbox <- onion_inbox, out <- onion_out,
        shapes <- onion_shapes, used <- onion_used

OnionStale == INSTANCE OnionQuery WITH
        Dbs <- {main, delta}, Scripts <- {1, 2}, Group <- OneGroup, Status <- Contents,
        Height <- SameHeight, WithMerkle <- {main, delta}, Plans <- EachPlan,
        Batches <- AllBatches, MaxVer <- 1, MaxCalls <- 3, MaxAbandon <- 2, MaxEvict <- 1,
        MaxInstall <- 0, sver <- onion_sver, conn <- onion_conn, cver <- onion_cver,
        cat <- onion_cat, roots <- onion_roots, tops <- onion_tops, call <- onion_call,
        inbox <- onion_inbox, out <- onion_out, shapes <- onion_shapes, used <- onion_used

OnionPlain == INSTANCE OnionQuery WITH
        Dbs <- {main, delta}, Scripts <- {1, 2}, Group <- OneGroup, Status <- Contents,
        Height <- SameHeight, WithMerkle <- {}, Plans <- EachPlan, Batches <- AllBatches,
        MaxVer <- 1, MaxCalls <- 3, MaxAbandon <- 1, MaxEvict <- 2, MaxInstall <- 0,
        sver <- onion_sver, conn <- onion_conn, cver <- onion_cver, cat <- onion_cat,
        roots <- onion_roots, tops <- onion_tops, call <- onion_call, inbox <- onion_inbox,
        out <- onion_out, shapes <- onion_shapes, used <- onion_used

MerkleBatch == INSTANCE MerkleVerify WITH
        Arity <- 2, Threshold <- 1, K <- 2, BinCounts <- {3}, Places <- {<<1, 0>>, <<1, 2>>},
        ChunkPlaces <- {<<0, 1>>, <<1, 2>>}, MaxItems <- 2, Parallel <- FALSE,
        Rooted <- TRUE, bins <- merkle_bins, tops <- merkle_tops

MerkleSizes == INSTANCE MerkleVerify WITH
        Arity <- 2, Threshold <- 2, K <- 1, BinCounts <- {1, 2, 5, 8, 10},
        Places <- {<<0, b>> : b \in {0, 3, 5, 6, 8, 9}}, ChunkPlaces <- {}, MaxItems <- 1,
        Parallel <- TRUE, Rooted <- FALSE, bins <- merkle_bins, tops <- merkle_tops

Sibling == INSTANCE OnionMerkle WITH
        Contents <- {1, 2}, Arities <- {2, 3}, Sizes <- {2, 3, 5}, bins <- omerkle_bins

Planning == INSTANCE SyncPlan WITH
        Scripts <- {}, Owner <- <<>>, Worth <- <<>>, MAX_UTXOS_PER_SPK <- 1, BLOCK_SIZE <- 1,
        MAX_CHUNKS_PER_SPK <- 1, Dbs <- AllDbs, MaxDbs <- 3, MAX_DELTA_CHAIN_LENGTH <- 2,
        catalog <- plan_catalog

SdkSync == INSTANCE DeltaSync WITH
        Scripts <- {s1, s2}, Owner <- OwnerTwo, Worth <- WorthTwo, MAX_UTXOS_PER_SPK <- 1,
        BLOCK_SIZE <- 3, MAX_CHUNKS_PER_SPK <- 1, Dbs <- SomeDbs, MaxDbs <- 2,
        MAX_DELTA_CHAIN_LENGTH <- 2, ChainSet <- SomeChains, MaxFaults <- 1,
        DeltaAbsence <- FALSE, catalog <- sdk_catalog, chain <- sdk_chain

BrowserSync == INSTANCE WebSync WITH
        Scripts <- {s1, s2}, Owner <- OwnerTwo, Worth <- WorthTwo, MAX_UTXOS_PER_SPK <- 1,
        BLOCK_SIZE <- 3, MAX_CHUNKS_PER_SPK <- 1, Dbs <- SomeDbs, MaxDbs <- 3,
        MAX_DELTA_CHAIN_LENGTH <- 2, ChainSet <- SomeChains, Batches <- {{s1, s2}},
        catalog <- web_catalog, chain <- web_chain, out <- web_out

ASSUME InstanceAssumptions ==
    /\ MerkleBatch!MerkleAssumption
    /\ MerkleSizes!MerkleAssumption
    /\ Planning!UtxoChainAssumption
    /\ Planning!SyncPlanAssumption
    /\ SdkSync!UtxoChainAssumption
    /\ SdkSync!SyncPlanAssumption
    /\ SdkSync!DeltaSyncAssumption
    /\ BrowserSync!UtxoChainAssumption
    /\ BrowserSync!SyncPlanAssumption
    /\ BrowserSync!WebSyncAssumption

-----------------------------------------------------------------------------
suiteVars == <<focus, sessionVars, dpfVars, onionVars, merkleVars, omerkleVars, planVars, sdkVars, webVars>>

SuiteInit ==
    /\ focus \in Foci
    /\ SessionInit /\ SessionStart
    /\ CASE focus = "dpf_session" -> DpfSession!Init
         [] focus = "dpf_stale" -> DpfStale!Init
         [] OTHER -> dpfIdle
    /\ CASE focus = "onion_session" -> OnionSession!Init
         [] focus = "onion_stale" -> OnionStale!Init
         [] focus = "onion_plain" -> OnionPlain!Init
         [] OTHER -> onionIdle
    /\ CASE focus = "merkle_batch" -> MerkleBatch!Init
         [] focus = "merkle_sizes" -> MerkleSizes!Init
         [] OTHER -> merkleIdle
    /\ IF focus = "onion_merkle" THEN Sibling!Init ELSE omerkleIdle
    /\ IF focus = "planning" THEN Planning!CatalogInit ELSE planIdle
    /\ IF focus = "sdk_sync" THEN SdkSync!Init ELSE sdkIdle
    /\ IF focus = "web_sync" THEN BrowserSync!Init ELSE webIdle

SessionStep ==
    /\ focus = "session" /\ SessionNext
    /\ UNCHANGED <<focus, dpfVars, onionVars, merkleVars, omerkleVars, planVars, sdkVars, webVars>>

DpfStep ==
    /\ \/ focus = "dpf_session" /\ DpfSession!Next
       \/ focus = "dpf_stale" /\ DpfStale!Next
    /\ UNCHANGED <<focus, sessionVars, onionVars, merkleVars, omerkleVars, planVars, sdkVars, webVars>>

OnionStep ==
    /\ \/ focus = "onion_session" /\ OnionSession!Next
       \/ focus = "onion_stale" /\ OnionStale!Next
       \/ focus = "onion_plain" /\ OnionPlain!Next
    /\ UNCHANGED <<focus, sessionVars, dpfVars, merkleVars, omerkleVars, planVars, sdkVars, webVars>>

MerkleStep ==
    /\ \/ focus = "merkle_batch" /\ MerkleBatch!Next
       \/ focus = "merkle_sizes" /\ MerkleSizes!Next
    /\ UNCHANGED <<focus, sessionVars, dpfVars, onionVars, omerkleVars, planVars, sdkVars, webVars>>

OmerkleStep ==
    /\ focus = "onion_merkle" /\ Sibling!Next
    /\ UNCHANGED <<focus, sessionVars, dpfVars, onionVars, merkleVars, planVars, sdkVars, webVars>>

PlanStep ==
    /\ focus = "planning" /\ Planning!CatalogNext
    /\ UNCHANGED <<focus, sessionVars, dpfVars, onionVars, merkleVars, omerkleVars, sdkVars, webVars>>

SdkStep ==
    /\ focus = "sdk_sync" /\ SdkSync!Next
    /\ UNCHANGED <<focus, sessionVars, dpfVars, onionVars, merkleVars, omerkleVars, planVars, webVars>>

WebStep ==
    /\ focus = "web_sync" /\ BrowserSync!Next
    /\ UNCHANGED <<focus, sessionVars, dpfVars, onionVars, merkleVars, omerkleVars, planVars, sdkVars>>

SuiteNext ==
    \/ SessionStep
    \/ DpfStep
    \/ OnionStep
    \/ MerkleStep
    \/ OmerkleStep
    \/ PlanStep
    \/ SdkStep
    \/ WebStep

SuiteSpec == SuiteInit /\ [][SuiteNext]_suiteVars

-----------------------------------------------------------------------------
(* Properties. *)

(***************************************************************************)
(* The DPF and the OnionPIR client over failing connections and restarted  *)
(* servers. A call asks about scripts only when every database of its plan *)
(* that has proved roots serves the proved version; what a client holds    *)
(* came over its present connections; a verified result, absence included, *)
(* is what one version of the database holds, and the proved one where     *)
(* there are roots; and the rounds of a batch do not depend on what its    *)
(* scripts hold.                                                           *)
(***************************************************************************)
QuerySafe ==
    /\ focus = "dpf_session" =>
          DpfSession!TypeOK /\ DpfSession!NoQueryUnderWrongRoots
          /\ DpfSession!SessionBound /\ DpfSession!VerifiedIsTrue
          /\ DpfSession!VerifiedUnderRoots
    /\ focus = "dpf_stale" => DpfStale!VerifiedIsTrue /\ DpfStale!FoundLooksAbsent
    /\ focus = "onion_session" => OnionSession!NoQueryUnderWrongRoots /\ OnionSession!SessionBound
    /\ focus = "onion_stale" =>
          OnionStale!TypeOK /\ OnionStale!VerifiedIsTrue
          /\ OnionStale!FoundLooksAbsent
    /\ focus = "onion_plain" => OnionPlain!FoundLooksAbsent

(***************************************************************************)
(* The Merkle walks. What verifies has the committed content, whatever     *)
(* rows or tree-top file were received; right bins verify, for every       *)
(* number of bins; the client's count of rows is that of the builder's     *)
(* files; CHUNK passes do not depend on what was found; the browser's      *)
(* verifier gives the native verdict; and a tree-top file that is cut or   *)
(* continued is refused whole.                                             *)
(***************************************************************************)
MerkleSafe ==
    /\ focus = "merkle_batch" =>
          MerkleBatch!TypeOK /\ MerkleBatch!VerifiedIsCommitted
          /\ MerkleBatch!RightBinsVerify /\ MerkleBatch!LayoutMatches
          /\ MerkleBatch!PassesHideFound /\ MerkleBatch!BrowserAgrees
    /\ focus = "merkle_sizes" =>
          MerkleSizes!VerifiedIsCommitted /\ MerkleSizes!RightBinsVerify
          /\ MerkleSizes!LayoutMatches /\ MerkleSizes!BrowserAgrees
    /\ focus = "onion_merkle" =>
          Sibling!VerifiedIsCommitted /\ Sibling!RightBinsVerify
          /\ Sibling!CutFileRefused /\ Sibling!RowsAsExpected

(***************************************************************************)
(* Syncing over deltas. For every catalogue and height the SDK plans a     *)
(* chain of deltas within the limit that is as short as any, else the      *)
(* highest full database and the shortest chain from it, and fails only    *)
(* without a full database; the browser makes the same plan although it    *)
(* cuts its search elsewhere. A verified result of the SDK is what the     *)
(* script held at the height the caller was told, and "not found" means it *)
(* held nothing; what a run of the web client hands out is what each       *)
(* script held at its height, every cached snapshot is of the one stored   *)
(* height, and its two mergers agree.                                      *)
(***************************************************************************)
SyncSafe ==
    /\ focus = "planning" => Planning!PlanIsBest /\ Planning!BrowserPlansAlike
    /\ focus = "sdk_sync" => SdkSync!TypeOK /\ SdkSync!VerifiedIsTruth /\ SdkSync!NoneIsAbsence
    /\ focus = "web_sync" =>
          BrowserSync!TypeOK /\ BrowserSync!OutputAtTarget
          /\ BrowserSync!CacheAtHeight /\ BrowserSync!MergersAgree
=============================================================================
