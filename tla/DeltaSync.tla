------------------------------ MODULE DeltaSync ------------------------------
(***************************************************************************)
(* The SDK's sync (PirClient::sync and sync_with_plan of the DPF and the   *)
(* HarmonyPIR client; merge_delta_batch of crates/sdk/core/src/sync.rs):   *)
(* a plan is run database by database, a full answer replaces the results  *)
(* and a delta answer is merged into them.  The caller keeps the results   *)
(* and the height of the last run that finished and plans the next one     *)
(* from there, with a catalogue that may have gone stale.                  *)
(*                                                                         *)
(* Per script an answer's Merkle proof passes or fails.  The record of a   *)
(* failed proof need not be the one committed to.                          *)
(***************************************************************************)
EXTENDS SyncPlan

CONSTANTS ChainSet,      \* chains the databases are built from
          NoResult,      \* Option::None of a result
          MaxFaults,     \* bound: proofs that fail
          DeltaAbsence   \* whether a proof of absence in a delta may fail

DeltaSyncAssumption ==
    /\ \A c \in ChainSet : \A h \in Heights : h \in DOMAIN c
    /\ MaxFaults \in Nat
    /\ DeltaAbsence \in BOOLEAN

VARIABLES chain,    \* the chain, up to the highest database
          seen,     \* catalogue the client fetched
          held,     \* [script -> result] the caller keeps
          height,   \* height the caller believes they are of; 0 = none
          plan,     \* plan being run, or NoPlan
          step,     \* steps of it that are done
          merged,   \* [script -> result] of the run
          faults    \* proofs that may still fail

vars == <<catalog, chain, seen, held, height, plan, step, merged, faults>>

client == <<held, height, plan, step, merged>>

QueryResult == [entries : SUBSET Outpoints, whale : BOOLEAN, ok : BOOLEAN]

Result(entries, whale, ok) == [entries |-> entries, whale |-> whale, ok |-> ok]

Nothing == [s \in Scripts |-> NoResult]

TypeOK ==
    /\ chain \in ChainSet /\ Range(seen) \subseteq Dbs
    /\ held \in [Scripts -> QueryResult \cup {NoResult}]
    /\ merged \in [Scripts -> QueryResult \cup {NoResult}]
    /\ height \in {0} \cup Heights /\ faults \in 0 .. MaxFaults
    /\ plan # NoPlan => step \in 0 .. (Len(plan.steps) - 1)

Init ==
    /\ CatalogInit /\ chain \in ChainSet
    /\ seen = <<>> /\ held = Nothing /\ height = 0
    /\ plan = NoPlan /\ step = 0 /\ merged = Nothing
    /\ faults = MaxFaults
----------------------------------------------------------------------------
(* Answers of one database for one script: [res, raw], the result and the  *)
(* delta record with it (<<>> when there is none).                         *)

Answer(res, raw) == [res |-> res, raw |-> raw]

\* A not-found query whose absence proof failed.
merkle_failed == Result({}, FALSE, FALSE)

True(d, s) ==
    IF d.kind = "full"
    THEN IF s \notin FullScripts(chain, d.height) THEN Answer(NoResult, <<>>)
         ELSE IF FullWhale(chain, d.height, s) THEN Answer(Result({}, TRUE, TRUE), <<>>)
         ELSE Answer(Result(parse_utxo_data(FullBytes(chain, d.height, s)), FALSE, TRUE), <<>>)
    ELSE IF s \notin DeltaScripts(chain, d.base, d.height) THEN Answer(NoResult, <<>>)
         ELSE IF DeltaWhale(chain, d.base, d.height, s) THEN Answer(Result({}, TRUE, TRUE), <<>>)
         ELSE Answer(Result({}, FALSE, TRUE), DeltaBytes(chain, d.base, d.height, s))

\* The answer when the proof fails: nothing found, or a record that may have
\* lost its entries.
Failed(d, s) ==
    LET a == True(d, s)
    IN (IF d.kind = "full" \/ DeltaAbsence THEN {Answer(merkle_failed, <<>>)} ELSE {})
       \cup (IF a.res = NoResult THEN {}
             ELSE {Answer([a.res EXCEPT !.ok = FALSE], a.raw),
                   Answer([a.res EXCEPT !.ok = FALSE, !.entries = {}],
                          IF a.raw = <<>> THEN <<>> ELSE <<0, 0>>)})

execute_step(d, bad) ==
    {f \in [Scripts -> UNION {{True(d, s)} \cup Failed(d, s) : s \in Scripts}] :
        \A s \in Scripts : IF s \in bad THEN f[s] \in Failed(d, s) ELSE f[s] = True(d, s)}
----------------------------------------------------------------------------
(* Merging. *)

delta_whale(ok) == Result({}, TRUE, ok)

\* merge_delta: nothing to apply a delta to in a whale, or no delta to apply.
merge_delta(snap, raw) ==
    IF snap.whale \/ raw = <<>> THEN snap
    ELSE [snap EXCEPT !.entries = apply_delta_data(@, decode_delta_data(raw))]

MergeOne(snap, del) ==
    IF del.res = NoResult THEN snap
    ELSE IF snap = NoResult
    THEN IF del.res.whale THEN delta_whale(del.res.ok)
         ELSE IF del.raw = <<>> THEN NoResult
         ELSE Result(decode_delta_data(del.raw).new, FALSE, del.res.ok)
    ELSE LET ok == snap.ok /\ del.res.ok
         IN IF del.res.whale /\ ~snap.whale THEN delta_whale(ok)
            ELSE [merge_delta(snap, del.raw) EXCEPT !.ok = ok]

merge_delta_batch(snaps, dels) == [s \in Scripts |-> MergeOne(snaps[s], dels[s])]
----------------------------------------------------------------------------
(* Runs. *)

\* sync() has no results to resume from.
require_fresh_sync(last) == last = 0

\* A plan that is not fresh needs the results of the sync it continues.
require_sync_base(p, base) == base = "held" \/ p.fresh

fetch_catalog ==
    /\ seen # catalog /\ seen' = catalog
    /\ UNCHANGED <<catalog, chain, faults>> /\ UNCHANGED client

\* An empty plan returns the results it was given.
BeginRun(p, base) ==
    /\ require_sync_base(p, base)
    /\ LET start == IF base = "held" THEN held ELSE Nothing
       IN IF p.steps = <<>>
          THEN /\ held' = start /\ height' = p.target
               /\ UNCHANGED <<plan, step, merged>>
          ELSE /\ \A i \in DOMAIN p.steps : p.steps[i] \in Range(catalog)
               /\ plan' = p /\ step' = 0 /\ merged' = start
               /\ UNCHANGED <<held, height>>

sync_with_progress(last) ==
    /\ plan = NoPlan /\ require_fresh_sync(last)
    /\ LET cat == IF seen = <<>> THEN catalog ELSE seen
           p   == compute_sync_plan(cat, last)
       IN /\ p # NoPlan /\ BeginRun(p, "none")
          /\ seen' = cat
    /\ UNCHANGED <<catalog, chain, faults>>

\* The caller plans from their height and hands over their results, or not.
sync_with_plan(base) ==
    /\ plan = NoPlan
    /\ LET p == compute_sync_plan(seen, height)
       IN p # NoPlan /\ BeginRun(p, base)
    /\ UNCHANGED <<catalog, chain, seen, faults>>

\* One step: query, check, replace or merge.  The last one hands the results
\* back with the plan's height.
run_sync_plan ==
    /\ plan # NoPlan
    /\ LET d == plan.steps[step + 1]
       IN /\ d \in Range(catalog)
          /\ \E bad \in SUBSET Scripts :
               /\ Cardinality(bad) <= faults
               /\ faults' = faults - Cardinality(bad)
               /\ \E got \in execute_step(d, bad) :
                    LET now == IF d.kind = "full" THEN [s \in Scripts |-> got[s].res]
                               ELSE merge_delta_batch(merged, got)
                    IN IF step + 1 = Len(plan.steps)
                       THEN /\ held' = now /\ height' = plan.target
                            /\ plan' = NoPlan /\ step' = 0 /\ merged' = Nothing
                       ELSE /\ merged' = now /\ step' = step + 1
                            /\ UNCHANGED <<held, height, plan>>
    /\ UNCHANGED <<catalog, chain, seen>>

\* A step fails (the database is gone, the connection broke): the results so
\* far are dropped and the caller keeps what they had.
StepFails ==
    /\ plan # NoPlan
    /\ plan' = NoPlan /\ step' = 0 /\ merged' = Nothing
    /\ UNCHANGED <<catalog, chain, seen, held, height, faults>>

Operator ==
    /\ CatalogNext
    /\ UNCHANGED <<chain, seen, faults>> /\ UNCHANGED client

Next ==
    \/ Operator
    \/ fetch_catalog
    \/ \E last \in {0, height} : sync_with_progress(last)
    \/ \E base \in {"held", "none"} : sync_with_plan(base)
    \/ run_sync_plan
    \/ StepFails

Spec == Init /\ [][Next]_vars
----------------------------------------------------------------------------
(* Properties. *)

\* A result reported as verified is exactly what the script held on the chain
\* at the height the caller was told, after any sequence of syncs, failed
\* steps, retired databases and stale catalogues; a whale says only that.
VerifiedIsTruth ==
    height > 0 =>
      \A s \in Scripts :
        LET r == held[s]
        IN r # NoResult /\ r.ok /\ ~r.whale => r.entries = Holds(chain, height, s)

\* "Not found" is a verified absence (types.rs merkle_failed: "so the failure
\* stays distinct from a verified absence (`None`)"): the script holds nothing.
NoneIsAbsence ==
    height > 0 =>
      \A s \in Scripts : held[s] = NoResult => Holds(chain, height, s) = {}

=============================================================================
