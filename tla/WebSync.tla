------------------------------- MODULE WebSync -------------------------------
(***************************************************************************)
(* The web client's sync (web/src/sync-controller.ts, sync-merge.ts): the  *)
(* snapshots of a tab are kept in memory, one per script, and one height   *)
(* in localStorage for all of them.  A reload loses the snapshots and      *)
(* keeps the height; a failed step changes neither.                        *)
(***************************************************************************)
EXTENDS SyncPlan

CONSTANTS ChainSet,    \* chains the databases are built from
          NoResult,    \* null
          Batches      \* sets of scripts a user may sync

WebSyncAssumption ==
    /\ \A c \in ChainSet : \A h \in Heights : h \in DOMAIN c
    /\ \A b \in Batches : b # {} /\ b \subseteq Scripts

VARIABLES chain,     \* the chain, up to the highest database
          cache,     \* [script -> snapshot] in memory
          saved,     \* lastSyncedHeight in localStorage; 0 = none
          run,       \* the run in progress, or NoPlan
          out        \* [merged, target] of the last run that finished

vars == <<catalog, chain, cache, saved, run, out>>

QueryResult == [entries : SUBSET Outpoints, whale : BOOLEAN]

Result(entries, whale) == [entries |-> entries, whale |-> whale]

NoOut == [none |-> TRUE]

TypeOK ==
    /\ chain \in ChainSet
    /\ cache \in [Scripts -> QueryResult \cup {NoResult}]
    /\ saved \in {0} \cup Heights
    /\ run # NoPlan => /\ run.batch \in Batches /\ run.step \in 0 .. Len(run.plan.steps)
                       /\ DOMAIN run.merged = run.batch
    /\ out # NoOut => DOMAIN out.merged \in Batches

Init ==
    /\ CatalogInit /\ chain \in ChainSet
    /\ cache = [s \in Scripts |-> NoResult] /\ saved = 0
    /\ run = NoPlan /\ out = NoOut
----------------------------------------------------------------------------
(* Answers [res, raw] of one database for one script.  The adapters give a  *)
(* script that is not in the database an empty result.                      *)

Answer(entries, whale, raw) == [res |-> Result(entries, whale), raw |-> raw]

\* A delta record is no UTXO list and is left to the merge.
decodeResultData(data, isDelta) == IF isDelta THEN {} ELSE parse_utxo_data(data)

queryBatch(d, s) ==
    LET isDelta == d.kind = "delta"
        present == IF isDelta THEN s \in DeltaScripts(chain, d.base, d.height)
                   ELSE s \in FullScripts(chain, d.height)
        whale   == IF isDelta THEN DeltaWhale(chain, d.base, d.height, s)
                   ELSE FullWhale(chain, d.height, s)
        data    == IF isDelta THEN DeltaBytes(chain, d.base, d.height, s)
                   ELSE FullBytes(chain, d.height, s)
    IN IF ~present THEN Answer({}, FALSE, <<>>)
       ELSE IF whale THEN Answer({}, TRUE, <<>>)
       ELSE Answer(decodeResultData(data, isDelta), FALSE, IF isDelta THEN data ELSE <<>>)

decodeDeltaData(data) ==
    LET n == data[1]
    IN [spent    |-> Entries(data, 2, n),
        newUtxos |-> Entries(data, n + 3, data[n + 2])]

applyDeltaData(snap, delta) ==
    [snap EXCEPT !.entries = (@ \ delta.spent) \cup delta.newUtxos]

\* A whale cannot be merged into; a whale delta makes one.
mergeDeltaIntoSnapshot(snap, delta) ==
    IF snap.whale THEN snap
    ELSE IF delta.res.whale THEN Result({}, TRUE)
    ELSE IF delta.raw = <<>> THEN snap
    ELSE applyDeltaData(snap, decodeDeltaData(delta.raw))

\* The same for HarmonyPIR's results, where txids are hex strings.
mergeDeltaIntoHarmonySnapshot(snap, delta) ==
    IF snap.whale THEN snap
    ELSE IF delta.res.whale THEN Result({}, TRUE)
    ELSE IF delta.raw = <<>> THEN snap
    ELSE LET parts == decodeDeltaData(delta.raw)
         IN Result({u \in snap.entries : u \notin parts.spent} \cup parts.newUtxos, FALSE)
----------------------------------------------------------------------------
(* SyncController. *)

hasSnapshotFor(s) == cache[s] # NoResult

\* The page-refresh rule: without a snapshot of every script, start over.
computePlan(batch) ==
    computeSyncPlan(catalog, IF saved > 0 /\ ~\A s \in batch : hasSnapshotFor(s) THEN 0 ELSE saved)

Start(batch) ==
    /\ run = NoPlan /\ catalog # <<>>
    /\ LET p == computePlan(batch)
       IN /\ p # NoPlan
          /\ run' = [plan |-> p, batch |-> batch, step |-> 0,
                     merged |-> [s \in batch |-> cache[s]]]
    /\ UNCHANGED <<catalog, chain, cache, saved, out>>

\* A full database replaces the merged snapshots, a delta is merged into them.
executeStep ==
    /\ run # NoPlan /\ run.step < Len(run.plan.steps)
    /\ LET d == run.plan.steps[run.step + 1]
       IN /\ d \in Range(catalog)
          /\ run' = [run EXCEPT !.step = @ + 1,
                       !.merged = [s \in run.batch |->
                                     IF d.kind = "full" THEN queryBatch(d, s).res
                                     ELSE mergeDeltaIntoSnapshot(@[s], queryBatch(d, s))]]
    /\ UNCHANGED <<catalog, chain, cache, saved, out>>

\* Mutant: the height is committed although a step failed.
StepThrowsSaves ==
    /\ run # NoPlan /\ run.step < Len(run.plan.steps)
    /\ run' = NoPlan /\ saved' = run.plan.target
    /\ UNCHANGED <<catalog, chain, cache, out>>

\* A step throws: nothing is committed.
StepThrows ==
    /\ run # NoPlan /\ run.step < Len(run.plan.steps)
    /\ run' = NoPlan
    /\ UNCHANGED <<catalog, chain, cache, saved, out>>

Commit ==
    /\ run # NoPlan /\ run.step = Len(run.plan.steps)
    /\ cache' = [s \in Scripts |-> IF s \in run.batch THEN run.merged[s] ELSE cache[s]]
    /\ saved' = run.plan.target
    /\ out' = [merged |-> run.merged, target |-> run.plan.target]
    /\ run' = NoPlan
    /\ UNCHANGED <<catalog, chain>>

\* The page is loaded again: memory is gone, localStorage is not.
Reload ==
    /\ cache' = [s \in Scripts |-> NoResult] /\ run' = NoPlan /\ out' = NoOut
    /\ UNCHANGED <<catalog, chain, saved>>

reset ==
    /\ run = NoPlan
    /\ cache' = [s \in Scripts |-> NoResult] /\ saved' = 0
    /\ UNCHANGED <<catalog, chain, run, out>>

Operator ==
    /\ CatalogNext
    /\ UNCHANGED <<chain, cache, saved, run, out>>

Next ==
    \/ Operator
    \/ \E b \in Batches : Start(b)
    \/ executeStep
    \/ StepThrows
    \/ Commit
    \/ Reload
    \/ reset

Spec == Init /\ [][Next]_vars
----------------------------------------------------------------------------
(* Properties. *)

\* "Final merged snapshot per scripthash, after all plan steps" and "Height
\* the client is at after this sync run": what a run hands to the page is what
\* each script held at that height, unless it is a whale.
OutputAtTarget ==
    out # NoOut =>
      \A s \in DOMAIN out.merged :
        out.merged[s].whale \/ out.merged[s].entries = Holds(chain, out.target, s)

\* Every cached snapshot is of the one height in localStorage, so that the
\* next plan may start there: across failed runs, reloads and resets.
CacheAtHeight ==
    \A s \in Scripts :
      hasSnapshotFor(s) =>
        /\ saved > 0
        /\ cache[s].whale \/ cache[s].entries = Holds(chain, saved, s)

\* The merger for HarmonyPIR's results and the one for DPF's and OnionPIR's
\* make the same of every snapshot and delta that can meet.
MergersAgree ==
    run # NoPlan =>
      \A s \in run.batch, d \in Range(deltas(catalog)) :
        run.merged[s] # NoResult =>
          mergeDeltaIntoHarmonySnapshot(run.merged[s], queryBatch(d, s))
            = mergeDeltaIntoSnapshot(run.merged[s], queryBatch(d, s))
=============================================================================
