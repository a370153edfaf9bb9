----------------------------- MODULE OnionBuild -----------------------------
(***************************************************************************)
(* The files of the OnionPIR INDEX database: gen_3_onion writes them, may  *)
(* be killed at any step and be run again, and the server loads them.      *)
(*                                                                         *)
(* A run saves one preprocessed file per group in a scratch directory and  *)
(* keeps a file it finds there if OnionPIR can load it.  It then writes    *)
(* the metadata and the bin hashes, appends the group files to the         *)
(* consolidated file and removes the scratch directory.  With              *)
(* --consolidate-only a run only does the last two things, for the group   *)
(* files it finds.  No file is written atomically.                         *)
(*                                                                         *)
(* The builds of a data directory are numbered: build v is what one input  *)
(* (index file and anchor) gives.  A file is ABSENT, TORN (its writer was  *)
(* killed) or holds the number of its build.  OnionPIR loads a group file  *)
(* exactly when its size is the one for bins_per_table, so builds with the *)
(* same number of bins are interchangeable to it.                          *)
(***************************************************************************)
EXTENDS Integers, Sequences

CONSTANTS K,           \* groups
          Builds,      \* inputs the data directory holds, one after another
          BinsOf,      \* bins_per_table of each build
          MaxRuns      \* runs of the builder

OnionBuildAssumption ==
    /\ K \in Nat /\ K > 1                   \* K is 75
    /\ Builds \in Nat \ {0} /\ MaxRuns \in Nat
    /\ BinsOf \in [1..Builds -> Nat \ {0}]

Groups == 0..(K - 1)
ABSENT == 0
TORN == Builds + 1
Files == 0..(Builds + 1)

VARIABLES input,       \* the build the current onion_index.bin gives
          scratch,     \* onion_index_pir/group_N.bin
          meta,        \* onion_index_meta.bin
          hashes,      \* onion_index_bin_hashes.bin
          index_all,   \* onion_index_all.bin, as {} or {[k, body]}
          pc,          \* the builder's next step, "idle" when it does not run
          next,        \* the group its loop is at
          runs,        \* runs so far
          finished,    \* the last thing that happened to the files is that a full run ended
          leftover,    \* history: the run found group files of another input that load
          cut,         \* history: a run ended early since a full run left one build
          served       \* what the server loaded, as {} or {[meta, body]}

vars == <<input, scratch, meta, hashes, index_all, pc, next, runs, finished, leftover, cut, served>>
history == <<finished, leftover, cut>>

Steps == {"idle", "tables", "groups", "meta", "hashes", "verify", "append",
          "remove", "append_only", "remove_only"}

TypeOK ==
    /\ input \in 1..Builds
    /\ scratch \in [Groups -> Files]
    /\ meta \in Files /\ hashes \in Files
    /\ \A f \in index_all : f.k \in 1..K /\ Len(f.body) <= f.k
    /\ pc \in Steps /\ next \in 0..K /\ runs \in 0..MaxRuns
    /\ finished \in BOOLEAN /\ leftover \in BOOLEAN /\ cut \in BOOLEAN
    /\ \A s \in served : s.meta \in 1..Builds /\ Len(s.body) = K

\* The size of a group file; a torn one is shorter than any whole one.
Size(f) == IF f = TORN THEN 0 ELSE BinsOf[f]

\* PirServer::load_db for a table of `bins` bins.
load_db(f, bins) == f # ABSENT /\ Size(f) = bins

----------------------------------------------------------------------------
(* A full run: main. *)

\* The builder is started on a directory that is not being served.
Start ==
    /\ pc = "idle" /\ runs < MaxRuns
    /\ runs' = runs + 1
    /\ pc' = "tables"
    /\ served' = {} /\ finished' = FALSE
    /\ leftover' = \E g \in Groups : scratch[g] # input /\ load_db(scratch[g], BinsOf[input])
    /\ UNCHANGED <<input, scratch, meta, hashes, index_all, next, cut>>

\* Steps 1 to 3; an insertion may fail, and then nothing is written.
BuildTables ==
    /\ pc = "tables"
    /\ next' = 0
    /\ pc' \in {"groups", "idle"}
    /\ UNCHANGED <<input, scratch, meta, hashes, index_all, runs, history, served>>

\* Mutant: any file that exists is kept.
BuildGroupKeeps ==
    /\ pc = "groups" /\ next < K
    /\ scratch' = IF scratch[next] # ABSENT THEN scratch
                  ELSE [scratch EXCEPT ![next] = input]
    /\ next' = next + 1
    /\ pc' = IF next + 1 = K THEN "meta" ELSE "groups"
    /\ UNCHANGED <<input, meta, hashes, index_all, runs, history, served>>

\* Step 4 for one group: a file that loads is kept, else it is built.
BuildGroup ==
    /\ pc = "groups" /\ next < K
    /\ scratch' = IF load_db(scratch[next], BinsOf[input]) THEN scratch
                  ELSE [scratch EXCEPT ![next] = input]
    /\ next' = next + 1
    /\ pc' = IF next + 1 = K THEN "meta" ELSE "groups"
    /\ UNCHANGED <<input, meta, hashes, index_all, runs, history, served>>

\* Step 5.
SaveMeta ==
    /\ pc = "meta" /\ pc' = "hashes"
    /\ meta' = input
    /\ UNCHANGED <<input, scratch, hashes, index_all, next, runs, history, served>>

\* Step 6.
SaveHashes ==
    /\ pc = "hashes" /\ pc' = "verify"
    /\ hashes' = input
    /\ UNCHANGED <<input, scratch, meta, index_all, next, runs, history, served>>

\* Step 7: group 0 must load; a wrong answer to the test query is only
\* printed.  Step 8 then creates the consolidated file.
Verify ==
    /\ pc = "verify"
    /\ IF load_db(scratch[0], BinsOf[input])
       THEN /\ pc' = "append" /\ next' = 0 /\ index_all' = {[k |-> K, body |-> <<>>]}
            /\ UNCHANGED cut
       ELSE pc' = "idle" /\ cut' = TRUE /\ UNCHANGED <<next, index_all>>
    /\ UNCHANGED <<input, scratch, meta, hashes, runs, finished, leftover, served>>

----------------------------------------------------------------------------
(* --consolidate-only. *)

\* The group files numbered from 0 without a gap.
k_found ==
    CHOOSE n \in 0..K : /\ \A g \in 0..(n - 1) : scratch[g] # ABSENT
                        /\ n = K \/ scratch[n] = ABSENT

\* Without group 0 the run panics and changes nothing.
ConsolidateOnly ==
    /\ pc = "idle" /\ runs < MaxRuns
    /\ k_found > 0
    /\ runs' = runs + 1
    /\ index_all' = {[k |-> k_found, body |-> <<>>]}
    /\ next' = 0
    /\ pc' = "append_only"
    /\ served' = {} /\ finished' = FALSE
    /\ UNCHANGED <<input, scratch, meta, hashes, leftover, cut>>

----------------------------------------------------------------------------
(* Consolidating, in both kinds of run. *)

Removing == IF pc = "append" THEN "remove" ELSE "remove_only"

\* One group file; a size other than that of group 0 ends the run.
AppendGroup ==
    /\ pc \in {"append", "append_only"}
    /\ \E f \in index_all :
          IF Size(scratch[next]) = Size(scratch[0])
          THEN /\ index_all' = {[f EXCEPT !.body = Append(@, scratch[next])]}
               /\ next' = next + 1
               /\ pc' = IF next + 1 = f.k THEN Removing ELSE pc
               /\ UNCHANGED cut
          ELSE pc' = "idle" /\ cut' = TRUE /\ UNCHANGED <<index_all, next>>
    /\ UNCHANGED <<input, scratch, meta, hashes, runs, finished, leftover, served>>

\* remove_dir_all deletes the files in any order.
RemoveGroup ==
    /\ pc \in {"remove", "remove_only"}
    /\ \E g \in Groups : scratch[g] # ABSENT /\ scratch' = [scratch EXCEPT ![g] = ABSENT]
    /\ UNCHANGED <<input, meta, hashes, index_all, pc, next, runs, history, served>>

RunEnds ==
    /\ pc \in {"remove", "remove_only"}
    /\ \A g \in Groups : scratch[g] = ABSENT
    /\ pc' = "idle"
    /\ finished' = (pc = "remove")
    /\ cut' = (cut /\ (leftover \/ pc = "remove_only"))
    /\ UNCHANGED <<input, scratch, meta, hashes, index_all, next, runs, leftover, served>>

----------------------------------------------------------------------------
(* The world around a run. *)

\* The builder is killed: the file it writes may be torn.
Crash ==
    /\ pc # "idle" /\ pc' = "idle"
    /\ cut' = TRUE
    /\ \/ UNCHANGED <<scratch, meta, hashes>>
       \/ /\ pc = "groups" /\ ~load_db(scratch[next], BinsOf[input])
          /\ scratch' = [scratch EXCEPT ![next] = TORN]
          /\ UNCHANGED <<meta, hashes>>
       \/ pc = "meta" /\ meta' = TORN /\ UNCHANGED <<scratch, hashes>>
       \/ pc = "hashes" /\ hashes' = TORN /\ UNCHANGED <<scratch, meta>>
    /\ UNCHANGED <<input, index_all, next, runs, finished, leftover, served>>

\* The index file and the anchor of another snapshot or delta.
NewInput ==
    /\ pc = "idle" /\ input < Builds
    /\ input' = input + 1
    /\ finished' = FALSE
    /\ UNCHANGED <<scratch, meta, hashes, index_all, pc, next, runs, leftover, cut, served>>

\* setup_onionpir_workers accepts the files; any other outcome is a panic,
\* or no OnionPIR for the database when the file is missing.
Loads(f) ==
    /\ meta \notin {ABSENT, TORN}
    /\ f.k = K                              \* K of the metadata
    /\ Len(f.body) = f.k                    \* total size
    /\ \A g \in 1..f.k : load_db(f.body[g], BinsOf[meta])

ServerLoads ==
    /\ pc = "idle"
    /\ \E f \in index_all : Loads(f) /\ served' = {[meta |-> meta, body |-> f.body]}
    /\ UNCHANGED <<input, scratch, meta, hashes, index_all, pc, next, runs, history>>

Init ==
    /\ input = 1
    /\ scratch = [g \in Groups |-> ABSENT]
    /\ meta = ABSENT /\ hashes = ABSENT /\ index_all = {}
    /\ pc = "idle" /\ next = 0 /\ runs = 0
    /\ finished = FALSE /\ leftover = FALSE /\ cut = FALSE
    /\ served = {}

Next ==
    \/ Start \/ BuildTables \/ BuildGroup \/ SaveMeta \/ SaveHashes \/ Verify
    \/ ConsolidateOnly \/ AppendGroup \/ RemoveGroup \/ RunEnds
    \/ Crash \/ NewInput \/ ServerLoads

Spec == Init /\ [][Next]_vars

----------------------------------------------------------------------------
(* Properties. *)

Whole(body, build) == \A g \in 1..K : g \in DOMAIN body /\ body[g] = build

\* What the server loads is one build, every group the one its metadata (bins
\* and seeds) describes, unless a run was killed or failed after the last full
\* run that built or replaced every group: then a directory with old groups
\* and new metadata loads when both builds have as many bins.
ServedOneBuild == ~cut => \A s \in served : Whole(s.body, s.meta)

\* From step 5 of a full run on, every group file loads for the run's input,
\* and is the input's own unless a killed run of another input with as many
\* bins left files behind: torn files and those of another shape are replaced.
GroupsOfInput ==
    pc \in {"meta", "hashes", "verify", "append"} =>
        \A g \in Groups : /\ load_db(scratch[g], BinsOf[input])
                          /\ ~leftover => scratch[g] = input

\* Once a full run has ended, however many were killed before it, the server
\* loads the directory, metadata and bin hashes (the leaves of the Merkle
\* trees) are of one build, and so is every group unless the run took files
\* over.  The scratch directory is gone, so the next full run takes none.
FinishedLoads ==
    finished => /\ meta = hashes /\ \A g \in Groups : scratch[g] = ABSENT
                /\ \E f \in index_all : Loads(f) /\ (~leftover => Whole(f.body, hashes))

\* "We intentionally delete it so subsequent runs don't mix stale per-group
\* files with the new consolidated layout" (main): the consolidated file of a
\* full run that ended holds the groups of the build the metadata describes.
NoStaleMix == finished => \A f \in index_all : Whole(f.body, meta)
=============================================================================
