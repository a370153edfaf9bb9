------------------------------ MODULE HintStore ------------------------------
(***************************************************************************)
(* The hint state a HarmonyPIR client keeps between queries: main groups,  *)
(* the Merkle-sibling groups of every level, and the blobs it saves and    *)
(* restores (HarmonyClient::save_hints_bytes and load_hints_bytes, the     *)
(* cache directory, the browser's IndexedDB).  Fetching itself is in       *)
(* HintFetch; here a fetch succeeds or fails after some of its levels.     *)
(*                                                                         *)
(* A group is known by the number its PRP key is derived from, which       *)
(* client, blob loader and server each compute for themselves.             *)
(***************************************************************************)
EXTENDS Integers, FiniteSets

CONSTANTS Keys,         \* master PRP keys
          Snaps,        \* snapshots of the database (height, seeds, shape)
          KIndex,       \* index_k
          KChunk,       \* chunk_k
          MaxLevels,    \* bound: sibling levels of a tree
          Paired,       \* a second hint socket is there
          None

StoreAssumption == KIndex \in Nat /\ KChunk \in Nat /\ MaxLevels \in Nat /\ Paired \in BOOLEAN

VARIABLES depth,        \* depth[s][t]: sibling levels of tree t in snapshot s
          snap,         \* the snapshot the session's catalog shows
          key,          \* master_prp_key
          main,         \* [key, snap] the main groups were loaded for, or None
          sibs,         \* sibling groups: set of [tree, level, g, id, key, snap, filled]
          sibLoaded,    \* sibling_hints_loaded
          up,           \* the hint socket is there
          blobs         \* saved blobs: [fp, sibs, whole]

vars == <<depth, snap, key, main, sibs, sibLoaded, up, blobs>>

Trees == {"index", "chunk"}
Width(t) == IF t = "index" THEN KIndex ELSE KChunk
Depth(t) == depth[snap][t]
SibSlots == {x \in Trees \X (0..MaxLevels - 1) \X (0..KIndex + KChunk) :
               x[2] < Depth(x[1]) /\ x[3] < Width(x[1])}

\* harmony_level_table: the server's key number of group g.
ServerId(t, level, g) ==
    IF t = "index" THEN KIndex + KChunk + level * KIndex + g
                   ELSE KIndex + KChunk + Depth("index") * KIndex + level * KChunk + g

\* ensure_sibling_groups_ready: the client's number of the same group.
ClientId(t, level, g) ==
    KIndex + KChunk + (IF t = "chunk" THEN Depth("index") * KIndex ELSE 0) + level * Width(t) + g

Group(t, level, g, filled) ==
    [tree |-> t, level |-> level, g |-> g, id |-> ClientId(t, level, g), key |-> key,
     snap |-> snap, filled |-> filled]

Init ==
    /\ depth \in [Snaps -> [Trees -> 0..MaxLevels]]
    /\ snap \in Snaps /\ key \in Keys
    /\ main = None /\ sibs = {} /\ sibLoaded = FALSE /\ up = TRUE /\ blobs = {}

invalidate == main' = None /\ sibs' = {} /\ sibLoaded' = FALSE

-----------------------------------------------------------------------------
(* Fetching.                                                               *)

Fingerprint == [key |-> key, snap |-> snap]

\* encode_hints: every group there is, under the fingerprint.
encode_hints(fp, groups) == [fp |-> fp, sibs |-> groups, whole |-> TRUE]

\* persist_hints_to_cache: without a directory, or when the write fails, the
\* caller goes on all the same.
Persist == blobs' \in {blobs, blobs \cup {encode_hints(main', sibs')}}

\* ensure_groups_ready over the wire; V2 brings its own key.
FetchMain ==
    /\ up /\ main = None
    /\ \E k \in Keys : key' = k
    /\ main' = [key |-> key', snap |-> snap]
    /\ UNCHANGED sibs /\ Persist
    /\ UNCHANGED <<depth, snap, sibLoaded, up>>

\* The early return: marked as loaded, and as many groups as the tree tops
\* ask for.
SibReady ==
    /\ sibLoaded
    /\ \A t \in Trees : Cardinality({x \in sibs : x.tree = t}) = Depth(t) * Width(t)

Filled == {Group(x[1], x[2], x[3], TRUE) : x \in SibSlots}

FetchLevels == Filled

ensure_sibling_groups_ready ==
    /\ up /\ main # None /\ ~SibReady
    /\ sibs' = FetchLevels /\ sibLoaded' = TRUE
    /\ UNCHANGED main /\ Persist
    /\ UNCHANGED <<depth, snap, key, up>>

\* One socket, level by level: the groups of a level are made before its
\* hints arrive, and stay when they do not.
Before(x, t, level) == (x[1] = "index" /\ t = "chunk") \/ (x[1] = t /\ x[2] < level)
SiblingFetchFails ==
    /\ up /\ main # None /\ ~SibReady
    /\ IF Paired
         THEN sibs' = {} /\ up' = FALSE
         ELSE \E t \in Trees : \E level \in 0..Depth(t) - 1 :
                /\ sibs' = {Group(x[1], x[2], x[3], Before(x, t, level)) :
                              x \in {y \in SibSlots : Before(y, t, level) \/ (y[1] = t /\ y[2] = level)}}
                /\ UNCHANGED up
    /\ sibLoaded' = FALSE
    /\ UNCHANGED <<depth, snap, key, main, blobs>>

-----------------------------------------------------------------------------
(* Saving and restoring.                                                   *)

\* A blob holds whatever groups there are; nothing is saved before the main
\* groups are loaded.
save_hints_bytes ==
    /\ main # None
    /\ blobs' = blobs \cup {encode_hints(Fingerprint, sibs)}
    /\ UNCHANGED <<depth, snap, key, main, sibs, sibLoaded, up>>

\* The blob says how deep the index tree is by the deepest level it holds.
LevelsOf(b) == IF \E x \in b.sibs : x.tree = "index"
                 THEN 1 + (CHOOSE n \in 0..MaxLevels :
                             /\ \E x \in b.sibs : x.tree = "index" /\ x.level = n
                             /\ \A x \in b.sibs : x.tree = "index" => x.level <= n)
                 ELSE 0

RestoredId(b, x) ==
    KIndex + KChunk + (IF x.tree = "chunk" THEN LevelsOf(b) * KIndex ELSE 0)
                    + x.level * Width(x.tree) + x.g

\* A file cut short, of another format or changed on the disk (one such file).
Damage ==
    /\ \A b \in blobs : b.whole
    /\ \E b \in blobs : blobs' = blobs \cup {[b EXCEPT !.sibs = {}, !.whole = FALSE]}
    /\ UNCHANGED <<depth, snap, key, main, sibs, sibLoaded, up>>

\* decode_hints refuses what it cannot read to the end and a blob of another
\* key, backend or snapshot.
decode_hints(b) == b.whole /\ b.fp = Fingerprint

\* The groups are loaded as they are, under key numbers computed from the blob.
load_hints_bytes ==
    \E b \in blobs :
        /\ decode_hints(b)
        /\ main' = b.fp
        /\ sibs' = {[x EXCEPT !.id = RestoredId(b, x)] : x \in b.sibs}
        /\ sibLoaded' = (b.sibs # {})
        /\ UNCHANGED <<depth, snap, key, up, blobs>>

\* A rejected cache file costs the groups that were there.
restore_hints_from_cache ==
    /\ \E b \in blobs : ~decode_hints(b)
    /\ invalidate /\ UNCHANGED <<depth, snap, key, up, blobs>>

-----------------------------------------------------------------------------
(* Session operations that drop the state.                                 *)

\* Mutant of set_master_key: the groups of the old key stay.
set_master_key_keeps ==
    /\ \E k \in Keys : key' = k
    /\ UNCHANGED <<main, sibs, sibLoaded, depth, snap, up, blobs>>

set_master_key ==
    /\ \E k \in Keys : key' = k
    /\ invalidate /\ UNCHANGED <<depth, snap, up, blobs>>

set_db_id == invalidate /\ UNCHANGED <<depth, snap, key, up, blobs>>

\* disconnect, connect and a new catalog; the snapshot may be another one.
Reconnect ==
    /\ up' = TRUE /\ snap' \in Snaps
    /\ invalidate /\ UNCHANGED <<depth, key, blobs>>

Next ==
    \/ FetchMain \/ ensure_sibling_groups_ready \/ SiblingFetchFails
    \/ save_hints_bytes \/ load_hints_bytes \/ Damage \/ restore_hints_from_cache
    \/ set_master_key \/ set_db_id \/ Reconnect

Spec == Init /\ [][Next]_vars

-----------------------------------------------------------------------------
TypeOK ==
    /\ depth \in [Snaps -> [Trees -> 0..MaxLevels]] /\ snap \in Snaps /\ key \in Keys
    /\ sibLoaded \in BOOLEAN /\ up \in BOOLEAN
    /\ main = None \/ main \in [key : Keys, snap : Snaps]
    /\ sibs \subseteq [tree : Trees, level : 0..MaxLevels - 1, g : 0..KIndex + KChunk, id : Nat,
                       key : Keys, snap : Snaps, filled : BOOLEAN]

\* Main groups reported as loaded are those of the session's key and snapshot.
LoadedForSession == main # None => main = Fingerprint

\* A sibling group, fetched or restored, derives its key from the number the
\* server uses for that level and group, and no two groups share one.
KeyNumbersAgree ==
    /\ \A x \in sibs : x.id = ServerId(x.tree, x.level, x.g)
    /\ \A x, y \in sibs : x.id = y.id => x = y
    /\ \A x \in sibs : x.id \notin 0..KIndex + KChunk - 1

\* When ensure_sibling_groups_ready takes its early return, every sibling
\* group the tree tops ask for is there with hints of this key and snapshot.
ReadySiblingsFilled == SibReady => sibs = Filled
=============================================================================
