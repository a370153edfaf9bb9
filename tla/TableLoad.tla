----------------------------- MODULE TableLoad -----------------------------
(***************************************************************************)
(* A database directory, the server that loads it and the group a query    *)
(* reads from it.                                                          *)
(*                                                                         *)
(* A directory is filled file by file from a finished build, over what an  *)
(* earlier deployment left there; the copy may be killed and then the file *)
(* it was writing is cut short.  At start-up the server checks the         *)
(* manifest if there is one, maps the two cuckoo tables and the Merkle     *)
(* sibling levels up to the first one that is missing, and reads the roots.*)
(* With --oram-only it holds no table at all and takes geometry and anchor *)
(* from the build evidence.                                                *)
(*                                                                         *)
(* A table file is a sequence of cells: one for the header, those of the   *)
(* chain anchor (none in a legacy file), then the groups one after the     *)
(* other.  A cell says which build and which part of it the byte is from.  *)
(***************************************************************************)
EXTENDS Integers, Sequences

CONSTANTS K,           \* groups of a table (params.k)
          BinsOf,      \* bins_per_table of each build
          AnchorOf,    \* anchor cells of each build: 0 legacy, 1 snapshot, 2 delta
          LevelsOf,    \* Merkle sibling levels of each build
          Listing,     \* builds that come with a manifest
          Typed,       \* those whose manifest has a [direct_oram] section
          MaxKills     \* copies killed

Builds == DOMAIN BinsOf

TableLoadAssumption ==
    /\ K \in Nat \ {0}
    /\ BinsOf \in [Builds -> Nat \ {0}]
    /\ AnchorOf \in [Builds -> 0..2]
    /\ LevelsOf \in [Builds -> 0..2]
    /\ Listing \subseteq Builds /\ Typed \subseteq Listing
    /\ MaxKills \in Nat

Tables == {"batch_pir_cuckoo", "chunk_pir_cuckoo"}
Siblings == {"sib_L0", "sib_L1"}           \* of either tree, read alike
Merkle == {"roots", "root", "tree_tops"}
Names == Tables \union Siblings \union Merkle \union {"MANIFEST"}
NoFile == [build |-> 0, len |-> 0]

VARIABLES dir,         \* the file under each name: its build and its length
          copying,     \* the build being copied into it, 0 when none is
          todo,        \* names still to copy
          tbl,         \* the MappedSubTables of a running server, by name
          root,        \* its manifest_root: {} or the manifest file
          kills

vars == <<dir, copying, todo, tbl, root, kills>>

Down == [f \in {} |-> NoFile]
Up == tbl # Down

----------------------------------------------------------------------------
(* What the builder writes. *)

FilesOf(v) ==
    Tables \union Merkle
    \union (IF LevelsOf[v] > 0 THEN {"sib_L0"} ELSE {})
    \union (IF LevelsOf[v] > 1 THEN {"sib_L1"} ELSE {})
    \union (IF v \in Listing THEN {"MANIFEST"} ELSE {})

anchor_bytes_len(f, v) == IF f \in Tables THEN AnchorOf[v] ELSE 0
BinsIn(f, v) == IF f \in Tables THEN BinsOf[v] ELSE 1
table_byte_size(bins) == 2 * bins          \* a bin is more than one byte
WholeLen(f, v) ==
    CASE f \in Tables \union Siblings ->
             1 + anchor_bytes_len(f, v) + K * table_byte_size(BinsIn(f, v))
      [] f = "roots" -> K
      [] f = "MANIFEST" -> 3
      [] OTHER -> 1

\* A seed: what it is for and the anchor it is derived from, 0 for the
\* built-in legacy constants.
Seed(domain, anchor) == <<domain, anchor>>
NoSeed == <<"none", 0>>

\* The anchor of a build: {} for a legacy one.
AnchorIn(v) == IF AnchorOf[v] = 0 THEN {} ELSE {v}

resolve_seeds(v) ==
    LET a == IF AnchorOf[v] = 0 THEN 0 ELSE v IN
    [index_master |-> Seed("index_master", a), index_tag |-> Seed("index_tag", a),
     chunk_master |-> Seed("chunk_master", a)]

\* The header of table file f of build v; only the index table has a tag seed.
write_header_with_anchor(f, v) ==
    [bins |-> BinsIn(f, v),
     anchor |-> IF f \in Tables THEN AnchorIn(v) ELSE {},
     master |-> CASE f = "batch_pir_cuckoo" -> resolve_seeds(v).index_master
                  [] f = "chunk_pir_cuckoo" -> resolve_seeds(v).chunk_master
                  [] OTHER -> NoSeed,
     tag |-> IF f = "batch_pir_cuckoo" THEN resolve_seeds(v).index_tag ELSE NoSeed]

\* Cell p of a table file, p from 1.
Cell(f, v, p) ==
    LET data == p - 2 - anchor_bytes_len(f, v)
        size == table_byte_size(BinsIn(f, v))
    IN  IF p = 1 THEN <<v, -1, 0>>
        ELSE IF data < 0 THEN <<v, -2, 0>>
        ELSE <<v, data \div size, data % size>>

----------------------------------------------------------------------------
(* The manifest: DbManifest::load_and_verify. *)

Has(f) == dir[f] # NoFile
is_cuckoo_table(f) == f \in Tables

\* The files are listed by name.  Cut inside a line or before [files] it does
\* not parse (length 0 stands for these); cut between two lines it does.
ParseOK(m) == m.len > 0
ListedIn(m) ==
    {f \in FilesOf(m.build) \ {"MANIFEST"} :
        \/ f \in Tables
        \/ f \in Siblings /\ m.len >= 2
        \/ m.len = 3}

\* Mutant: the listed files must be there; none is hashed.
verify_presence(m) == \A f \in ListedIn(m) : Has(f)

\* Every listed file is there, and hashes match but for the cuckoo tables.
verify_dir_contents(m) ==
    \A f \in ListedIn(m) :
        /\ Has(f)
        /\ ~is_cuckoo_table(f) => dir[f] = [build |-> m.build, len |-> WholeLen(f, m.build)]

\* An absent manifest is accepted.
load_and_verify ==
    Has("MANIFEST") => (ParseOK(dir["MANIFEST"]) /\ verify_dir_contents(dir["MANIFEST"]))

----------------------------------------------------------------------------
(* The tables: read_cuckoo_header_with_anchor and MappedSubTable. *)

HeaderWhole(f) == dir[f].len >= 1 + anchor_bytes_len(f, dir[f].build)

\* Where the groups of a file begin: behind the anchor.
header_size(f) == 1 + anchor_bytes_len(f, dir[f].build)

\* The header must be complete, and an anchored file as long as it says.
SubTableLoads(f) ==
    /\ Has(f) /\ HeaderWhole(f)
    /\ anchor_bytes_len(f, dir[f].build) > 0 =>
          dir[f].len = header_size(f) + K * table_byte_size(BinsIn(f, dir[f].build))

MappedSubTable(f) ==
    [head |-> write_header_with_anchor(f, dir[f].build),
     offset |-> header_size(f), len |-> dir[f].len]

metadata_only(bins, master, tag, anchor) ==
    [head |-> [bins |-> bins, anchor |-> {anchor}, master |-> master, tag |-> tag],
     offset |-> 0, len |-> 1]

\* group_bytes(g) lies within the mapping; if not, it panics.
InFile(f, g) == tbl[f].offset + (g + 1) * table_byte_size(tbl[f].head.bins) <= tbl[f].len

\* try_group_bytes as {} or {cells}.
try_group_bytes(f, g) ==
    LET size == table_byte_size(tbl[f].head.bins)
        at == tbl[f].offset + g * size
    IN  IF g >= K \/ ~InFile(f, g) THEN {}
        ELSE {[i \in 1..size |-> Cell(f, dir[f].build, at + i)]}

\* The seeds in a header are those its anchor gives.
verify_anchor_seeds(head, master_domain, tag_domain) ==
    \E a \in head.anchor :
        /\ head.master = Seed(master_domain, a)
        /\ \A d \in tag_domain : head.tag = Seed(d, a)

----------------------------------------------------------------------------
(* The database: MappedDatabase. *)

\* The sibling levels found before the first gap.
LoadedSiblings == IF ~Has("sib_L0") THEN {} ELSE IF ~Has("sib_L1") THEN {"sib_L0"} ELSE Siblings

\* The list of roots has one per group.
RootsFit == Has("roots") => dir["roots"].len = K

has_bucket_merkle == \A f \in Merkle : Has(f)

direct_oram_only(v) ==
    [f \in Tables |->
        IF f = "batch_pir_cuckoo"
        THEN metadata_only(BinsOf[v], Seed("index_master", v), Seed("index_tag", v), v)
        ELSE metadata_only(BinsOf[v], Seed("chunk_master", v), NoSeed, v)]

\* Configured as the kind and height of build c, given the proof of build v.
EvidenceMatches(c, v) == AnchorOf[c] = AnchorOf[v] /\ c = v

----------------------------------------------------------------------------
(* Deployments and restarts. *)

BeginCopy ==
    /\ copying = 0 /\ ~Up
    /\ \E v \in Builds :
          /\ \A f \in Names : dir[f].build <= v
          /\ copying' = v /\ todo' = FilesOf(v)
    /\ UNCHANGED <<dir, tbl, root, kills>>

CopyFile ==
    /\ copying # 0
    /\ \E f \in todo :
          /\ dir' = [dir EXCEPT ![f] = [build |-> copying, len |-> WholeLen(f, copying)]]
          /\ todo' = todo \ {f}
          /\ copying' = IF todo = {f} THEN 0 ELSE copying
    /\ UNCHANGED <<tbl, root, kills>>

\* The copy is killed in the middle of a file.
KillCopy ==
    /\ copying # 0 /\ kills < MaxKills
    /\ \E f \in todo : \E n \in 0..(WholeLen(f, copying) - 1) :
          dir' = [dir EXCEPT ![f] = [build |-> copying, len |-> n]]
    /\ copying' = 0 /\ todo' = {}
    /\ kills' = kills + 1
    /\ UNCHANGED <<tbl, root>>

\* MappedDatabase::load.  A check that fails ends the start-up.
ServerStarts ==
    /\ ~Up /\ copying = 0
    /\ load_and_verify
    /\ \A f \in Tables \union LoadedSiblings : SubTableLoads(f)
    /\ RootsFit
    /\ tbl' = [f \in Tables \union LoadedSiblings |-> MappedSubTable(f)]
    /\ root' = IF Has("MANIFEST") THEN {dir["MANIFEST"]} ELSE {}
    /\ UNCHANGED <<dir, copying, todo, kills>>

\* load_oram_only_database_v1: the proof of build v alone; the manifest it
\* carries must have the [direct_oram] section and the evidence an anchor.
OramOnlyStarts ==
    /\ ~Up /\ copying = 0
    /\ \E v \in Typed, c \in Builds :
          /\ AnchorOf[v] > 0 /\ EvidenceMatches(c, v)
          /\ tbl' = direct_oram_only(v)
          /\ root' = {[build |-> v, len |-> WholeLen("MANIFEST", v)]}
    /\ UNCHANGED <<dir, copying, todo, kills>>

ServerStops ==
    /\ Up
    /\ tbl' = Down /\ root' = {}
    /\ UNCHANGED <<dir, copying, todo, kills>>

OramOnly == Up /\ tbl["batch_pir_cuckoo"].offset = 0

\* A batch scan takes group_bytes of every group; past the end of a file it
\* aborts the process.  An ORAM-only server refuses the scan.
ScanAborts ==
    /\ Up /\ ~OramOnly
    /\ \E f \in DOMAIN tbl, g \in 0..(K - 1) : ~InFile(f, g)
    /\ tbl' = Down /\ root' = {}
    /\ UNCHANGED <<dir, copying, todo, kills>>

Init ==
    /\ dir = [f \in Names |-> NoFile]
    /\ copying = 0 /\ todo = {}
    /\ tbl = Down /\ root = {} /\ kills = 0

Next ==
    \/ BeginCopy \/ CopyFile \/ KillCopy
    \/ ServerStarts \/ OramOnlyStarts \/ ServerStops \/ ScanAborts

Spec == Init /\ [][Next]_vars

----------------------------------------------------------------------------
(* Properties. *)

\* Files are prefixes of what a build wrote, and the mapped tables of a
\* running server are the two cuckoo tables and some sibling levels.
TypeOK ==
    /\ \A f \in Names : dir[f] = NoFile \/ (/\ dir[f].build \in Builds
                                          /\ dir[f].len \in 0..WholeLen(f, dir[f].build))
    /\ copying \in Builds \union {0} /\ todo \subseteq Names
    /\ Up => (Tables \subseteq DOMAIN tbl /\ DOMAIN tbl \subseteq Tables \union Siblings)
    /\ kills \in 0..MaxKills

\* A group that try_group_bytes hands out is exactly that group of the mapped
\* file: not shifted by the anchor, not cut, not running into the next one.
\* A group past the last one, of a cut file, or of an ORAM-only table is NoFile.
GroupsAligned ==
    \A f \in DOMAIN tbl, g \in 0..K : \A cells \in try_group_bytes(f, g) :
        /\ g < K /\ ~OramOnly
        /\ DOMAIN cells = 1..table_byte_size(BinsIn(f, dir[f].build))
        /\ \A i \in DOMAIN cells : cells[i] = <<dir[f].build, g, i - 1>>

\* A server that accepted an anchored table never aborts in a batch scan of
\* it, whatever an interrupted copy left in the directory.
AnchoredScansWhole ==
    (Up /\ ~OramOnly) =>
        \A f \in DOMAIN tbl, g \in 0..(K - 1) : tbl[f].head.anchor # {} => InFile(f, g)

\* With a whole manifest, the Merkle files and listed sibling levels behind a
\* running server are whole and of the build its manifest root stands for.
ManifestBindsMerkle ==
    (Up /\ ~OramOnly) =>
        \A m \in root : m.len = WholeLen("MANIFEST", m.build) =>
            /\ has_bucket_merkle
            /\ \A f \in FilesOf(m.build) \ Tables :
                  dir[f] = [build |-> m.build, len |-> WholeLen(f, m.build)]

\* However it was started, the seeds the server announces for an anchored
\* database pass the check every client makes against the anchor.
SeedsVerify ==
    Up =>
        /\ tbl["batch_pir_cuckoo"].head.anchor # {} =>
              verify_anchor_seeds(tbl["batch_pir_cuckoo"].head, "index_master", {"index_tag"})
        /\ tbl["chunk_pir_cuckoo"].head.anchor # {} =>
              verify_anchor_seeds(tbl["chunk_pir_cuckoo"].head, "chunk_master", {})

=============================================================================
