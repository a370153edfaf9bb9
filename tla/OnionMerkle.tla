---------------------------- MODULE OnionMerkle ----------------------------
(***************************************************************************)
(* The per-group Merkle trees of OnionPIR: how gen_4_build_merkle_onion      *)
(* builds the trees, the sibling databases, the tree-top file and the       *)
(* super-root, and how the client parses and checks them and walks a bin to *)
(* the root (onion_merkle.rs).                                              *)
(*                                                                         *)
(* Hashing is injective: a hash is the record of what was hashed.  A file   *)
(* is a sequence of its fields.  A behaviour builds the files of one input, *)
(* then checks one bin against them.                                        *)
(***************************************************************************)
EXTENDS Naturals, Sequences, FiniteSets

CONSTANTS Contents,     \* what a bin may hold
          Arities,      \* Merkle arities
          Sizes         \* bins per group

VARIABLES arity, bins,  \* the input: arity, and bins[g]: the bins of group g
          files,        \* what the builder wrote
          blob,         \* the tree-top file as received
          query,        \* the bin asked for, its claimed content and the row received
          verdict       \* what the client concludes

vars == <<arity, bins, files, blob, query, verdict>>

\* One INDEX group, then one DATA group.
Groups == {1, 2}
None == [none |-> TRUE]

sha256(c) == [bin |-> c]
compute_parent_n(ch) == [kids |-> ch]
ZERO_HASH == [zero |-> TRUE]

div_ceil(a, b) == (a + b - 1) \div b

-----------------------------------------------------------------------------
(* The builder.                                                            *)

\* The children of node i of the next level, the missing ones zero.
Padded(level, i, n) ==
    [c \in 1..n |-> IF (i - 1) * n + c <= Len(level) THEN level[(i - 1) * n + c] ELSE ZERO_HASH]

RECURSIVE Grow(_, _)
Grow(levels, n) ==
    LET prev == levels[Len(levels)] IN
    IF Len(prev) <= 1 THEN levels
    ELSE Grow(Append(levels, [i \in 1..div_ceil(Len(prev), n) |->
                                compute_parent_n(Padded(prev, i, n))]), n)

build_group_tree(leaves, n) == Grow(<<leaves>>, n)

Root(levels) == levels[Len(levels)][1]

\* Row r holds the leaves under node r of the first level above them.
build_group_sibling_db(levels, n) ==
    [r \in 1..Len(levels[2]) |->
       [c \in 1..n |-> IF (r - 1) * n + c <= Len(levels[1]) THEN levels[1][(r - 1) * n + c] ELSE ZERO_HASH]]

\* The tree and the sibling database of a group.  One too small for a
\* sibling level of two rows stops the build.
build_tree_kind(content, n) ==
    LET tree == build_group_tree([b \in 1..Len(content) |-> sha256(content[b])], n)
    IN IF Len(tree) < 2 THEN None
       ELSE IF Len(tree[2]) < 2 THEN None
       ELSE [tree |-> tree, sib |-> build_group_sibling_db(tree, n)]

Num(k) == [num |-> k]

RECURSIVE Concat(_)
Concat(ss) == IF ss = <<>> THEN <<>> ELSE Head(ss) \o Concat(Tail(ss))

write_one_tree_top(levels, n) ==
    LET cached == SubSeq(levels, 2, Len(levels)) IN
    <<Num(1), Num(n), Num(Len(cached))>>
      \o Concat([l \in 1..Len(cached) |-> <<Num(Len(cached[l]))>> \o cached[l]])

write_tree_tops(trees, n) == <<Num(Len(trees))>> \o Concat([t \in 1..Len(trees) |-> write_one_tree_top(trees[t], n)])

write_roots(trees) == compute_parent_n([t \in 1..Len(trees) |-> Root(trees[t])])

Build(n, content) ==
    LET kinds == [g \in Groups |-> build_tree_kind(content[g], n)]
        trees == [g \in Groups |-> kinds[g].tree]
    IN IF \E g \in Groups : kinds[g] = None THEN [failed |-> TRUE]
       ELSE [trees |-> trees,
             sib |-> [g \in Groups |-> kinds[g].sib],
             tops |-> write_tree_tops(trees, n),
             super |-> write_roots(trees)]

-----------------------------------------------------------------------------
(* The client.                                                             *)

\* A count at off must be present and followed by as many hashes.
RECURSIVE ParseLevels(_, _, _, _)
ParseLevels(data, off, left, got) ==
    IF left = 0 THEN [off |-> off, levels |-> got]
    ELSE IF off > Len(data) \/ off + data[off].num > Len(data) THEN None
    ELSE ParseLevels(data, off + data[off].num + 1, left - 1,
                     Append(got, SubSeq(data, off + 1, off + data[off].num)))

RECURSIVE ParseTrees(_, _, _, _)
ParseTrees(data, off, left, got) ==
    IF left = 0 THEN [off |-> off, trees |-> got]
    ELSE IF off + 2 > Len(data) THEN None
    ELSE LET lv == ParseLevels(data, off + 3, data[off + 2].num, <<>>) IN
         IF lv = None THEN None
         ELSE ParseTrees(data, lv.off, left - 1,
                         Append(got, [arity |-> data[off + 1].num, levels |-> lv.levels]))

parse_onion_tree_top_cache(data) ==
    IF data = <<>> THEN None
    ELSE LET p == ParseTrees(data, 2, data[1].num, <<>>) IN
         IF p = None THEN None ELSE IF p.off # Len(data) + 1 THEN None ELSE p.trees

check_tree_top_anchor(info, tops) ==
    /\ Len(tops) = Cardinality(Groups)
    /\ \A t \in 1..Len(tops) : tops[t].arity = info.arity /\ tops[t].levels # <<>>
    /\ compute_parent_n([t \in 1..Len(tops) |-> Root(tops[t].levels)]) = info.super

RECURSIVE walk_tree_top_to_root(_, _, _, _)
walk_tree_top_to_root(hash, idx, levels, n) ==
    IF Len(levels) <= 1 THEN hash
    ELSE LET start == (idx \div n) * n
             kids == [c \in 0..(n - 1) |->
                        IF c = idx % n THEN hash
                        ELSE IF start + c < Len(levels[1]) THEN levels[1][start + c + 1] ELSE ZERO_HASH]
         IN walk_tree_top_to_root(compute_parent_n([c \in 1..n |-> kids[c - 1]]),
                                  idx \div n, Tail(levels), n)

\* The bin's hash takes its place among the siblings received.
Fold(hash, idx, row, n) ==
    compute_parent_n([c \in 1..n |-> IF c = (idx % n) + 1 THEN hash ELSE row[c]])

\* Verdict on bin idx (from 0) of group g: "error" when the file is refused.
verify_sub_tree(info, data, g, idx, content, row) ==
    LET tops == parse_onion_tree_top_cache(data) IN
    IF tops = None THEN "error"
    ELSE IF ~check_tree_top_anchor(info, tops) THEN "false"
    ELSE IF walk_tree_top_to_root(Fold(sha256(content), idx, row, info.arity), idx \div info.arity,
                                  tops[g].levels, info.arity) = Root(tops[g].levels)
           THEN "true" ELSE "false"

-----------------------------------------------------------------------------
(* Behaviours.                                                             *)

Init ==
    /\ arity \in Arities
    /\ bins \in UNION {[Groups -> [1..b -> Contents]] : b \in Sizes}
    /\ \A i, j \in DOMAIN bins[2] : bins[2][i] = bins[2][j]
    /\ files = None /\ blob = <<>> /\ query = None /\ verdict = "none"

build ==
    /\ files = None
    /\ files' = Build(arity, bins)
    /\ UNCHANGED <<arity, bins, blob, query, verdict>>

Built == files # None /\ "tops" \in DOMAIN files

\* The tree-top file arrives whole, cut short, followed by something, or of
\* another build whose groups are swapped.
receive ==
    /\ Built /\ blob = <<>>
    /\ blob' \in {files.tops}
          \cup {SubSeq(files.tops, 1, k) : k \in {1, Len(files.tops) \div 2, Len(files.tops) - 1}}
          \cup {files.tops \o <<ZERO_HASH>>}
          \cup {write_tree_tops(<<files.trees[2], files.trees[1]>>, arity)}
    /\ UNCHANGED <<arity, bins, files, query, verdict>>

\* A bin is checked with any content and any row of the sibling databases.
check ==
    /\ blob # <<>> /\ verdict = "none"
    /\ \E g \in Groups, idx \in 0..(Len(bins[1]) - 1), c \in Contents,
          h \in Groups, r \in 1..Len(files.sib[1]) :
         /\ query' = [g |-> g, idx |-> idx, content |-> c, own |-> h = g /\ r = (idx \div arity) + 1]
         /\ verdict' = verify_sub_tree([arity |-> arity, super |-> files.super], blob, g, idx, c, files.sib[h][r])
    /\ UNCHANGED <<arity, bins, files, blob>>

Next == build \/ receive \/ check

Spec == Init /\ [][Next]_vars

-----------------------------------------------------------------------------
(* Properties.                                                             *)

\* A bin that verifies has the content the builder hashed, whatever row and
\* whatever tree-top file was received.
VerifiedIsCommitted == verdict = "true" => query.content = bins[query.g][query.idx + 1]

\* With the builder's file and the bin's own row every bin verifies, for every
\* number of bins and not only powers of the arity.
RightBinsVerify ==
    (verdict # "none" /\ blob = files.tops /\ query.own /\ query.content = bins[query.g][query.idx + 1])
      => verdict = "true"

\* A tree-top file that is cut or continued is refused whole.
CutFileRefused ==
    (verdict # "none" /\ Len(blob) # Len(files.tops)) => verdict = "error"

\* The sibling database has the number of rows the client expects of a
\* database with proved roots (bins divided by the arity, rounded up).
RowsAsExpected ==
    Built => \A g \in Groups : Len(files.sib[g]) = div_ceil(Len(bins[g]), arity)
=============================================================================
