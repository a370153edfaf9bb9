---------------------------- MODULE MerkleVerify ----------------------------
(***************************************************************************)
(* The per-bucket Merkle commitments: how db-builder lays a table's trees  *)
(* out in sibling tables and tree tops, and how a client walks from a bin  *)
(* it retrieved to the root of the bin's group (merkle_verify.rs).         *)
(*                                                                         *)
(* A hash is the term it was computed from, so two hashes are equal only   *)
(* when their inputs are.  The server may be at one of two versions of the *)
(* database while the client's tree tops are bound to version 1, and one   *)
(* sibling row of an answer may be missing, cut or garbled.                *)
(***************************************************************************)
EXTENDS Integers, Sequences, FiniteSets

CONSTANTS Arity,        \* BUCKET_MERKLE_ARITY
          Threshold,    \* TREE_TOP_THRESHOLD
          K,            \* groups of a table
          BinCounts,    \* bins per group, for each table
          Places,       \* places an item's INDEX bin may be in: <<group, bin>>
          ChunkPlaces,  \* places a CHUNK bin may be in
          MaxItems,     \* bound: items of a batch
          Parallel,     \* the two tables are walked on sockets of their own
          Rooted        \* verified database roots are installed

MerkleAssumption ==
    /\ Arity \in Nat \ {0, 1} /\ Threshold \in Nat \ {0} /\ K \in Nat \ {0}
    /\ MaxItems \in Nat /\ Rooted \in BOOLEAN /\ Parallel \in BOOLEAN

VARIABLES bins,         \* bins[t]: bins per group of table t
          items,        \* the BucketMerkleItems to verify
          phase,        \* "tops", "walk", "done" or "error"
          tops,         \* the parsed tree tops, INDEX groups then CHUNK groups
          sent,         \* sent[t]: the level plans sent for table t
          verified,     \* verified[t]: what verify_sibling_levels returned
          rows,         \* rows[t]: rows[t][level][pass][group] as received
          walked,       \* tables whose walk is over
          faulty,       \* tables whose rows were not those of version 1
          result        \* the combined verdicts

vars == <<bins, items, phase, tops, sent, verified, rows, walked, faulty, result>>

Tables == {"index", "chunk"}
Groups == 0..K - 1
Versions == {1, 2}
Zero == <<"zero">>
Nothing == <<>>

DivCeil(a, b) == (a + b - 1) \div b
MaxOf(S, d) == IF S = {} THEN d ELSE CHOOSE x \in S : \A y \in S : y <= x

-----------------------------------------------------------------------------
(* Hashes and trees, as the builder makes them.                            *)

compute_bin_leaf_hash(b, content) == <<"leaf", b, content>>
compute_parent_n(children) == <<"node", children>>

\* Version 2 of the database changed the last bin of the last CHUNK group.
Content(t, g, b, v) ==
    <<t, g, b, IF t = "chunk" /\ g = K - 1 /\ b = bins[t] - 1 THEN v ELSE 1>>
Garbled(t, g, b) == <<t, g, b, 0>>

\* One parent for each Arity nodes, the last one padded with zero hashes.
Padded(nodes, i) == [c \in 1..Arity |->
    IF i * Arity + c <= Len(nodes) THEN nodes[i * Arity + c] ELSE Zero]
Parents(nodes) == [i \in 1..DivCeil(Len(nodes), Arity) |-> compute_parent_n(Padded(nodes, i - 1))]

\* The levels of a tree, from the leaves (level 1 here) to the root.
build_group_tree(t, g, v) ==
    LET leaves == [i \in 1..bins[t] |-> compute_bin_leaf_hash(i - 1, Content(t, g, i - 1, v))]
        nodes[n \in 0..bins[t]] == IF n = 0 THEN leaves ELSE Parents(nodes[n - 1])
        depth == CHOOSE d \in 0..bins[t] : Len(nodes[d]) = 1 /\ \A e \in 0..d - 1 : Len(nodes[e]) > 1
    IN [n \in 1..depth + 1 |-> nodes[n - 1]]

\* Rows of each sibling table: a level is served by PIR while its parents are
\* more than the threshold.
compute_sibling_levels(t) ==
    LET count[n \in 0..bins[t]] == IF n = 0 THEN bins[t] ELSE DivCeil(count[n - 1], Arity)
        number == CHOOSE n \in 0..bins[t] :
                     count[n + 1] <= Threshold /\ \A m \in 0..n - 1 : count[m + 1] > Threshold
    IN [n \in 1..number |-> count[n]]

\* Row r of the sibling table of a level (from 0): the children of parent r.
write_flat_sibling_table(t, g, v, level, r) == Padded(build_group_tree(t, g, v)[level + 1], r)

\* The top of a tree: every level from the first that PIR does not serve.
write_one_tree_top(t, g, v) ==
    LET tree == build_group_tree(t, g, v)
        from == Len(compute_sibling_levels(t))
    IN [from |-> from, levels |-> SubSeq(tree, from + 1, Len(tree))]

write_tree_tops(v) ==
    [i \in 1..2 * K |-> IF i <= K THEN write_one_tree_top("index", i - 1, v)
                                  ELSE write_one_tree_top("chunk", i - K - 1, v)]

Root(top) == top.levels[Len(top.levels)][1]
SuperRoot(ts) == <<"super", [i \in 1..Len(ts) |-> Root(ts[i])]>>

\* The files of a database: a sibling table for each level of either table
\* that PIR serves, the tree tops and the super root.
build_bucket_merkle(v) ==
    [sib  |-> [t \in Tables |-> [n \in 1..Len(compute_sibling_levels(t)) |->
                 [g \in Groups |-> [r \in 0..compute_sibling_levels(t)[n] - 1 |->
                    write_flat_sibling_table(t, g, v, n - 1, r)]]]],
     tops |-> write_tree_tops(v),
     root |-> SuperRoot(write_tree_tops(v))]

-----------------------------------------------------------------------------
(* The tree tops.                                                          *)

\* What may be retrieved from a bin: its content in either version, or noise.
Contents(t, p) == {Content(t, p[1], p[2], v) : v \in Versions} \cup {Garbled(t, p[1], p[2])}
Bins(t, places) == UNION {{[g |-> p[1], bin |-> p[2], content |-> c] : c \in Contents(t, p)} :
                            p \in {q \in places : q[2] < bins[t]}}
ItemSet == {[index |-> i, chunks |-> c] :
              i \in Bins("index", Places),
              c \in {<<>>} \cup {<<x>> : x \in Bins("chunk", ChunkPlaces)}}

Init ==
    /\ bins \in [Tables -> BinCounts]
    /\ items \in UNION {[1..n -> ItemSet] : n \in 1..MaxItems}
    /\ phase = "tops" /\ tops = Nothing
    /\ sent = [t \in Tables |-> Nothing] /\ verified = [t \in Tables |-> Nothing]
    /\ rows = [t \in Tables |-> Nothing] /\ walked = {} /\ faulty = {} /\ result = Nothing

verify_tree_tops_super_root(ts) ==
    Len(ts) = 2 * K /\ SuperRoot(ts) = build_bucket_merkle(1).root

Fail ==
    /\ phase' = "error"
    /\ UNCHANGED <<bins, items, tops, sent, verified, rows, walked, faulty, result>>

\* A blob declares its number of trees; neither fewer nor more may follow.
parse_tree_tops(declared, ts) == declared = Len(ts)

\* The reply may come from either version, lack a tree, or be an error; a
\* session with installed roots binds it, and every session needs one tree
\* for each group.
fetch_tree_tops ==
    /\ phase = "tops"
    /\ \E v \in Versions, n, declared \in {2 * K - 1, 2 * K} :
         LET ts == SubSeq(build_bucket_merkle(v).tops, 1, n) IN
         IF parse_tree_tops(declared, ts) /\ (Rooted => verify_tree_tops_super_root(ts)) /\ Len(ts) >= 2 * K
           THEN /\ tops' = ts /\ phase' = "walk"
                /\ UNCHANGED <<bins, items, sent, verified, rows, walked, faulty, result>>
           ELSE Fail

Refused == phase = "tops" /\ Fail

-----------------------------------------------------------------------------
(* The sibling walk of one table.                                          *)

Top(t, g) == tops[IF t = "index" THEN g + 1 ELSE K + g + 1]

\* The chunk bins of all items, in order, with the item each belongs to.
ChunkOwners == {i \in 1..Len(items) : items[i].chunks # <<>>}
Owner(j) == CHOOSE i \in ChunkOwners : Cardinality({h \in ChunkOwners : h <= i}) = j
SubItems(t) ==
    IF t = "index" THEN [i \in 1..Len(items) |-> items[i].index]
                   ELSE [j \in 1..Cardinality(ChunkOwners) |-> items[Owner(j)].chunks[1]]

max_sib_levels(t) == MaxOf({Top(t, g).from : g \in Groups}, 0)

\* Mutant of level_groups_count: an incomplete last row is not counted.
GroupsCountFloor(t) == [n \in 1..max_sib_levels(t) |-> bins[t] \div Arity^n]

level_groups_count(t) ==
    LET count[n \in 0..max_sib_levels(t)] ==
          IF n = 0 THEN bins[t] ELSE DivCeil(count[n - 1], Arity)
    IN [n \in 1..max_sib_levels(t) |-> count[n]]

\* Items of the same group go in different passes, in order.
Pass(its, i) == Cardinality({h \in 1..i : its[h].g = its[i].g})

Passes(its) == MaxOf({Pass(its, i) : i \in 1..Len(its)}, 1)

\* The node an item's path visits at a level (from 0), and its parent's row.
NodeAt(bin, level) == bin \div Arity^level
ChildPos(node) == (node % Arity) + 1
Target(its, level, pass, g) ==
    LET here == {i \in 1..Len(its) : its[i].g = g /\ Pass(its, i) = pass}
    IN IF here = {} THEN -1 ELSE NodeAt(its[CHOOSE i \in here : TRUE].bin, level) \div Arity

level_plans(t) ==
    LET its == SubItems(t)
    IN [n \in 1..max_sib_levels(t) |->
          [rows |-> level_groups_count(t)[n],
           passes |-> [p \in 1..Passes(its) |-> [g \in Groups |-> Target(its, n - 1, p, g)]]]]

\* A request names a row for every group; a group without an item asks for a
\* random one (row 0 stands for it) and its answer is dropped.
prepare_round(pass) == [g \in Groups |-> IF pass[g] = -1 THEN 0 ELSE pass[g]]
ServeSiblings(t, v, level, req) == [g \in Groups |-> build_bucket_merkle(v).sib[t][level + 1][g][req[g]]]
finish_round(pass, ans) == [g \in Groups |-> IF pass[g] = -1 THEN Nothing ELSE ans[g]]

\* Every pass of every level, as answered by a server at version v.
query_levels(t, plan, v) ==
    [n \in 1..Len(plan) |-> [p \in 1..Len(plan[n].passes) |->
        LET pass == plan[n].passes[p]
        IN finish_round(pass, ServeSiblings(t, v, n - 1, prepare_round(pass)))]]

\* One row is lost, cut short, or made of the wrong hashes (bound: in one table).
Asked(plan) == {x \in (1..Len(plan)) \X (1..MaxItems) \X Groups :
                  x[2] <= Len(plan[x[1]].passes) /\ plan[x[1]].passes[x[2]][x[3]] # -1}
Damage(ans, plan) ==
    {[ans EXCEPT ![x[1]][x[2]][x[3]] = d] :
        x \in Asked(plan), d \in {Nothing, <<Zero>>, [c \in 1..Arity |-> Zero]}}

WellFormed(row) == Len(row) = Arity

\* The hash of an item after the sibling levels.  A bad row gives zero and
\* marks the item, but the walk goes on.
Climb(t, its, i, ans) ==
    LET plan == sent'[t]
        hash[n \in 0..Len(plan)] ==
          IF n = 0 THEN compute_bin_leaf_hash(its[i].bin, its[i].content)
          ELSE LET row == ans[n][Pass(its, i)][its[i].g]
               IN IF ~WellFormed(row) THEN Zero
                  ELSE compute_parent_n([row EXCEPT ![ChildPos(NodeAt(its[i].bin, n - 1))] = hash[n - 1]])
    IN hash[Len(plan)]

Malformed(t, its, i, ans) == \E n \in 1..Len(ans) : ~WellFormed(ans[n][Pass(its, i)][its[i].g])

\* From the first cached level to the last but one.
WalkTop(top, idx, start) ==
    LET hash[c \in 0..Len(top.levels) - 1] ==
          IF c = 0 THEN start
          ELSE LET at == idx \div Arity^(c - 1)
                   nodes == top.levels[c]
               IN compute_parent_n([Padded(nodes, at \div Arity) EXCEPT ![ChildPos(at)] = hash[c - 1]])
    IN hash[Len(top.levels) - 1]

Verdict(t, its, i, ans) ==
    LET top == Top(t, its[i].g)
    IN ~Malformed(t, its, i, ans)
       /\ WalkTop(top, NodeAt(its[i].bin, Len(ans)), Climb(t, its, i, ans)) = Root(top)

Turn(t) == Parallel \/ t = "index" \/ "index" \in walked

\* All levels and passes are sent in one wave, answered in order, and walked.
verify_sibling_levels(t) ==
    /\ phase = "walk" /\ t \notin walked /\ Turn(t)
    /\ walked' = walked \cup {t}
    /\ sent' = [sent EXCEPT ![t] = level_plans(t)]
    /\ \E v \in Versions :
         LET plan == level_plans(t)
             its == SubItems(t)
             good == query_levels(t, plan, v)
         IN \E ans \in {good} \cup (IF faulty # {} THEN {} ELSE Damage(good, plan)) :
              /\ rows' = [rows EXCEPT ![t] = ans]
              /\ faulty' = IF ans = query_levels(t, plan, 1) THEN faulty ELSE faulty \cup {t}
              /\ verified' = [verified EXCEPT ![t] = [i \in 1..Len(its) |-> Verdict(t, its, i, ans)]]
    /\ UNCHANGED <<bins, items, phase, tops, result>>

\* One server answers a sibling batch with an error, or not at all.
SiblingError(t) == phase = "walk" /\ t \notin walked /\ Turn(t) /\ Fail

Combine(i) ==
    /\ verified["index"][i]
    /\ \A j \in 1..Len(verified["chunk"]) : Owner(j) = i => verified["chunk"][j]

Finish ==
    /\ phase = "walk" /\ walked = Tables
    /\ phase' = "done" /\ result' = [i \in 1..Len(items) |-> Combine(i)]
    /\ UNCHANGED <<bins, items, tops, sent, verified, rows, walked, faulty>>

Next ==
    \/ fetch_tree_tops \/ Refused \/ Finish
    \/ \E t \in Tables : verify_sibling_levels(t) \/ SiblingError(t)

Spec == Init /\ [][Next]_vars

-----------------------------------------------------------------------------
(* The browser's verifier: rows fetched by JavaScript, in one flat buffer. *)

verify_bucket_merkle_item(t, it, flat) ==
    LET top == Top(t, it.g)
        hash[n \in 0..top.from] ==
          IF n = 0 THEN compute_bin_leaf_hash(it.bin, it.content)
          ELSE compute_parent_n([c \in 1..Arity |->
                 IF c = ChildPos(NodeAt(it.bin, n - 1)) THEN hash[n - 1] ELSE flat[(n - 1) * Arity + c]])
    IN /\ Len(flat) >= top.from * Arity
       /\ WalkTop(top, NodeAt(it.bin, top.from), hash[top.from]) = Root(top)

\* The rows fetched for an item, one after the other.
Flat(t, its, i) ==
    LET upTo[n \in 0..Len(rows[t])] ==
          IF n = 0 THEN <<>> ELSE upTo[n - 1] \o rows[t][n][Pass(its, i)][its[i].g]
    IN upTo[Len(rows[t])]

-----------------------------------------------------------------------------
(* Properties.                                                             *)

TypeOK ==
    /\ phase \in {"tops", "walk", "done", "error"} /\ walked \subseteq Tables
    /\ faulty \subseteq walked
    /\ \A t \in walked : /\ Len(sent[t]) = max_sib_levels(t) /\ Len(rows[t]) = Len(sent[t])
                         /\ verified[t] \in [1..Len(SubItems(t)) -> BOOLEAN]

Binned(i) == {<<"index", items[i].index>>} \cup {<<"chunk", items[i].chunks[j]>> : j \in 1..Len(items[i].chunks)}
Holds(b, v) == b[2].content = Content(b[1], b[2].g, b[2].bin, v)

\* An item that verifies has in every bin the content of the version its tree
\* tops commit to, whatever rows the servers sent; with installed roots that
\* is the proved version (verify_sibling_levels, verify_tree_tops_super_root).
VerifiedIsCommitted ==
    phase = "done" =>
      \E v \in (IF Rooted THEN {1} ELSE Versions) :
        \A i \in 1..Len(items) : result[i] => \A b \in Binned(i) : Holds(b, v)

\* An item whose bins are right verifies when the sibling rows are those of
\* the committed tree, for every size of tree: the builder's rows and tops
\* are the ones the walk needs.
RightBinsVerify ==
    (phase = "done" /\ faulty = {} /\ tops = write_tree_tops(1)) =>
      \A i \in 1..Len(items) : (\A b \in Binned(i) : Holds(b, 1)) => result[i]

\* The client's count of rows at each level is that of the builder's files,
\* and every row it asks for is in the table (level_groups_count "MUST match
\* the server's table layout exactly").
LayoutMatches ==
    \A t \in walked :
      /\ [n \in 1..Len(sent[t]) |-> sent[t][n].rows] = compute_sibling_levels(t)
      /\ \A n \in 1..Len(sent[t]) : \A p \in 1..Len(sent[t][n].passes) :
           \A g \in Groups : sent[t][n].passes[p][g] < sent[t][n].rows

\* A batch sends the same number of CHUNK passes whether its queries found
\* one chunk in a group of its own or none at all, at every level.
PassesHideFound ==
    \A t \in walked :
      (\A i, j \in 1..Len(SubItems(t)) : SubItems(t)[i].g = SubItems(t)[j].g => i = j)
        => \A n \in 1..Len(sent[t]) : Len(sent[t][n].passes) = 1

\* The browser's per-item verifier gives the verdict of the native one on the
\* same rows ("the two functions must stay in sync").
BrowserAgrees ==
    \A t \in walked :
      \A i \in 1..Len(verified[t]) :
        LET its == SubItems(t)
        IN verify_bucket_merkle_item(t, its[i], Flat(t, its, i)) = verified[t][i]
=============================================================================
