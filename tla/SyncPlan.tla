------------------------------ MODULE SyncPlan ------------------------------
(***************************************************************************)
(* Planning a sync (crates/sdk/core/src/sync.rs, web/src/sync.ts): which   *)
(* databases of a server's catalogue to query, and in which order, to get  *)
(* from a height to the tip.  The catalogue is the only state; databases   *)
(* come and go as the operator publishes and retires them.                 *)
(***************************************************************************)
EXTENDS UtxoChain

CONSTANTS Dbs,                    \* databases an operator may publish
          MaxDbs,                 \* bound: databases in a catalogue
          MAX_DELTA_CHAIN_LENGTH  \* deltas in a row before a full is preferred

\* A full database has base 0; a delta leads from its base to its height.
DatabaseInfo == [kind : {"full", "delta"}, base : Nat, height : Nat]

SyncPlanAssumption ==
    /\ Dbs \subseteq DatabaseInfo
    /\ \A d \in Dbs : d.base < d.height /\ (d.kind = "full") = (d.base = 0)
    /\ MaxDbs \in Nat \ {0}
    /\ MAX_DELTA_CHAIN_LENGTH \in Nat \ {0}

VARIABLE catalog    \* sequence of databases, in the server's order

Heights == {d.height : d \in Dbs}
----------------------------------------------------------------------------
(* DatabaseCatalog. *)

full_snapshots(cat) == SelectSeq(cat, LAMBDA d : d.kind = "full")

deltas(cat) == SelectSeq(cat, LAMBDA d : d.kind = "delta")

HeightsOf(cat) == {d.height : d \in Range(cat)}

latest_tip(cat) == Max(HeightsOf(cat))

\* Two full databases of one height are one record here.
best_full_snapshot(cat) ==
    CHOOSE d \in Range(full_snapshots(cat)) : d.height = Max(HeightsOf(full_snapshots(cat)))
----------------------------------------------------------------------------
(* The chain search. *)

NoChain == [none |-> TRUE]
Chain(path) == [path |-> path]

\* The deltas that leave a height for one not visited yet, the first of each.
Unvisited(cat, height, visited) ==
    LET from == SelectSeq(deltas(cat), LAMBDA d : d.base = height /\ d.height \notin visited)
    IN SelectSeq(from, LAMBDA d : from[SelectInSeq(from, LAMBDA e : e.height = d.height)] = d)

Item(item, d) == [height |-> d.height, path |-> Append(item.path, d)]

RECURSIVE SearchLong(_, _, _, _)
\* Mutant: a path may be extended once more.
SearchLong(cat, queue, visited, end) ==
    IF queue = <<>> THEN NoChain
    ELSE LET item == Head(queue)
             next == IF Len(item.path) > MAX_DELTA_CHAIN_LENGTH THEN <<>>
                     ELSE Unvisited(cat, item.height, visited)
             hit  == SelectInSeq(next, LAMBDA d : d.height >= end)
         IN IF hit > 0 THEN Chain(Append(item.path, next[hit]))
            ELSE SearchLong(cat, Tail(queue) \o [i \in DOMAIN next |-> Item(item, next[i])],
                            visited \cup HeightsOf(next), end)

\* Breadth first; a path of the maximal length is not extended.
RECURSIVE Search(_, _, _, _)
Search(cat, queue, visited, end) ==
    IF queue = <<>> THEN NoChain
    ELSE LET item == Head(queue)
             next == IF Len(item.path) >= MAX_DELTA_CHAIN_LENGTH THEN <<>>
                     ELSE Unvisited(cat, item.height, visited)
             hit  == SelectInSeq(next, LAMBDA d : d.height >= end)
         IN IF hit > 0 THEN Chain(Append(item.path, next[hit]))
            ELSE Search(cat, Tail(queue) \o [i \in DOMAIN next |-> Item(item, next[i])],
                        visited \cup HeightsOf(next), end)

find_delta_chain(cat, start, end) ==
    IF start >= end THEN Chain(<<>>)
    ELSE Search(cat, <<[height |-> start, path |-> <<>>]>>, {start}, end)

\* The web client's search: an exact hit only, and the length is tested when
\* a path is queued.
RECURSIVE SearchExact(_, _, _, _)
SearchExact(cat, queue, visited, to) ==
    IF queue = <<>> THEN NoChain
    ELSE LET item == Head(queue)
             next == Unvisited(cat, item.height, visited)
             hit  == SelectInSeq(next, LAMBDA d : d.height = to)
             room == Len(item.path) + 1 < MAX_DELTA_CHAIN_LENGTH
         IN IF hit > 0 THEN Chain(Append(item.path, next[hit]))
            ELSE SearchExact(cat,
                     Tail(queue) \o (IF room THEN [i \in DOMAIN next |-> Item(item, next[i])]
                                     ELSE <<>>),
                     visited \cup HeightsOf(next), to)

findDeltaChain(cat, from, to) ==
    SearchExact(cat, <<[height |-> from, path |-> <<>>]>>, {from}, to)
----------------------------------------------------------------------------
(* Plans. *)

Plan(steps, fresh, target) == [steps |-> steps, fresh |-> fresh, target |-> target]

NoPlan == [error |-> TRUE]

FreshPlan(cat, tail) ==
    LET full  == best_full_snapshot(cat)
        steps == IF tail = NoChain THEN <<full>> ELSE <<full>> \o tail.path
    IN Plan(steps, TRUE, Last(steps).height)

\* 0 stands for no last height.
compute_sync_plan(cat, last) ==
    IF cat = <<>> THEN NoPlan
    ELSE IF last > 0 /\ last >= latest_tip(cat) THEN Plan(<<>>, FALSE, last)
    ELSE LET chain == find_delta_chain(cat, last, latest_tip(cat))
         IN IF last > 0 /\ chain # NoChain THEN Plan(chain.path, FALSE, latest_tip(cat))
            ELSE IF full_snapshots(cat) = <<>> THEN NoPlan
            ELSE FreshPlan(cat, find_delta_chain(cat, best_full_snapshot(cat).height,
                                                 latest_tip(cat)))

\* The web client's planner: no search when the full database is at the tip.
computeSyncPlan(cat, last) ==
    LET tip   == latest_tip(cat)
        fresh == IF full_snapshots(cat) = <<>> THEN NoPlan
                 ELSE FreshPlan(cat, IF best_full_snapshot(cat).height < tip
                                     THEN findDeltaChain(cat, best_full_snapshot(cat).height, tip)
                                     ELSE NoChain)
    IN IF cat = <<>> THEN NoPlan
       ELSE IF last = 0 THEN fresh
       ELSE IF last >= tip THEN Plan(<<>>, FALSE, last)
       ELSE LET chain == findDeltaChain(cat, last, tip)
            IN IF chain # NoChain THEN Plan(chain.path, FALSE, tip) ELSE fresh
----------------------------------------------------------------------------
(* The operator's side. *)

CatalogInit == catalog = <<>>

Publish(d) ==
    /\ d \notin Range(catalog) /\ Len(catalog) < MaxDbs
    /\ catalog' = Append(catalog, d)

Retire(d) ==
    /\ d \in Range(catalog)
    /\ catalog' = SelectSeq(catalog, LAMBDA e : e # d)

CatalogNext == \E d \in Dbs : Publish(d) \/ Retire(d)

CatalogSpec == CatalogInit /\ [][CatalogNext]_catalog
----------------------------------------------------------------------------
(* What a plan promises. *)

\* Sequences of at most n deltas of the catalogue, each starting where the one
\* before it ended, from a height to the tip.
Chains(cat, from, to) ==
    {q \in UNION {[1 .. n -> Range(deltas(cat))] : n \in 0 .. MAX_DELTA_CHAIN_LENGTH} :
        /\ \A i \in DOMAIN q : q[i].base = (IF i = 1 THEN from ELSE q[i - 1].height)
        /\ (IF q = <<>> THEN from ELSE Last(q).height) = to}

Shortest(set) == Min({Len(q) : q \in set})

\* The plan for every height a client may be at, whatever the catalogue holds
\* by then: a chain of at most MAX_DELTA_CHAIN_LENGTH deltas to the tip, as
\* short as any, when one exists (so the cut of the search by length and its
\* set of visited heights lose no chain, sync.rs find_delta_chain); else the
\* highest full database and the shortest such chain from it; and an error
\* only when there is no full database to start from.
PlanIsBest ==
    catalog # <<>> =>
      \A last \in {0} \cup Heights :
        LET p    == compute_sync_plan(catalog, last)
            tip  == latest_tip(catalog)
            mine == IF last = 0 THEN {} ELSE Chains(catalog, last, tip)
            full == best_full_snapshot(catalog)
            tail == Chains(catalog, full.height, tip)
        IN IF last >= tip THEN p = Plan(<<>>, FALSE, last)
           ELSE IF mine # {}
           THEN ~p.fresh /\ p.target = tip /\ p.steps \in mine /\ Len(p.steps) = Shortest(mine)
           ELSE IF full_snapshots(catalog) = <<>> THEN p = NoPlan
           ELSE /\ p.fresh /\ Head(p.steps) = full /\ p.target = Last(p.steps).height
                /\ IF tail = {} THEN Len(p.steps) = 1
                   ELSE /\ Tail(p.steps) \in tail
                        /\ Len(Tail(p.steps)) = Shortest(tail)

\* The browser and the SDK make the same plan of the same catalogue, although
\* they cut the search at different places (sync.ts: "Same plans as ...").
BrowserPlansAlike ==
    \A last \in {0} \cup Heights :
        computeSyncPlan(catalog, last) = compute_sync_plan(catalog, last)
=============================================================================
