---------------------------- MODULE HarmonyQuery ----------------------------
(***************************************************************************)
(* A HarmonyPIR query batch: INDEX rounds, CHUNK rounds and the Merkle     *)
(* sibling rounds, over one or two query sockets (harmony/query.rs,        *)
(* chunk.rs, traces.rs, sibling.rs, merkle.rs).                            *)
(*                                                                         *)
(* A group's request and its answer are two steps; between them the group  *)
(* is in flight and refuses another request, and no call takes a request   *)
(* back.  A batch that fails leaves its groups in flight and its unread    *)
(* answers on the sockets.  An answer to another batch's request decodes   *)
(* to noise.  A script has at most one chunk, a tree one sibling level.    *)
(***************************************************************************)
EXTENDS Naturals, Sequences, FiniteSets, TLC

CONSTANTS Scripts,      \* script hashes
          K,            \* groups of a level
          MaxQueries,   \* requests a group's hints allow
          MaxBatches,   \* bound: batches started
          Paired,       \* a second query socket is open
          HasMerkle,    \* has_bucket_merkle of the database
          MayRefuse     \* the server may answer with an error frame

HarmonyQueryAssumption ==
    /\ K \in Nat \ {0} /\ MaxQueries \in Nat /\ MaxBatches \in Nat
    /\ Paired \in BOOLEAN /\ HasMerkle \in BOOLEAN /\ MayRefuse \in BOOLEAN

VARIABLES truth,        \* truth[s]: what the database holds for script s
          conn,         \* the query sockets are open
          wire,         \* wire[x]: answers on socket x, in order
          inflight,     \* inflight[l][g]: the batch whose request is pending, or 0
          used,         \* used[l][g]: requests made with the group's hints
          call,         \* the batch in progress
          batches,      \* batches started
          shape,        \* frames of each round of the current batch
          results,      \* results of the last finished batch, by query
          failed        \* a batch failed since the groups were loaded

vars == <<truth, conn, wire, inflight, used, call, batches, shape, results, failed>>

Levels == {"index", "chunk", "isib", "csib"}
Groups == 1..K
Socks == IF Paired THEN {"a", "b"} ELSE {"a"}
Second == IF Paired THEN "b" ELSE "a"
Idle == [l \in Levels |-> [g \in Groups |-> 0]]
NoCall == [id |-> 0]
Empty == [x \in Socks |-> <<>>]

Init ==
    /\ truth \in [Scripts -> {"absent", "whale", "found"}]
    /\ conn = FALSE /\ wire = Empty /\ inflight = Idle /\ used = Idle
    /\ call = NoCall /\ batches = 0 /\ shape = <<>> /\ results = <<>> /\ failed = FALSE

-----------------------------------------------------------------------------
(* Sessions.                                                               *)

\* Groups are loaded anew, from the server or the cache, before a batch.
connect ==
    /\ ~conn /\ call = NoCall
    /\ conn' = TRUE /\ wire' = Empty /\ inflight' = Idle /\ used' = Idle /\ failed' = FALSE
    /\ UNCHANGED <<truth, call, batches, shape, results>>

disconnect ==
    /\ conn /\ call = NoCall
    /\ conn' = FALSE /\ wire' = Empty /\ inflight' = Idle /\ used' = Idle /\ failed' = FALSE
    /\ UNCHANGED <<truth, call, batches, shape, results>>

-----------------------------------------------------------------------------
(* Rounds.  call.at[l] is the next round of level l, call.sent the levels   *)
(* with answers outstanding, call.todo the levels that may run.             *)

\* Where the planner may put n items: one item per group and round.
Plans(n) == {p \in [1..n -> (0..1) \X Groups] :
               /\ \A i, j \in 1..n : p[i] = p[j] => i = j
               /\ \A i \in 1..n : p[i][1] = 1 => \E j \in 1..n : p[j][1] = 0}
RoundsOf(plan) == Cardinality({plan[i][1] : i \in DOMAIN plan})
Items(plan, g) == Cardinality({i \in DOMAIN plan : plan[i][2] = g})
MostItems(plan) == IF \E g \in Groups : Items(plan, g) > 1 THEN 2 ELSE 1

query_batch ==
    /\ conn /\ call = NoCall /\ batches < MaxBatches
    /\ \E qs \in {<<s>> : s \in Scripts} \cup {q \in Scripts \X Scripts : q[1] # q[2]} :
         \E plan \in Plans(Len(qs)) :
           call' = [id |-> batches + 1, qs |-> qs, todo |-> {"index"}, sent |-> {},
                    at |-> [l \in Levels |-> 0], iplan |-> plan, cplan |-> <<>>,
                    real |-> [i \in 1..Len(qs) |-> FALSE], whole |-> TRUE, proved |-> TRUE]
    /\ batches' = batches + 1 /\ shape' = <<>> /\ results' = <<>>
    /\ UNCHANGED <<truth, conn, wire, inflight, used, failed>>

PlanOf(l) == IF l \in {"index", "isib"} THEN call.iplan ELSE call.cplan

\* Sibling passes of a table: every INDEX item is two bins of one group.
Passes(l) == (IF l = "isib" THEN 2 ELSE 1) * MostItems(PlanOf(l))

\* A batch without chunks still sends one dummy round pair.
ChunkRounds == IF call.cplan = <<>> THEN 1 ELSE RoundsOf(call.cplan)

\* Up to two sibling passes are pipelined; more are asked one at a time.
query_levels(l) == IF Passes(l) > 2 THEN Passes(l) ELSE 1
Rounds(l) ==
    CASE l = "index" -> RoundsOf(call.iplan)
      [] l = "chunk" -> ChunkRounds
      [] OTHER -> query_levels(l)

\* The groups with a real request in the round; the others send dummies,
\* which cost nothing and leave no mark.
Items2(l, g) == (IF l = "isib" THEN 2 ELSE 1) * Items(PlanOf(l), g)
classify_groups(l) ==
    IF l \in {"index", "chunk"}
      THEN {PlanOf(l)[i][2] : i \in {j \in DOMAIN PlanOf(l) : PlanOf(l)[j][1] = call.at[l]}}
      ELSE {g \in Groups : Items2(l, g) > call.at[l]}

\* Requests a group's hints pay for: both cuckoo positions of an item, or the
\* sibling rows the passes of this round take from the group.
Cost(l, g) ==
    CASE l \in {"index", "chunk"} -> 2
      [] query_levels(l) > 1 -> 1
      [] OTHER -> Items2(l, g)

\* The answers a round waits for, as [socket, level, tag].  Round tags restart
\* at 0 in every batch; a serial pass repeats the tag of its level.
Frame(x, l, tag) == [sock |-> x, level |-> l, tag |-> tag]
Side(l) == IF l = "isib" THEN "a" ELSE Second
RoundPair(l) == <<Frame("a", l, 2 * call.at[l]), Frame(Second, l, 2 * call.at[l] + 1)>>
query_pass(l) == <<Frame(Side(l), l, 100)>>
prepare_cross_level(l) ==
    [p \in 1..Passes(l) |-> Frame(Side(l), l, IF Passes(l) = 1 THEN 100 ELSE 1000 + p)]
Frames(l) ==
    CASE l \in {"index", "chunk"} -> RoundPair(l)
      [] l \in {"isib", "csib"} /\ query_levels(l) > 1 -> query_pass(l)
      [] OTHER -> prepare_cross_level(l)
On(x, l) == SelectSeq(Frames(l), LAMBDA f : f.sock = x)

build_request(l, g) == inflight[l][g] = 0 /\ used[l][g] + Cost(l, g) <= MaxQueries

Place(l, S) ==
    /\ inflight' = [inflight EXCEPT ![l] = [g \in Groups |-> IF g \in S THEN call.id ELSE @[g]]]
    /\ used' = [used EXCEPT ![l] = [g \in Groups |-> IF g \in S THEN @[g] + Cost(l, g) ELSE @[g]]]

Abort == call' = NoCall /\ results' = <<>> /\ failed' = TRUE

run_round(l) ==
    /\ call # NoCall /\ l \in call.todo \ call.sent
    /\ \A g \in classify_groups(l) : build_request(l, g)
    /\ Place(l, classify_groups(l))
    /\ \E ok \in {TRUE, ~MayRefuse} :
         wire' = [x \in Socks |-> wire[x] \o
                    [i \in 1..Len(On(x, l)) |-> On(x, l)[i] @@ [id |-> call.id, ok |-> ok]]]
    /\ call' = [call EXCEPT !.sent = @ \cup {l}]
    /\ shape' = Append(shape, [level |-> l, frames |-> Len(Frames(l))])
    /\ UNCHANGED <<truth, conn, batches, results, failed>>

\* The groups are asked in order: the first that cannot be asked ends the
\* batch, and the ones before it stay in flight.
BuildFails(l) ==
    /\ call # NoCall /\ l \in call.todo \ call.sent
    /\ \E g \in classify_groups(l) :
         /\ ~build_request(l, g) /\ \A h \in classify_groups(l) : h < g => build_request(l, h)
         /\ Place(l, {h \in classify_groups(l) : h < g})
    /\ Abort /\ UNCHANGED <<truth, conn, wire, batches, shape>>

\* A deadline or a dropped future ends the batch with answers unread.
GiveUp ==
    /\ call # NoCall /\ call.sent # {}
    /\ Abort /\ UNCHANGED <<truth, conn, wire, inflight, used, batches, shape>>

-----------------------------------------------------------------------------
(* Answers.                                                                *)

\* The first answers of each socket, whatever they answer.
Taken(x, l) == SubSeq(wire[x], 1, Len(On(x, l)))
Drain(l) == wire' = [x \in Socks |-> SubSeq(wire[x], Len(On(x, l)) + 1, Len(wire[x]))]
Arrived(l) == l \in call.sent /\ \A x \in Socks : Len(wire[x]) >= Len(On(x, l))

decode_batch_response_frame(l) ==
    \A x \in Socks : \A i \in 1..Len(On(x, l)) :
      wire[x][i].ok /\ wire[x][i].level = l /\ wire[x][i].tag = On(x, l)[i].tag

\* All frames of a round are read before the first is decoded.
DecodeFails(l) ==
    /\ call # NoCall /\ Arrived(l) /\ ~decode_batch_response_frame(l)
    /\ Drain(l) /\ Abort /\ UNCHANGED <<truth, conn, inflight, used, batches, shape>>

\* What a query was answered with: noise matches no tag.
Genuine(l) == \A x \in Socks : \A i \in 1..Len(On(x, l)) : wire[x][i].id = call.id
Seen(c, i) == IF c.real[i] THEN truth[c.qs[i]] ELSE "absent"
Finds(c) == {i \in 1..Len(c.qs) : Seen(c, i) = "found"}

\* Both INDEX bins and the rows above them must hash to the root.
verdict(c, i) == c.proved /\ c.real[i]

\* None is an absence whose proof passed; a failed proof of absence is an
\* empty unverified result.  query_batch_with_inspector reports None as
\* verified when the database has trees.
run_merkle_verification(c, i) ==
    IF Seen(c, i) = "absent" /\ (HasMerkle => verdict(c, i))
      THEN [some |-> FALSE, what |-> "absent", verified |-> HasMerkle]
      ELSE [some |-> TRUE, what |-> Seen(c, i), verified |-> HasMerkle /\ verdict(c, i)]

Finish(c) ==
    /\ call' = NoCall /\ UNCHANGED failed
    /\ results' = [i \in 1..Len(c.qs) |-> [q |-> c.qs[i]] @@ run_merkle_verification(c, i)]

\* What follows the last round of a level.  A chunk answer without the asked
\* chunk is an error: reassembly is complete or the batch fails.
Continue(l, c) ==
    CASE l = "index" ->
           /\ \E plan \in Plans(Cardinality(Finds(c))) : call' = [c EXCEPT !.todo = {"chunk"}, !.cplan = plan]
           /\ UNCHANGED <<results, failed>>
      [] l = "chunk" /\ ~c.whole -> Abort
      [] l = "chunk" /\ c.whole /\ ~HasMerkle -> Finish(c)
      [] l = "chunk" /\ c.whole /\ HasMerkle ->
           /\ call' = [c EXCEPT !.todo = IF Paired THEN {"isib", "csib"} ELSE {"isib"}]
           /\ UNCHANGED <<results, failed>>
      [] l = "isib" /\ ~Paired -> call' = [c EXCEPT !.todo = {"csib"}] /\ UNCHANGED <<results, failed>>
      [] OTHER -> IF c.todo = {} THEN Finish(c) ELSE call' = c /\ UNCHANGED <<results, failed>>

\* Mutant of Release: the answers are taken, the groups stay in flight.
ReleaseNone(l) == UNCHANGED inflight

Release(l) == inflight' = [inflight EXCEPT ![l] = [g \in Groups |-> IF g \in classify_groups(l) THEN 0 ELSE @[g]]]

\* A script is judged by the round it was placed in, on both cuckoo
\* positions; a missing chunk fails the batch once all rounds are done; the
\* rows of every pass feed the proof.
query_index_phase_batched(l) ==
    [i \in 1..Len(call.qs) |->
       IF l = "index" /\ call.iplan[i][1] = call.at[l] THEN Genuine(l) ELSE call.real[i]]
query_chunk_phase_batched(l) ==
    call.whole /\ (l = "chunk" /\ classify_groups(l) # {} => Genuine(l))
finish_cross_level(l) == call.proved /\ (l \in {"isib", "csib"} => Genuine(l))

process_response(l) ==
    /\ call # NoCall /\ Arrived(l) /\ decode_batch_response_frame(l)
    /\ Release(l) /\ Drain(l)
    /\ LET last == call.at[l] + 1 = Rounds(l)
           c == [call EXCEPT !.sent = @ \ {l}, !.at[l] = @ + 1, !.todo = IF last THEN @ \ {l} ELSE @,
                   !.real = query_index_phase_batched(l), !.whole = query_chunk_phase_batched(l),
                   !.proved = finish_cross_level(l)]
       IN IF last THEN Continue(l, c) ELSE call' = c /\ UNCHANGED <<results, failed>>
    /\ UNCHANGED <<truth, conn, used, batches, shape>>

Next ==
    \/ connect \/ disconnect \/ query_batch \/ GiveUp
    \/ \E l \in Levels : run_round(l) \/ BuildFails(l) \/ DecodeFails(l) \/ process_response(l)

Spec == Init /\ [][Next]_vars

-----------------------------------------------------------------------------
(* Properties.                                                             *)

TypeOK ==
    /\ \A x \in Socks : \A i \in 1..Len(wire[x]) : wire[x][i].id \in 1..batches
    /\ \A l \in Levels : \A g \in Groups : inflight[l][g] \in 0..batches /\ used[l][g] \in 0..MaxQueries
    /\ call.id \in 0..batches

\* A result reported as verified, None included, says what the database holds
\* for the script, whatever answers earlier batches left on the sockets.
VerifiedIsTrue ==
    \A i \in DOMAIN results : results[i].verified => results[i].what = truth[results[i].q]

\* A finished batch whose chunks fit one round, in groups of their own, sends
\* the rounds and frames of a batch that found nothing ("CHUNK Round-Presence
\* Symmetry").
Count(l) == LET rs == SelectSeq(shape, LAMBDA r : r.level = l)
            IN <<Len(rs), {rs[i].frames : i \in 1..Len(rs)}>>
FoundLooksAbsent ==
    results # <<>> /\ Cardinality({i \in DOMAIN results : results[i].what = "found"}) < 2 =>
      /\ Count("chunk") = <<1, {2}>>
      /\ HasMerkle => Count("csib") = <<1, {1}>>

\* Groups are in flight between batches only after a batch has failed, so a
\* session without failures can always save its hints.
IdleBetweenBatches == call = NoCall /\ ~failed => inflight = Idle
=============================================================================
