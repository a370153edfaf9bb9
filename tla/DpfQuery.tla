------------------------------ MODULE DpfQuery ------------------------------
(***************************************************************************)
(* The two-server DPF client of the SDK (dpf.rs) against honest servers:    *)
(* what a pair of connections binds (catalogue, proved roots, checked       *)
(* tree-tops), and a query or sync call with its INDEX, CHUNK and Merkle    *)
(* rounds, each asked of both servers.                                      *)
(*                                                                         *)
(* A bin is the XOR of two answers and means something only when both       *)
(* answer the same request from the same database version.  The servers     *)
(* are restarted independently with new versions.  A send or a receive may  *)
(* fail on one side alone; the other side's answer then stays on its socket *)
(* and the next request takes it.  Answers carry their kind and round only. *)
(* The Merkle walk of a tree is one round here (module MerkleVerify has its *)
(* passes and levels); a script has at most one chunk.                      *)
(***************************************************************************)
EXTENDS Naturals, Sequences, FiniteSets

CONSTANTS Dbs,          \* databases served
          Scripts,      \* script hashes (numbers, in batch order)
          Group,        \* Group[s]: the INDEX group planned for s
          Status,       \* Status[v][d][s]: "absent", "whale" or "found" in version v
          Height,       \* Height[v]: the height version v is built at
          WithMerkle,   \* databases with has_bucket_merkle
          Plans,        \* sequences of databases a sync may ask for
          Batches,      \* sets of scripts a call may ask for
          MaxVer, MaxCalls, MaxFault, MaxInstall   \* bounds

VARIABLES sver,         \* sver[x]: the version server x runs
          conn,         \* conn[x]: "none", "up" or "dead"
          cver,         \* cver[x]: the version behind connection x
          cat,          \* catalog: its version, 0 when absent
          roots,        \* verified_roots: version of the installed roots, 0 without
          tops,         \* verified_tree_tops: their version, 0 without
          call,         \* the call under way
          inbox,        \* inbox[x]: answers on socket x
          out,          \* results of the last call
          shapes,       \* rounds of completed steps
          used          \* bounds spent; used.calls also names the call

vars == <<sver, conn, cver, cat, roots, tops, call, inbox, out, shapes, used>>
session == <<cat, roots, tops>>

Sides == {0, 1}
Both(v) == [x \in Sides |-> v]
NoCall == [stage |-> "none"]
NoVer == [d \in Dbs |-> 0]

Init ==
    /\ sver = Both(1) /\ conn = Both("none") /\ cver = Both(0)
    /\ cat = 0 /\ roots = NoVer /\ tops = NoVer
    /\ call = NoCall /\ inbox = Both(<<>>) /\ out = {} /\ shapes = {}
    /\ used = [calls |-> 0, fault |-> 0, install |-> 0]

Spend(what) == used' = [used EXCEPT ![what] = @ + 1]
Idle == call = NoCall
is_connected == \A x \in Sides : conn[x] # "none"

-----------------------------------------------------------------------------
(* Connections.                                                            *)

invalidate_session_bindings == cat' = 0 /\ roots' = NoVer /\ tops' = NoVer

close_transport_slots == conn' = Both("none") /\ cver' = Both(0) /\ inbox' = Both(<<>>)

Attach == conn' = Both("up") /\ cver' = sver /\ inbox' = Both(<<>>)

\* A complete pair is kept, even a dead one; a partial one is replaced.
connect ==
    /\ Idle /\ ~is_connected
    /\ invalidate_session_bindings
    /\ Attach \/ close_transport_slots
    /\ UNCHANGED <<sver, call, out, shapes, used>>

connect_with_transport ==
    /\ Idle /\ is_connected /\ used.calls < MaxCalls
    /\ invalidate_session_bindings /\ Attach /\ Spend("calls")
    /\ UNCHANGED <<sver, call, out, shapes>>

disconnect ==
    /\ Idle /\ conn # Both("none")
    /\ close_transport_slots /\ invalidate_session_bindings
    /\ UNCHANGED <<sver, call, out, shapes, used>>

\* Both sockets are taken out; they come back, the state otherwise as it was,
\* only when both handshakes succeed.  This is the other case: catalogue and
\* roots stay.
upgrade_to_secure_channel_with_seeds ==
    /\ Idle /\ is_connected
    /\ close_transport_slots
    /\ UNCHANGED <<sver, session, call, out, shapes, used>>

\* The slot is empty while the server's info is read; a caller that gives up
\* then leaves half a pair.
enable_credits(x) ==
    /\ Idle /\ conn[x] # "none" /\ used.fault < MaxFault /\ Spend("fault")
    /\ conn' = [conn EXCEPT ![x] = "none"] /\ cver' = [cver EXCEPT ![x] = 0]
    /\ inbox' = [inbox EXCEPT ![x] = <<>>]
    /\ UNCHANGED <<sver, session, call, out, shapes>>

Rotate(x) ==
    /\ sver[x] < MaxVer /\ sver' = [sver EXCEPT ![x] = @ + 1]
    /\ conn' = [conn EXCEPT ![x] = IF @ = "up" THEN "dead" ELSE @]
    /\ inbox' = [inbox EXCEPT ![x] = <<>>]
    /\ UNCHANGED <<cver, session, call, out, shapes, used>>

-----------------------------------------------------------------------------
(* Round trips.                                                            *)

Db == call.plan[call.step]
Ans(kind, round, d, x, rows) ==
    [kind |-> kind, round |-> round, call |-> used.calls, db |-> d, ver |-> cver[x], rows |-> rows]
Put(S, kind, round, d, rows) ==
    inbox' = [x \in Sides |-> IF x \in S THEN Append(inbox[x], Ans(kind, round, d, x, rows)) ELSE inbox[x]]
Take(S) == inbox' = [x \in Sides |-> IF x \in S THEN Tail(inbox[x]) ELSE inbox[x]]

Fail == call' = NoCall /\ out' = {} /\ UNCHANGED shapes

\* Server 0 is sent its keys first, then server 1; an error stops the call,
\* and server 0 still answers what it got.
AskPair(kind, round, rows) ==
    /\ ~call.sent
    /\ \/ \A x \in Sides : conn[x] = "up"
          /\ Put(Sides, kind, round, Db, rows)
          /\ call' = [call EXCEPT !.sent = TRUE] /\ UNCHANGED <<out, shapes, used>>
       \/ conn[0] = "up" /\ conn[1] = "up" /\ used.fault < MaxFault /\ Spend("fault")
          /\ Put({0}, kind, round, Db, rows) /\ Fail
       \/ conn[0] = "up" /\ conn[1] # "up" /\ Put({0}, kind, round, Db, rows) /\ Fail /\ UNCHANGED used
       \/ conn[0] # "up" /\ Fail /\ UNCHANGED <<inbox, used>>

\* The answer of server 0 is read first; each may fail to come in time.
RecvFails ==
    /\ call.sent
    /\ \/ inbox[0] = <<>> /\ UNCHANGED <<inbox, used>>
       \/ inbox[0] # <<>> /\ inbox[1] = <<>> /\ Take({0}) /\ UNCHANGED used
       \/ inbox[0] # <<>> /\ used.fault < MaxFault /\ Spend("fault") /\ UNCHANGED inbox
       \/ \A x \in Sides : inbox[x] # <<>>
          /\ used.fault < MaxFault /\ Spend("fault") /\ Take({0})
    /\ Fail

HavePair == call.sent /\ \A x \in Sides : inbox[x] # <<>>

decode_batch_response(x, kind, round) ==
    Head(inbox[x]).kind = kind /\ Head(inbox[x]).round = round

Decoded(kind, round) ==
    HavePair /\ Take(Sides) /\ \A x \in Sides : decode_batch_response(x, kind, round)
Refused(kind, round) ==
    /\ HavePair /\ Take(Sides) /\ \E x \in Sides : ~decode_batch_response(x, kind, round)
    /\ Fail

Noise == [db |-> "noise", ver |-> 0, rows |-> {}]

\* Two answers to one request from one version XOR to the bins asked for.
xor_into == IF Head(inbox[0]) = Head(inbox[1]) THEN Head(inbox[0]) ELSE Noise

Holds(s) == s \in xor_into.rows
Right(s) == Holds(s) /\ xor_into.db = Db

-----------------------------------------------------------------------------
(* Catalogue and proved roots.                                             *)

reconcile_catalog(v) ==
    /\ roots' = [d \in Dbs |-> IF roots[d] # 0 /\ Height[roots[d]] = Height[v] THEN roots[d] ELSE 0]
    /\ tops' = [d \in Dbs |-> IF roots'[d] = 0 THEN 0 ELSE tops[d]]

\* Server 0 alone is asked; an answer left over from another call is refused.
fetch_catalog ==
    /\ Idle /\ is_connected /\ conn[0] = "up" /\ used.calls < MaxCalls /\ Spend("calls")
    /\ \E d \in Dbs : LET q == Append(inbox[0], Ans("catalog", 0, d, 0, {})) IN
         /\ inbox' = [inbox EXCEPT ![0] = Tail(q)]
         /\ IF Head(q).kind = "catalog" THEN cat' = Head(q).ver /\ reconcile_catalog(Head(q).ver)
                                         ELSE UNCHANGED session
    /\ UNCHANGED <<sver, conn, cver, call, out, shapes>>

\* The caller may hold roots of any version it has verified.
install_verified_database_roots(v, d) ==
    /\ Idle /\ cat # 0 /\ used.install < MaxInstall /\ Spend("install")
    /\ Height[v] = Height[cat]
    /\ roots' = [roots EXCEPT ![d] = v] /\ tops' = [tops EXCEPT ![d] = 0]
    /\ UNCHANGED <<sver, conn, cver, cat, call, inbox, out, shapes>>

clear_verified_database_roots ==
    /\ Idle /\ roots # NoVer
    /\ roots' = NoVer /\ tops' = NoVer
    /\ UNCHANGED <<sver, conn, cver, cat, call, inbox, out, shapes, used>>

-----------------------------------------------------------------------------
(* A call: tree-tops of every step are checked, then the steps run.        *)

Step(plan, n, S) ==
    [stage |-> "index", sent |-> FALSE, plan |-> plan, step |-> n, batch |-> S,
     round |-> 1, idx |-> [s \in S |-> "absent"], good |-> [s \in S |-> TRUE], top |-> 0]

run_sync_plan(plan, S) ==
    /\ Idle /\ cat # 0 /\ used.calls < MaxCalls /\ Spend("calls")
    /\ call' = [Step(plan, 1, S) EXCEPT !.stage = "preflight"]
    /\ out' = {}
    /\ UNCHANGED <<sver, conn, cver, session, inbox, shapes>>

query_batch(d, S) == is_connected /\ run_sync_plan(<<d>>, S)

\* An empty batch: tree-tops are checked and nothing is asked.
preflight_verified_database(d) == is_connected /\ roots[d] # 0 /\ run_sync_plan(<<d>>, {})

To(stage) == call' = [call EXCEPT !.stage = stage, !.sent = FALSE, !.round = 1]

\* Server 0 alone is asked for tree-tops.
AskTops(d) ==
    /\ ~call.sent
    /\ IF conn[0] = "up" THEN Put({0}, "tops", 0, d, {}) /\ call' = [call EXCEPT !.sent = TRUE]
                              /\ UNCHANGED <<out, shapes>>
                         ELSE Fail /\ UNCHANGED inbox
HaveTops == call.sent /\ inbox[0] # <<>> /\ Take({0}) /\ Head(inbox[0]).kind = "tops"
NotTops == call.sent /\ inbox[0] # <<>> /\ Take({0}) /\ Head(inbox[0]).kind # "tops" /\ Fail

\* Mutant of Unchecked: only the step about to run is looked at.
UncheckedFirst == {n \in {1} : roots[call.plan[n]] # 0 /\ tops[call.plan[n]] = 0}

Unchecked == {n \in 1..Len(call.plan) : roots[call.plan[n]] # 0 /\ tops[call.plan[n]] = 0}
Least(N) == CHOOSE n \in N : \A k \in N : n <= k

\* The tree-tops of a database with roots must hash to them.
preflight_bucket_tree_tops ==
    /\ call.stage = "preflight"
    /\ IF Unchecked = {} THEN /\ IF call.batch = {} THEN call' = NoCall ELSE To("index")
                             /\ UNCHANGED <<tops, inbox, out, shapes>>
       ELSE LET d == call.plan[Least(Unchecked)] IN
         \/ d \notin WithMerkle /\ Fail /\ UNCHANGED <<tops, inbox>>
         \/ d \in WithMerkle /\ AskTops(d) /\ UNCHANGED tops
         \/ /\ HaveTops
            /\ IF Head(inbox[0]).db = d /\ Head(inbox[0]).ver = roots[d]
                 THEN tops' = [tops EXCEPT ![d] = roots[d]] /\ To("preflight") /\ UNCHANGED <<out, shapes>>
                 ELSE Fail /\ UNCHANGED tops
         \/ NotTops /\ UNCHANGED tops
    /\ UNCHANGED <<sver, conn, cver, cat, roots, used>>

-----------------------------------------------------------------------------
(* INDEX rounds: one script per group and round.                           *)

Rank(s, S) == Cardinality({t \in S : Group[t] = Group[s] /\ t <= s})
AtRank(S, r) == {s \in S : Rank(s, S) = r}

\* Rounds of pbc_plan_rounds with the candidate groups already chosen.
plan_index_pbc_rounds(S) == Cardinality({Rank(s, S) : s \in S})

\* What the two bins of s show; noise, or another script's bins, show nothing.
find_entry_in_index_result(s) ==
    IF Holds(s) THEN Status[xor_into.ver][xor_into.db][s] ELSE "absent"

query_index_phase_batched ==
    /\ call.stage = "index"
    /\ LET now == AtRank(call.batch, call.round)
           last == call.round = plan_index_pbc_rounds(call.batch) IN
       \/ AskPair("index", call.round, now)
       \/ RecvFails
       \/ Refused("index", call.round) /\ UNCHANGED used
       \/ /\ Decoded("index", call.round)
          /\ call' = [call EXCEPT
               !.idx = [s \in call.batch |-> IF s \in now THEN find_entry_in_index_result(s) ELSE @[s]],
               !.good = [s \in call.batch |-> @[s] /\ (s \in now => Right(s))],
               !.sent = FALSE, !.round = IF last THEN 1 ELSE @ + 1,
               !.stage = IF last THEN "chunk" ELSE "index"]
          /\ UNCHANGED <<out, shapes, used>>
    /\ UNCHANGED <<sver, conn, cver, session>>

-----------------------------------------------------------------------------
(* CHUNK rounds, script by script in batch order; call.round counts them.   *)

Nth(S, n) == CHOOSE s \in S : Cardinality({t \in S : t <= s}) = n
Current == Nth(call.batch, call.round)

plan_chunk_rounds(s) == IF call.idx[s] = "found" THEN 1 ELSE 0

\* A script without chunks makes one dummy round.
pad_chunk_rounds_for_presence(n) == IF n = 0 THEN 1 ELSE n

\* The groups of a round that ask for a chunk; the others ask for random bins.
group_to_chunk(s) == IF call.idx[s] = "found" THEN {s} ELSE {}

AfterChunk == IF call.round < Cardinality(call.batch) THEN "chunk"
              ELSE IF Db \in WithMerkle THEN "tops" ELSE "done"

NextScript(good) ==
    call' = [call EXCEPT !.good = good, !.sent = FALSE, !.stage = AfterChunk,
                         !.round = IF AfterChunk = "chunk" THEN @ + 1 ELSE 1]

\* A chunk that is not in the bins ends the call.  Round numbers restart at 0
\* for every script.
query_chunk_level ==
    /\ call.stage = "chunk"
    /\ LET s == Current
           rows == group_to_chunk(s) IN
       IF pad_chunk_rounds_for_presence(plan_chunk_rounds(s)) = 0
         THEN NextScript(call.good) /\ UNCHANGED <<inbox, out, shapes, used>>
         ELSE \/ AskPair("chunk", 0, rows)
              \/ RecvFails
              \/ Refused("chunk", 0) /\ UNCHANGED used
              \/ /\ Decoded("chunk", 0) /\ UNCHANGED used
                 /\ IF rows = {} THEN NextScript(call.good) /\ UNCHANGED <<out, shapes>>
                    ELSE IF Holds(s)
                      THEN NextScript([call.good EXCEPT ![s] = @ /\ Right(s)]) /\ UNCHANGED <<out, shapes>>
                      ELSE Fail
    /\ UNCHANGED <<sver, conn, cver, session>>

-----------------------------------------------------------------------------
(* Verification.                                                           *)

\* Checked tree-tops are used as they are; others are fetched and not kept.
FetchTops ==
    /\ call.stage = "tops"
    /\ \/ /\ tops[Db] # 0 /\ UNCHANGED <<inbox, out, shapes>>
          /\ call' = [call EXCEPT !.stage = "isib", !.top = tops[Db]]
       \/ tops[Db] = 0 /\ AskTops(Db)
       \/ /\ HaveTops /\ UNCHANGED <<out, shapes>>
          /\ call' = [call EXCEPT !.stage = "isib", !.sent = FALSE,
                        !.top = IF Head(inbox[0]).db = Db THEN Head(inbox[0]).ver ELSE 0]
       \/ NotTops
    /\ UNCHANGED <<sver, conn, cver, session, used>>

Leaves(kind) == IF kind = "isib" THEN call.batch ELSE {s \in call.batch : call.idx[s] = "found"}

\* A leaf passes when bins, siblings and tops are of one version.
verify_bucket_merkle_batch_dpf(kind) ==
    /\ call.stage = kind
    /\ \/ AskPair(kind, 0, Leaves(kind))
       \/ RecvFails
       \/ Refused(kind, 0) /\ UNCHANGED used
       \/ /\ Decoded(kind, 0) /\ UNCHANGED <<out, shapes, used>>
          /\ call' = [call EXCEPT !.sent = FALSE, !.stage = IF kind = "isib" THEN "csib" ELSE "done",
               !.good = [s \in call.batch |-> @[s] /\
                          (s \in Leaves(kind) => Right(s) /\ xor_into.ver = call.top)]]
    /\ UNCHANGED <<sver, conn, cver, session>>

None == [none |-> TRUE]
Result(s) == [status |-> call.idx[s], verified |-> Db \in WithMerkle /\ call.good[s]]

\* Absence whose proof fails becomes an unverified empty result.
run_merkle_verification(s) ==
    IF call.idx[s] = "absent" /\ (Db \in WithMerkle => call.good[s]) THEN None ELSE Result(s)

\* How callers read a "not found": verified when the database has trees.
query_batch_with_inspector(r) ==
    IF r = None THEN [status |-> "absent", verified |-> Db \in WithMerkle] ELSE r

Shape ==
    [batch |-> call.batch, merkle |-> Db \in WithMerkle,
     index |-> plan_index_pbc_rounds(call.batch),
     chunk |-> [s \in call.batch |-> pad_chunk_rounds_for_presence(plan_chunk_rounds(s))]]

execute_step_traced ==
    /\ call.stage = "done"
    /\ out' = out \cup {[db |-> Db, s |-> s, ver |-> cver, root |-> roots[Db],
                         r |-> query_batch_with_inspector(run_merkle_verification(s))] : s \in call.batch}
    /\ shapes' = shapes \cup {Shape}
    /\ call' = IF call.step = Len(call.plan) THEN NoCall
                 ELSE Step(call.plan, call.step + 1, call.batch)
    /\ UNCHANGED <<sver, conn, cver, session, inbox, used>>

-----------------------------------------------------------------------------

Next ==
    \/ connect \/ connect_with_transport \/ disconnect \/ upgrade_to_secure_channel_with_seeds
    \/ \E x \in Sides : enable_credits(x) \/ Rotate(x)
    \/ fetch_catalog
    \/ \E v \in 1..MaxVer, d \in Dbs : install_verified_database_roots(v, d)
    \/ clear_verified_database_roots
    \/ \E plan \in Plans, S \in Batches : run_sync_plan(plan, S)
    \/ \E d \in Dbs, S \in Batches : query_batch(d, S)
    \/ \E d \in Dbs : preflight_verified_database(d)
    \/ preflight_bucket_tree_tops
    \/ query_index_phase_batched \/ query_chunk_level \/ FetchTops
    \/ \E kind \in {"isib", "csib"} : verify_bucket_merkle_batch_dpf(kind)
    \/ execute_step_traced

Spec == Init /\ [][Next]_vars

-----------------------------------------------------------------------------
(* Properties.                                                             *)

TypeOK ==
    /\ sver \in [Sides -> 1..MaxVer] /\ conn \in [Sides -> {"none", "up", "dead"}]
    /\ cver \in [Sides -> 0..MaxVer] /\ cat \in 0..MaxVer
    /\ roots \in [Dbs -> 0..MaxVer] /\ tops \in [Dbs -> 0..MaxVer]
    /\ \A x \in Sides : Len(inbox[x]) <= MaxCalls + MaxFault

\* A result marked verified, absence included, is what the database holds in
\* one version that both servers answered from: not the XOR of answers to two
\* requests or of two versions, and never an answer left from another call.
VerifiedIsTrue ==
    \A o \in out : o.r.verified =>
      o.r.status = Status[o.ver[0]][o.db][o.s] /\ o.ver[0] = o.ver[1]

\* A verified result of a database with proved roots is of the version the
\* roots commit to, though the walk itself never looks at the roots.
VerifiedUnderRoots ==
    \A o \in out : o.r.verified /\ o.root # 0 => o.ver = Both(o.root)

\* Once a call asks about scripts, server 0 serves the proved version of
\* every database of the plan that has proved roots.
NoQueryUnderWrongRoots ==
    (~Idle /\ call.stage # "preflight" /\ conn[0] # "none") =>
      \A n \in 1..Len(call.plan) : roots[call.plan[n]] \in {0, cver[0]}

\* What a connected client holds came over its present pair of connections.
SessionBound ==
    is_connected => cat \in {0, cver[0]} /\ \A d \in Dbs : tops[d] \in {0, cver[0]}

\* The rounds of a batch do not depend on what its scripts hold.
FoundLooksAbsent ==
    \A x, y \in shapes : (x.batch = y.batch /\ x.merkle = y.merkle) => x = y

=============================================================================
