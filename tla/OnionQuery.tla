----------------------------- MODULE OnionQuery -----------------------------
(***************************************************************************)
(* The OnionPIR client of the SDK (onion.rs, onion_merkle.rs) against one   *)
(* honest server: what a connection binds (catalogue, query geometry,       *)
(* Merkle metadata, proved roots, checked tree-tops, registered keys), and  *)
(* a query or sync call with its INDEX, CHUNK and Merkle rounds.            *)
(*                                                                         *)
(* The server may be restarted with a new database version, which ends the  *)
(* connection.  A caller may give up a call between a request and its       *)
(* answer; the answer stays on the socket and the next request takes it.    *)
(* Answers name their kind and round, not the database or the query.  The   *)
(* key store may forget the client (module OnionWorker); its batch is then  *)
(* answered with empty ciphertexts.                                         *)
(***************************************************************************)
EXTENDS Naturals, Sequences, FiniteSets

CONSTANTS Dbs,          \* databases served
          Scripts,      \* script hashes (numbers)
          Group,        \* Group[s]: the PBC group of s and of its entry
          Status,       \* Status[v][d][s]: "absent", "whale" or "found" in version v
          Height,       \* Height[v]: the height version v is built at
          WithMerkle,   \* databases whose sibling files and tree-tops are loaded
          Plans,        \* sequences of databases a call may ask for
          Batches,      \* sets of scripts a call may ask for
          MaxVer, MaxCalls, MaxAbandon, MaxEvict, MaxInstall   \* bounds

VARIABLES sver,         \* the version the server runs
          conn,         \* "none", "up" or "dead"
          cver,         \* the version behind the connection
          cat,          \* catalog, proof_catalog: their version, 0 when absent
          params,       \* onion_params: their version, 0 when absent
          merkle,       \* onion_merkle: databases with Merkle metadata
          roots,        \* verified_roots: version of the installed roots, 0 without
          tops,         \* verified_tree_tops
          reg,          \* databases whose worker was given our keys
          call,         \* the call under way
          inbox,        \* answers on the socket
          out,          \* results of the last call
          shapes,       \* rounds of completed steps
          used          \* bounds spent

vars == <<sver, conn, cver, cat, params, merkle, roots, tops, reg, call, inbox, out, shapes, used>>
session == <<cat, params, merkle, roots, tops, reg>>

NoCall == [stage |-> "none"]
Empty == <<"empty">>
NoRoots == [d \in Dbs |-> 0]

Init ==
    /\ sver = 1 /\ conn = "none" /\ cver = 0
    /\ cat = 0 /\ params = 0 /\ merkle = {} /\ roots = NoRoots /\ tops = {} /\ reg = {}
    /\ call = NoCall /\ inbox = <<>> /\ out = {} /\ shapes = {}
    /\ used = [calls |-> 0, abandon |-> 0, evict |-> 0, install |-> 0]

Spend(what) == used' = [used EXCEPT ![what] = @ + 1]
Idle == call = NoCall

-----------------------------------------------------------------------------
(* Connections.                                                            *)

invalidate_session_bindings ==
    cat' = 0 /\ params' = 0 /\ merkle' = {} /\ roots' = NoRoots /\ tops' = {} /\ reg' = {}

Attach == conn' = "up" /\ cver' = sver /\ inbox' = <<>>

\* Connecting a client that holds a connection does nothing, even a dead one.
connect ==
    /\ Idle /\ conn = "none"
    /\ invalidate_session_bindings /\ Attach
    /\ UNCHANGED <<sver, call, out, shapes, used>>

connect_with_transport ==
    /\ Idle /\ conn # "none" /\ used.calls < MaxCalls
    /\ invalidate_session_bindings /\ Attach /\ Spend("calls")
    /\ UNCHANGED <<sver, call, out, shapes>>

disconnect ==
    /\ Idle /\ conn # "none"
    /\ invalidate_session_bindings
    /\ conn' = "none" /\ cver' = 0 /\ inbox' = <<>>
    /\ UNCHANGED <<sver, call, out, shapes, used>>

\* The upgrade takes the connection and puts it back only on success.
upgrade_to_secure_channel_with_seeds ==
    /\ Idle /\ conn # "none"
    /\ conn' = "none" /\ cver' = 0 /\ inbox' = <<>>
    /\ UNCHANGED <<sver, session, call, out, shapes, used>>

Rotate ==
    /\ sver < MaxVer /\ sver' = sver + 1
    /\ conn' = IF conn = "up" THEN "dead" ELSE conn
    /\ inbox' = <<>>
    /\ UNCHANGED <<cver, session, call, out, shapes, used>>

-----------------------------------------------------------------------------
(* A round trip: the request is sent and answered at once by the server,    *)
(* the client takes whatever answer is first on the socket.                *)

Ans(kind, round, body) == [kind |-> kind, round |-> round, body |-> body]

Send(a) ==
    /\ ~call.sent /\ conn = "up"
    /\ inbox' = Append(inbox, a) /\ call' = [call EXCEPT !.sent = TRUE]

\* The first answer is the one awaited (by kind and round number).
Take(kind, round) ==
    /\ call.sent /\ inbox # <<>> /\ inbox' = Tail(inbox)
    /\ Head(inbox).kind = kind /\ Head(inbox).round = round

Got == Head(inbox).body

Fail == call' = NoCall /\ UNCHANGED <<cver, out, shapes>>

\* Any other answer is an error, and so is a lost connection.
response_payload(kind, round) ==
    /\ call.sent /\ inbox # <<>> /\ inbox' = Tail(inbox)
    /\ Head(inbox).kind # kind \/ Head(inbox).round # round
    /\ Fail

Lost ==
    /\ ~Idle /\ conn = "dead" /\ Fail
    /\ UNCHANGED <<sver, conn, session, inbox, used>>

\* The caller drops the call; its answer is still to come.
Abandon ==
    /\ ~Idle /\ call.sent /\ used.abandon < MaxAbandon /\ Spend("abandon")
    /\ call' = NoCall
    /\ UNCHANGED <<sver, conn, cver, session, inbox, out, shapes>>

To(stage) == call' = [call EXCEPT !.stage = stage, !.sent = FALSE]

-----------------------------------------------------------------------------
(* The catalogue: server info first, then the standard catalogue.          *)

fetch_catalog ==
    /\ Idle /\ conn = "up" /\ used.calls < MaxCalls /\ Spend("calls")
    /\ call' = [stage |-> "info", sent |-> TRUE]
    /\ inbox' = Append(inbox, Ans("info", 0, {}))
    /\ UNCHANGED <<sver, conn, cver, session, out, shapes>>

\* Geometry and Merkle metadata are replaced before the catalogue is asked for.
fetch_server_info ==
    /\ call.stage = "info"
    /\ \/ /\ Take("info", 0)
          /\ params' = cver /\ merkle' = WithMerkle
          /\ To("catalog") /\ UNCHANGED <<cat, out, shapes>>
       \/ response_payload("info", 0) /\ UNCHANGED <<params, merkle, cat>>
    /\ UNCHANGED <<sver, conn, cver, roots, tops, reg, used>>

reconcile_catalog(v) ==
    /\ roots' = [d \in Dbs |-> IF roots[d] # 0 /\ Height[roots[d]] = Height[v] THEN roots[d] ELSE 0]
    /\ tops' = {d \in tops : roots'[d] # 0}

try_fetch_dpf_catalog ==
    /\ call.stage = "catalog"
    /\ \/ Send(Ans("catalog", 0, {})) /\ UNCHANGED <<cat, roots, tops, out, shapes>>
       \/ /\ Take("catalog", 0)
          /\ cat' = cver /\ reconcile_catalog(cver)
          /\ call' = NoCall /\ UNCHANGED <<out, shapes>>
       \/ response_payload("catalog", 0) /\ UNCHANGED <<cat, roots, tops>>
    /\ UNCHANGED <<sver, conn, cver, params, merkle, reg, used>>

-----------------------------------------------------------------------------
(* Proved roots.  The caller may hold roots of any version it has verified. *)

\* Refused unless the heights agree and the layout is that of the server info.
install_verified_database_roots(v, d) ==
    /\ Idle /\ cat # 0 /\ used.install < MaxInstall /\ Spend("install")
    /\ Height[v] = Height[cat] /\ d \in merkle
    /\ roots' = [roots EXCEPT ![d] = v] /\ tops' = tops \ {d}
    /\ UNCHANGED <<sver, conn, cver, cat, params, merkle, reg, call, inbox, out, shapes>>

clear_verified_database_roots ==
    /\ Idle /\ roots # NoRoots
    /\ roots' = NoRoots /\ tops' = {}
    /\ UNCHANGED <<sver, conn, cver, cat, params, merkle, reg, call, inbox, out, shapes, used>>

-----------------------------------------------------------------------------
(* A call: tree-tops of every step are checked, then the steps run.        *)

Step(plan, n, S) ==
    [stage |-> "keys", sent |-> FALSE, plan |-> plan, step |-> n, batch |-> S,
     round |-> 1, try |-> 1, idx |-> [s \in S |-> "absent"], good |-> [s \in S |-> TRUE],
     anchored |-> TRUE]

sync_with_plan(plan, S) ==
    /\ Idle /\ conn # "none" /\ cat # 0 /\ used.calls < MaxCalls /\ Spend("calls")
    /\ call' = [Step(plan, 1, S) EXCEPT !.stage = "preflight"]
    /\ out' = {}
    /\ UNCHANGED <<sver, conn, cver, session, inbox, shapes>>

Unchecked == {n \in 1..Len(call.plan) : roots[call.plan[n]] # 0 /\ call.plan[n] \notin tops}
Least(N) == CHOOSE n \in N : \A k \in N : n <= k

\* The tree-tops of a database with roots must hash to them.
preflight_trusted_tree_tops ==
    /\ call.stage = "preflight"
    /\ IF Unchecked = {} THEN To("keys") /\ UNCHANGED <<tops, inbox, cver, out, shapes>>
       ELSE LET d == call.plan[Least(Unchecked)] IN
         \/ d \notin merkle /\ Fail /\ UNCHANGED <<tops, inbox>>
         \/ d \in merkle /\ Send(Ans("itops", 0, {d})) /\ UNCHANGED <<tops, cver, out, shapes>>
         \/ /\ Take("itops", 0)
            /\ IF Got = {d} /\ roots[d] = cver
                 THEN tops' = tops \cup {d} /\ To("preflight") /\ UNCHANGED <<cver, out, shapes>>
                 ELSE Fail /\ UNCHANGED tops
         \/ response_payload("itops", 0) /\ UNCHANGED tops
    /\ UNCHANGED <<sver, conn, cat, params, merkle, roots, reg, used>>

Db == call.plan[call.step]

\* Registration, before the first round or after an eviction.
register_keys ==
    /\ call.stage \in {"keys", "index_keys", "chunk_keys"}
    /\ LET next == CASE call.stage = "index_keys" -> "index"
                     [] call.stage = "chunk_keys" -> "chunk"
                     [] OTHER -> "index" IN
       \/ call.stage = "keys" /\ Db \in reg /\ To(next) /\ UNCHANGED <<reg, inbox, cver, out, shapes>>
       \/ (call.stage # "keys" \/ Db \notin reg) /\ Send(Ans("ack", 0, {}))
            /\ UNCHANGED <<reg, cver, out, shapes>>
       \/ Take("ack", 0) /\ reg' = reg \cup {Db} /\ To(next) /\ UNCHANGED <<cver, out, shapes>>
       \/ response_payload("ack", 0) /\ UNCHANGED reg
    /\ UNCHANGED <<sver, conn, cat, params, merkle, roots, tops, used>>

Rank(s, S) == Cardinality({t \in S : Group[t] = Group[s] /\ t <= s})
Rounds(S) == CHOOSE n \in 0..Cardinality(S) :
               /\ \A s \in S : Rank(s, S) <= n
               /\ n > 0 => \E s \in S : Rank(s, S) = n
AtRank(S, r) == {s \in S : Rank(s, S) = r}
AtLeastOne(n) == IF n = 0 THEN 1 ELSE n

\* The server's answer to a batch, or the empty ciphertexts of a client it forgot.
Batch(kind, rows) ==
    \/ Send(Ans(kind, call.round, rows)) /\ UNCHANGED used
    \/ used.evict < MaxEvict /\ Spend("evict") /\ Send(Ans(kind, call.round, {Empty}))

KeysStage(kind) == IF kind = "index" THEN "index_keys" ELSE "chunk_keys"

\* Empty ciphertexts: register and try once more, then give up.
SessionEvicted(kind) ==
    /\ Take(kind, call.round) /\ Got = {Empty}
    /\ IF call.try = 1
         THEN call' = [call EXCEPT !.stage = KeysStage(kind), !.try = 2, !.sent = FALSE]
              /\ UNCHANGED <<cver, out, shapes>>
         ELSE Fail

\* What a bin decrypts to: the entry of s when the row asked for is in it.
Seen(rows, s) ==
    IF \E d \in Dbs : <<d, s>> \in rows
      THEN Status[cver][CHOOSE d \in Dbs : <<d, s>> \in rows][s] ELSE "absent"

\* One INDEX round; both bins of each script of the round are looked at.
query_index_level ==
    /\ call.stage = "index"
    /\ LET now == AtRank(call.batch, call.round) IN
       \/ Batch("index", {Db} \X now) /\ UNCHANGED <<cver, out, shapes>>
       \/ SessionEvicted("index") /\ UNCHANGED used
       \/ /\ Take("index", call.round) /\ Got # {Empty}
          /\ call' = [call EXCEPT
               !.idx = [s \in call.batch |-> IF s \in now THEN Seen(Got, s) ELSE @[s]],
               !.good = [s \in call.batch |-> @[s] /\ (s \in now => <<Db, s>> \in Got)],
               !.sent = FALSE, !.try = 1,
               !.round = IF @ = Rounds(call.batch) THEN 1 ELSE @ + 1,
               !.stage = IF call.round = Rounds(call.batch) THEN "chunk" ELSE "index"]
          /\ UNCHANGED <<cver, out, shapes, used>>
       \/ response_payload("index", call.round) /\ UNCHANGED used
    /\ UNCHANGED <<sver, conn, session>>

Found == {s \in call.batch : call.idx[s] = "found"}

\* A batch without entries still makes one CHUNK round, all dummies.
ChunkRounds(F) == AtLeastOne(Rounds(F))

query_chunk_level ==
    /\ call.stage = "chunk"
    /\ LET now == AtRank(Found, call.round)
           last == call.round >= ChunkRounds(Found) IN
       \/ ChunkRounds(Found) > 0 /\ Batch("chunk", {Db} \X now) /\ UNCHANGED <<cver, out, shapes>>
       \/ ChunkRounds(Found) = 0 /\ ~call.sent /\ To("decode") /\ UNCHANGED <<inbox, cver, out, shapes, used>>
       \/ SessionEvicted("chunk") /\ UNCHANGED used
       \/ /\ Take("chunk", call.round) /\ Got # {Empty}
          /\ call' = [call EXCEPT
               !.good = [s \in call.batch |-> @[s] /\ (s \in now => <<Db, s>> \in Got)],
               !.sent = FALSE, !.try = 1,
               !.round = IF last THEN 1 ELSE @ + 1,
               !.stage = IF last THEN "decode" ELSE "chunk"]
          /\ UNCHANGED <<cver, out, shapes, used>>
       \/ response_payload("chunk", call.round) /\ UNCHANGED used
    /\ UNCHANGED <<sver, conn, session>>

-----------------------------------------------------------------------------
(* Verification: INDEX tree first, then DATA, each after its tree-tops.    *)

TopsStage(kind) == IF kind = "i" THEN "itops" ELSE "dtops"
SibStage(kind) == IF kind = "i" THEN "isib" ELSE "dsib"
Leaves(kind) == IF kind = "i" THEN call.batch ELSE Found

\* Both bins of a script are in one group, one pass each.
Passes(kind) == AtLeastOne((IF kind = "i" THEN 2 ELSE 1) * Rounds(Leaves(kind)))

RowsOf(kind, p) ==
    IF kind = "i" THEN {<<Db, s, p % 2>> : s \in AtRank(Leaves(kind), (p + 1) \div 2)}
                  ELSE {<<Db, s, 2>> : s \in AtRank(Leaves(kind), p)}

\* The step's results: a verdict on each script, and the shape of its rounds.
Finish(good, verdict) ==
    /\ out' = out \cup {[db |-> Db, s |-> s, status |-> call.idx[s], ver |-> cver,
                         proved |-> IF verdict THEN (IF good[s] THEN "yes" ELSE "no") ELSE "unchecked"] :
                          s \in call.batch}
    /\ shapes' = IF ~call.anchored THEN shapes ELSE
                 shapes \cup {[batch |-> call.batch, found |-> Rounds(Found), merkle |-> verdict,
                               rounds |-> <<Rounds(call.batch), ChunkRounds(Found),
                                            IF verdict THEN Passes("i") ELSE 0,
                                            IF verdict THEN Passes("d") ELSE 0>>]}
    /\ call' = IF call.step = Len(call.plan) THEN NoCall
                 ELSE Step(call.plan, call.step + 1, call.batch)

\* Results of a database without Merkle metadata stay unchecked.
execute_step ==
    /\ call.stage = "decode"
    /\ IF Db \in merkle THEN To("itops") /\ UNCHANGED <<out, shapes>>
                        ELSE Finish(call.good, FALSE)
    /\ UNCHANGED <<sver, conn, cver, session, inbox, used>>

check_tree_top_anchor(d, body) == body = {d} /\ roots[d] \in {0, cver}

After(kind) == IF kind = "i" THEN "dtops" ELSE "done"

\* Tops that do not match fail every leaf; sibling rounds are then left out.
FetchTops(kind) ==
    /\ call.stage = TopsStage(kind)
    /\ \/ Send(Ans(TopsStage(kind), 0, {Db})) /\ UNCHANGED <<cver, out, shapes>>
       \/ /\ Take(TopsStage(kind), 0)
          /\ IF check_tree_top_anchor(Db, Got) THEN To(SibStage(kind))
               ELSE call' = [call EXCEPT !.stage = After(kind), !.sent = FALSE, !.anchored = FALSE,
                     !.good = [s \in call.batch |-> @[s] /\ s \notin Leaves(kind)]]
          /\ UNCHANGED <<cver, out, shapes>>
       \/ response_payload(TopsStage(kind), 0)
    /\ UNCHANGED <<sver, conn, session, used>>

\* One sibling pass; no retry, and an empty row for a real leaf is an error.
verify_sub_tree(kind) ==
    /\ call.stage = SibStage(kind)
    /\ LET rows == RowsOf(kind, call.round)
           done == call.round >= Passes(kind) IN
       \/ /\ ~call.sent /\ Passes(kind) = 0 /\ To(After(kind))
          /\ UNCHANGED <<inbox, used, cver, out, shapes>>
       \/ Passes(kind) > 0 /\ UNCHANGED <<cver, out, shapes>>
          /\ \/ Send(Ans(SibStage(kind), 0, rows)) /\ UNCHANGED used
             \/ used.evict < MaxEvict /\ Spend("evict") /\ Send(Ans(SibStage(kind), 0, {Empty}))
       \/ /\ Take(SibStage(kind), 0)
          /\ IF Got = {Empty} /\ rows # {} THEN Fail
             ELSE call' = [call EXCEPT
                    !.good = [s \in call.batch |-> @[s] /\ \A r \in rows : r[2] = s => r \in Got],
                    !.sent = FALSE, !.round = IF done THEN 1 ELSE @ + 1,
                    !.stage = IF done THEN After(kind) ELSE SibStage(kind)]
                  /\ UNCHANGED <<cver, out, shapes>>
          /\ UNCHANGED used
       \/ response_payload(SibStage(kind), 0) /\ UNCHANGED used
    /\ UNCHANGED <<sver, conn, session>>

\* A script passes when all its leaves did; absence included.
run_merkle_verification ==
    /\ call.stage = "done"
    /\ Finish(call.good, TRUE)
    /\ UNCHANGED <<sver, conn, cver, session, inbox, used>>

-----------------------------------------------------------------------------

Next ==
    \/ connect \/ connect_with_transport \/ disconnect \/ upgrade_to_secure_channel_with_seeds
    \/ Rotate \/ Lost \/ Abandon
    \/ fetch_catalog \/ fetch_server_info \/ try_fetch_dpf_catalog
    \/ \E v \in 1..MaxVer, d \in Dbs : install_verified_database_roots(v, d)
    \/ clear_verified_database_roots
    \/ \E plan \in Plans, S \in Batches : sync_with_plan(plan, S)
    \/ preflight_trusted_tree_tops \/ register_keys
    \/ query_index_level \/ query_chunk_level \/ execute_step
    \/ \E kind \in {"i", "d"} : FetchTops(kind) \/ verify_sub_tree(kind)
    \/ run_merkle_verification

Spec == Init /\ [][Next]_vars

-----------------------------------------------------------------------------
(* Properties.                                                             *)

TypeOK ==
    /\ sver \in 1..MaxVer /\ conn \in {"none", "up", "dead"} /\ cver \in 0..sver
    /\ cat \in 0..MaxVer /\ params \in 0..MaxVer /\ merkle \subseteq Dbs
    /\ roots \in [Dbs -> 0..MaxVer] /\ tops \subseteq Dbs /\ reg \subseteq Dbs
    /\ Len(inbox) <= MaxAbandon + 1

\* A result marked verified is what the version behind the connection holds:
\* not an answer left over from a call given up, nor another database's, and
\* never an eviction read as absence.
VerifiedIsTrue ==
    \A o \in out : o.proved = "yes" => o.status = Status[o.ver][o.db][o.s]

\* The rounds of a batch whose entries fit one CHUNK round are those of a
\* batch in which nothing was found.
FoundLooksAbsent ==
    \A x, y \in shapes :
      (x.batch = y.batch /\ x.merkle = y.merkle /\ x.found <= 1 /\ y.found <= 1) => x.rounds = y.rounds

\* Once a call asks about scripts, every database of its plan that has
\* proved roots serves the version the roots are of.
NoQueryUnderWrongRoots ==
    (~Idle /\ call.stage \notin {"info", "catalog", "preflight"}) =>
      \A n \in 1..Len(call.plan) : roots[call.plan[n]] \in {0, cver}

\* What a client that is connected holds came over that connection; a
\* database counts as checked only under roots that are the server's.
SessionBound ==
    conn # "none" =>
      /\ cat \in {0, cver} /\ params \in {0, cver}
      /\ \A d \in tops : roots[d] = cver
=============================================================================
