------------------------------ MODULE HintFetch ------------------------------
(***************************************************************************)
(* How a HarmonyPIR client gets its hints.  ensure_groups_ready restores   *)
(* them from the cache or streams them over one or two hint sockets: V2    *)
(* and V2-half from the server's pool of precomputed entries, V1 computed  *)
(* on request under the client's own key.  The server pairs the two halves *)
(* of a V2-half fetch by token in v2_half_pending, which a task expires.   *)
(*                                                                         *)
(* A socket is a FIFO of requests and one of records.  A hint record says  *)
(* which group it is for and not which database, level or key it belongs   *)
(* to; the model keeps that as `of'.  Levels differ in record size, the    *)
(* databases here do not.                                                  *)
(***************************************************************************)
EXTENDS Naturals, Sequences, FiniteSets

CONSTANTS Dbs,          \* databases; 0 is the one the pool serves
          OwnKeys,      \* PRP keys the client draws itself
          Entries,      \* pool entries, each named by the key it was made with
          K,            \* groups of a level
          Paired,       \* connect opens a second hint socket
          V2Modes,      \* settings of use_v2_protocol the caller uses
          MaxFetch,     \* bound: ensure_groups_ready calls that go to the wire
          None          \* absent

HintFetchAssumption ==
    /\ 0 \in Dbs /\ K \in Nat \ {0} /\ MaxFetch \in Nat
    /\ Paired \in BOOLEAN /\ V2Modes \subseteq BOOLEAN

VARIABLES conn,         \* conn[s]: socket slot s holds a transport
          inbox,        \* inbox[s]: requests the server has not taken yet
          wire,         \* wire[s]: records on their way to the client
          orphans,      \* requests left on closed sockets
          pool,         \* entries try_take can hand out
          pending,      \* v2_half_pending: token -> [entry, served]
          sent,         \* sent[e]: halves of entry e given out, in order
          key,          \* master_prp_key
          useV2,        \* use_v2_protocol
          hints,        \* hints[l][g]: what was loaded into the group
          loaded,       \* loaded_db_id
          cache,        \* cache files, each [db, key, hints]
          call,         \* the fetch in progress
          fetches       \* fetches so far; numbers the session tokens

server == <<pool, pending, sent>>
client == <<key, useV2, hints, loaded, cache>>
vars == <<conn, inbox, wire, orphans, server, client, call, fetches>>

Levels == {"index", "chunk"}
Socks == IF Paired THEN {"primary", "secondary"} ELSE {"primary"}
Groups == 1..K
PrpKeys == OwnKeys \cup Entries
NoHints == [l \in Levels |-> [g \in Groups |-> None]]
NoCall == [kind |-> None]

\* The hints of one group, as the server computes them.
Of(db, l, k) == [db |-> db, level |-> l, key |-> k]
HintRecord(g, of) == [t |-> "hint", g |-> g, of |-> of]
KeyRecord(k) == [t |-> "key", key |-> k]
Terminal == [t |-> "end"]
Refusal == [t |-> "error"]
PoolEmpty == [t |-> "empty"]
Stream(db, l, k) == [g \in Groups |-> HintRecord(g, Of(db, l, k))]

Init ==
    /\ conn = [s \in Socks |-> FALSE]
    /\ inbox = [s \in Socks |-> <<>>] /\ wire = [s \in Socks |-> <<>>] /\ orphans = {}
    /\ pool \in SUBSET Entries /\ pending = <<>> /\ sent = [e \in Entries |-> <<>>]
    /\ key \in OwnKeys /\ useV2 \in V2Modes
    /\ hints = NoHints /\ loaded = None /\ cache = {}
    /\ call = NoCall /\ fetches = 0

-----------------------------------------------------------------------------
(* Sockets.                                                                *)

\* Closing a socket loses its records; the server may still take a request
\* that had reached it.
Close(S) ==
    /\ conn' = [s \in Socks |-> conn[s] /\ s \notin S]
    /\ inbox' = [s \in Socks |-> IF s \in S THEN <<>> ELSE inbox[s]]
    /\ wire' = [s \in Socks |-> IF s \in S THEN <<>> ELSE wire[s]]
    /\ orphans' = orphans \cup {inbox[s][1] : s \in {q \in S : inbox[q] # <<>>}}

invalidate_groups == hints' = NoHints /\ loaded' = None

connect ==
    /\ call = NoCall /\ ~conn["primary"]
    /\ conn' = [s \in Socks |-> TRUE]
    /\ inbox' = [s \in Socks |-> <<>>] /\ wire' = [s \in Socks |-> <<>>]
    /\ orphans' = orphans \cup {inbox[s][1] : s \in {q \in Socks : inbox[q] # <<>>}}
    /\ invalidate_groups
    /\ UNCHANGED <<server, key, useV2, cache, call, fetches>>

disconnect ==
    /\ call = NoCall /\ conn["primary"]
    /\ Close(Socks) /\ invalidate_groups
    /\ UNCHANGED <<server, key, useV2, cache, call, fetches>>

-----------------------------------------------------------------------------
(* The server.                                                             *)

\* The records of an answer, put on the socket the request came from.
Answer(s, recs) ==
    /\ inbox[s] # <<>>
    /\ inbox' = [inbox EXCEPT ![s] = Tail(@)]
    /\ wire' = [wire EXCEPT ![s] = @ \o recs]
    /\ UNCHANGED <<conn, orphans, client, call, fetches>>

\* A send error ends the loop over the batches; the sentinel is still tried.
Sendings(recs) == {SubSeq(recs, 1, n) : n \in 0..Len(recs)}
                    \cup {Append(SubSeq(recs, 1, n), Terminal) : n \in 1..Len(recs) - 1}

ServeV1(s) ==
    /\ inbox[s] # <<>> /\ Head(inbox[s]).kind = "v1"
    /\ LET r == Head(inbox[s]) IN Answer(s, Stream(r.db, r.level, r.key))
    /\ UNCHANGED server

ServeV2(s) ==
    /\ inbox[s] # <<>> /\ Head(inbox[s]).kind = "v2"
    /\ IF pool = {}
         THEN Answer(s, <<PoolEmpty>>) /\ UNCHANGED server
         ELSE \E e \in pool :
                \E recs \in Sendings(<<KeyRecord(e)>> \o Stream(0, "index", e)
                                        \o Stream(0, "chunk", e) \o <<Terminal>>) :
                /\ Answer(s, recs)
                /\ pool' = pool \ {e}
                /\ sent' = [sent EXCEPT ![e] = @ \o <<"index", "chunk">>]
                /\ UNCHANGED pending

\* The pending entry of a token.
Lookup(token) == IF token \in DOMAIN pending THEN pending[token] ELSE [entry |-> None, served |-> {}]

\* The critical section over v2_half_pending: the entry of this token, or a
\* fresh one; the side is marked before anything is sent.
Claim(r, e) ==
    LET p == Lookup(r.token) IN
    /\ r.level \notin p.served
    /\ IF p.entry = None THEN e \in pool /\ pool' = pool \ {e} ELSE e = p.entry /\ UNCHANGED pool
    /\ pending' = IF p.served \cup {r.level} = Levels
                    THEN [t \in DOMAIN pending \ {r.token} |-> pending[t]]
                    ELSE [t \in DOMAIN pending \cup {r.token} |->
                             IF t = r.token THEN [entry |-> e, served |-> p.served \cup {r.level}]
                                            ELSE pending[t]]
    /\ sent' = [sent EXCEPT ![e] = Append(@, r.level)]

ServeHalf(s) ==
    /\ inbox[s] # <<>> /\ Head(inbox[s]).kind = "half"
    /\ LET r == Head(inbox[s]) IN
       \/ \E e \in Entries :
            /\ Claim(r, e)
            /\ \E recs \in Sendings(<<KeyRecord(e)>> \o Stream(0, r.level, e) \o <<Terminal>>) :
                    Answer(s, recs)
       \/ /\ Lookup(r.token).entry = None /\ pool = {}
          /\ Answer(s, <<PoolEmpty>>) /\ UNCHANGED server

\* Mode gates and malformed or unknown requests: one error record.
Refuse(s) == Answer(s, <<Refusal>>) /\ UNCHANGED server

\* The task of a closed socket takes the request it had read; what it sends
\* goes nowhere.
ServeOrphan ==
    \E r \in orphans :
        /\ orphans' = orphans \ {r}
        /\ \/ r.kind = "half" /\ (\E e \in Entries : Claim(r, e))
           \/ r.kind = "v2" /\ (\E e \in pool :
                 /\ pool' = pool \ {e} /\ UNCHANGED pending
                 /\ sent' = [sent EXCEPT ![e] = @ \o <<"index", "chunk">>])
           \/ UNCHANGED server
        /\ UNCHANGED <<conn, inbox, wire, client, call, fetches>>

\* The cleanup task drops a token older than V2_HALF_PENDING_TTL_SECS, with
\* its entry; a fetch may last longer than that.
Expire ==
    \E token \in DOMAIN pending :
        /\ pending' = [t \in DOMAIN pending \ {token} |-> pending[t]]
        /\ UNCHANGED <<conn, inbox, wire, orphans, pool, sent, client, call, fetches>>

\* The generator makes entries with fresh keys only.
Generate ==
    \E e \in Entries :
        /\ e \notin pool /\ sent[e] = <<>> /\ pool' = pool \cup {e}
        /\ UNCHANGED <<conn, inbox, wire, orphans, pending, sent, client, call, fetches>>

-----------------------------------------------------------------------------
(* The client.  call.todo[s] is what the fetch still has to read on socket *)
(* s; call.buf collects the hints; call.k[s] is the key of the preamble.   *)

Two == "secondary" \in Socks /\ conn["secondary"]
Kind(db) == CASE useV2 /\ db = 0 /\ Two -> "half"
              [] useV2 /\ db = 0 /\ ~Two -> "v2"
              [] Two /\ ~(useV2 /\ db = 0) -> "pair"
              [] OTHER -> "v1"

Todo(kind) ==
    [s \in Socks |->
        CASE kind = "half" -> IF s = "primary" THEN <<"key", "index", "end">> ELSE <<"key", "chunk", "end">>
          [] kind = "pair" -> IF s = "primary" THEN <<"index">> ELSE <<"chunk">>
          [] kind = "v2" -> IF s = "primary" THEN <<"key", "index", "chunk", "end">> ELSE <<>>
          [] OTHER -> IF s = "primary" THEN <<"index", "chunk">> ELSE <<>>]

Ask(kind, db, l) == [kind |-> kind, db |-> db, level |-> l, key |-> key, token |-> fetches]
Start(kind, db) ==
    /\ call' = [kind |-> kind, db |-> db, todo |-> Todo(kind), buf |-> NoHints,
                k |-> [s \in Socks |-> key], empty |-> {}]
    /\ inbox' = [s \in Socks |->
                    IF Todo(kind)[s] = <<>> THEN inbox[s]
                    ELSE Append(inbox[s], Ask(IF kind = "pair" THEN "v1" ELSE kind, db,
                                              IF s = "primary" THEN "index" ELSE "chunk"))]

\* The file name and the blob carry the fingerprint of key and database.
Restorable(f, db) == f.db = db /\ f.key = key

ensure_groups_ready(db) ==
    /\ call = NoCall /\ conn["primary"] /\ loaded # db
    /\ \/ \E f \in cache :
            /\ Restorable(f, db)
            /\ hints' = f.hints /\ loaded' = db
            /\ UNCHANGED <<conn, inbox, wire, orphans, server, key, useV2, cache, call, fetches>>
       \/ /\ ~\E f \in cache : Restorable(f, db)
          /\ fetches < MaxFetch /\ fetches' = fetches + 1
          /\ invalidate_groups
          /\ Start(Kind(db), db)
          /\ UNCHANGED <<conn, wire, orphans, server, key, useV2, cache>>

\* The checks on a record: its kind, a group in range and not seen yet, and
\* hints of the right size (load_hints).
Accepts(r, want) ==
    \/ r.t = "hint" /\ want = r.of.level /\ call.buf[want][r.g] = None
    \/ r.t = "key" /\ want = "key"
    \/ r.t = "end" /\ want = "end"

Reading(s) == call # NoCall /\ call.todo[s] # <<>> /\ wire[s] # <<>>
Step(s, buf, want) ==
    IF want \in Levels /\ \E g \in Groups : buf[want][g] = None THEN call.todo[s] ELSE Tail(call.todo[s])

\* One record of the stream, accepted.  V2 takes the key over at once.
Recv(s) ==
    /\ Reading(s)
    /\ LET r == Head(wire[s])
           want == Head(call.todo[s])
           buf == IF r.t = "hint" THEN [call.buf EXCEPT ![want][r.g] = r.of] ELSE call.buf
           todo == Step(s, buf, want)
       IN /\ Accepts(r, want)
          /\ call' = [call EXCEPT !.buf = buf, !.todo[s] = todo,
                                  !.k[s] = IF r.t = "key" THEN r.key ELSE @]
          /\ key' = IF r.t = "key" /\ call.kind = "v2" THEN r.key ELSE key
          /\ inbox' = IF call.kind = "v1" /\ want = "index" /\ todo = <<"chunk">>
                        THEN [inbox EXCEPT ![s] = Append(@, Ask("v1", call.db, "chunk"))] ELSE inbox
    /\ wire' = [wire EXCEPT ![s] = Tail(@)]
    /\ UNCHANGED <<conn, orphans, server, useV2, hints, loaded, cache, fetches>>

\* The exact pool-empty error in place of the preamble.
RecvEmpty(s) ==
    /\ Reading(s) /\ Head(wire[s]) = PoolEmpty /\ Head(call.todo[s]) = "key"
    /\ wire' = [wire EXCEPT ![s] = Tail(@)]
    /\ call' = [call EXCEPT !.todo[s] = <<>>, !.empty = @ \cup {s}]
    /\ UNCHANGED <<conn, inbox, orphans, server, client, fetches>>

Ready == call # NoCall /\ \A s \in Socks : call.todo[s] = <<>>
Lanes == {s \in Socks : Todo(call.kind)[s] # <<>>}

\* Every lane of a V2 fetch found the pool empty: V1 on the same sockets.
FallBack ==
    /\ Ready /\ call.kind \in {"half", "v2"} /\ call.empty = Lanes
    /\ Start(IF call.kind = "half" THEN "pair" ELSE "v1", call.db)
    /\ UNCHANGED <<conn, wire, orphans, server, client, fetches>>

\* Mutant of Agreed: the keys of the two halves are not compared.
AgreedUnchecked == call.empty = {}

\* The halves carry one key.
Agreed == call.empty = {} /\ \A s, t \in Lanes : call.k[s] = call.k[t]

Finish ==
    /\ Ready /\ Agreed
    /\ hints' = call.buf /\ loaded' = call.db /\ call' = NoCall
    /\ key' = call.k["primary"]
    /\ cache' \in {cache, cache \cup {[db |-> call.db, key |-> key', hints |-> call.buf]}}
    /\ UNCHANGED <<conn, inbox, wire, orphans, server, useV2, fetches>>

\* What a failed fetch leaves: V2 closes its sockets, the parallel paths drop
\* both, and V1 on one socket keeps socket and half-loaded groups.
OnError ==
    /\ loaded' = None
    /\ IF call.kind = "v1"
         THEN hints' = call.buf /\ UNCHANGED <<conn, inbox, wire, orphans>>
         ELSE Close(Lanes) /\ UNCHANGED hints

\* A record that does not fit, halves that disagree, a deadline or a dead
\* socket.
Fail ==
    /\ call # NoCall
    /\ OnError /\ call' = NoCall
    /\ UNCHANGED <<server, key, useV2, cache, fetches>>

set_master_key ==
    /\ call = NoCall
    /\ \E k \in OwnKeys \cup {f.key : f \in cache} : key' = k /\ k # key
    /\ invalidate_groups
    /\ UNCHANGED <<conn, inbox, wire, orphans, server, useV2, cache, call, fetches>>

set_use_v2_protocol ==
    /\ call = NoCall /\ (~useV2) \in V2Modes /\ useV2' = ~useV2
    /\ invalidate_groups
    /\ UNCHANGED <<conn, inbox, wire, orphans, server, key, cache, call, fetches>>

Next ==
    \/ connect \/ disconnect \/ (\E db \in Dbs : ensure_groups_ready(db))
    \/ (\E s \in Socks : ServeV1(s) \/ ServeV2(s) \/ ServeHalf(s) \/ Refuse(s) \/ Recv(s) \/ RecvEmpty(s))
    \/ ServeOrphan \/ Expire \/ Generate \/ FallBack \/ Finish \/ Fail
    \/ set_master_key \/ set_use_v2_protocol

Spec == Init /\ [][Next]_vars

-----------------------------------------------------------------------------
TypeOK ==
    /\ conn \in [Socks -> BOOLEAN] /\ pool \subseteq Entries /\ key \in PrpKeys
    /\ loaded \in Dbs \cup {None} /\ fetches \in 0..MaxFetch
    /\ \A t \in DOMAIN pending : pending[t].entry \in Entries /\ pending[t].served # {}

\* When ensure_groups_ready reports a database loaded, every group of both
\* levels holds hints of that database and level under the client's key: no
\* record of an abandoned stream, of another half or of a stale cache file.
HintsMatch ==
    loaded # None => \A l \in Levels, g \in Groups : hints[l][g] = Of(loaded, l, key)

\* The server gives out each half of a pool entry at most once, whatever
\* tokens expire, sockets fail or requests come late.
HalfGivenOnce ==
    \A e \in Entries : \A i, j \in 1..Len(sent[e]) : i # j => sent[e][i] # sent[e][j]

\* Between fetches a hint socket the client kept has no request or record of
\* an earlier fetch left on it.
CleanBoundary ==
    call = NoCall => \A s \in Socks : conn[s] => inbox[s] = <<>> /\ wire[s] = <<>>
=============================================================================
