--------------------------- MODULE ClientSession ---------------------------
(***************************************************************************)
(* One client handle of the browser SDK over its life: WasmDpfClient and   *)
(* WasmHarmonyClient over two servers, WasmOramClient over one, each       *)
(* around the SDK client of its backend.  The handle dials, attests the    *)
(* servers, seals its sockets with the ephemeral seeds it attested, reads  *)
(* the catalogue, verifies and installs a database proof, preflights the   *)
(* Merkle tree-tops, queries and syncs; the page also swaps the metrics    *)
(* recorder and the state listener.  Servers move to another revision of   *)
(* the database, and every dial, request and handshake may fail.           *)
(*                                                                         *)
(* An exported async method borrows the handle until its promise settles   *)
(* and wasm-bindgen refuses another call meanwhile, so `call` is the one   *)
(* method in flight and what it awaits.  A method whose awaits nothing     *)
(* else can tell apart is one step.  Refused calls that change nothing are *)
(* not steps, nor are the methods that only exchange a frame (announce,    *)
(* enableCredits, presentCredits, presentApiKey).                          *)
(*                                                                         *)
(* One database stands for all: roots and tree-tops are kept per db_id.    *)
(* A revision of it has a height, a layout (bins, anchor and the seeds     *)
(* derived from it) and may come with bucket Merkle trees; its Merkle root *)
(* is the revision itself.  Numbers from 1 name revisions, recorders,      *)
(* pools of sockets and seeds; 0 is none.                                  *)
(***************************************************************************)
EXTENDS Naturals, TLAPS

CONSTANTS Backends,     \* the kinds of handle explored
          Revs,         \* revisions the servers may serve
          DbOf,         \* what the catalogue says of a revision
          Recorders,    \* metrics recorders of the page
          MaxDials,     \* bound: pools of sockets dialled
          MaxSeeds,     \* bound: ephemeral seeds drawn
          MaxMoves,     \* bound: changes of the revision a server serves
          MaxOpen       \* bound: queries a recorder is left waiting for

Server == {0, 1}

ASSUME SessionAssumption ==
    /\ Backends \subseteq {"dpf", "harmony", "oram"}
    /\ Revs \subseteq Nat \ {0} /\ Recorders \subseteq Nat \ {0}
    /\ MaxDials \in Nat /\ MaxSeeds \in Nat /\ MaxMoves \in Nat /\ MaxOpen \in Nat
    /\ DbOf \in [Revs -> [height : Nat, layout : Nat, merkle : BOOLEAN]]

VARIABLES
    backend,    \* the kind of this handle
    conn,       \* conn0/conn1, hint_conn/query_conn: pool, seal and recorder of the socket
    secondary,  \* hint_conn_secondary/query_conn_secondary
    dials,      \* number of the last pool of sockets; 1 before the first dial
    seed,       \* attest_eph_seeds: the seed the attestation of a server was bound to
    drawn,      \* number of ephemeral seeds drawn
    spent,      \* seeds a handshake was started with
    catalog,    \* the cached catalogue: the pool it came over and its revision
    roots,      \* verified_roots: revision, catalogue they are bound to, pool
    tops,       \* verified_tree_tops: revision and pool
    hints,      \* the pool the HarmonyPIR hint groups in memory were loaded under
    proofs,     \* revisions the page holds verified proofs of
    recorder,   \* the metrics recorder installed on the client
    open,       \* queries a recorder saw start and not end
    shown,      \* what the state listener was last told
    call,       \* the call in flight and what it awaits
    answer,     \* the last answer reported verified, and the roots installed then
    served,     \* the revision each server serves
    moves       \* how often a server moved

sockets == <<conn, secondary, dials>>
seeds == <<seed, drawn, spent>>
bindings == <<catalog, roots, tops, hints>>
observers == <<recorder, open, shown>>
servers == <<served, moves>>
page == <<backend, proofs, answer>>
sessionVars == <<backend, conn, secondary, dials, seed, drawn, spent, catalog, roots, tops, hints,
                 proofs, recorder, open, shown, call, answer, served, moves>>

NoSeed == [id |-> 0, pool |-> 0, server |-> 0]
NoConn == [pool |-> 0, seal |-> NoSeed, rec |-> 0]
NoCatalog == [pool |-> 0, rev |-> 0]
NoRoots == [pool |-> 0, rev |-> 0, bound |-> 0]
NoTops == [pool |-> 0, rev |-> 0]
Idle == [op |-> "idle", at |-> "idle"]
At(op, at) == [op |-> op, at |-> at]

TwoServer == backend # "oram"
Pool == IF TwoServer THEN Server ELSE {0}
-----------------------------------------------------------------------------
(* The SDK clients. *)

SessionInit ==
    /\ backend \in Backends
    /\ conn = [s \in Server |-> NoConn] /\ secondary = [s \in Server |-> NoConn] /\ dials = 1
    /\ seed = [s \in Server |-> NoSeed] /\ drawn = 0 /\ spent = {}
    /\ catalog = NoCatalog /\ roots = NoRoots /\ tops = NoTops /\ hints = 0
    /\ proofs = {} /\ recorder = 0 /\ open = 0 /\ shown = "unheard"
    /\ call = Idle /\ answer = [rev |-> 0, roots |-> 0]
    /\ served \in [Server -> Revs] /\ moves = 0

is_connected == \A s \in Pool : conn[s].pool # 0

(* A client without a listener tells nobody. *)
notify_state(state) == shown' = IF shown = "unheard" THEN shown ELSE state

clear_verified_database_roots == roots' = NoRoots /\ tops' = NoTops

invalidate_groups == hints' = 0

invalidate_session_bindings ==
    catalog' = NoCatalog /\ clear_verified_database_roots /\ invalidate_groups

(* Closing a socket never fails for the client: its result is dropped. *)
close_transport_slots ==
    conn' = [s \in Server |-> NoConn] /\ secondary' = [s \in Server |-> NoConn]

(* A socket takes the recorder; SecureChannelTransport keeps the trait's   *)
(* default, which does nothing, and hides the socket below it.             *)
Told(c, r) == IF c.pool = 0 \/ c.seal.id # 0 THEN c ELSE [c EXCEPT !.rec = r]

set_metrics_recorder(r) ==
    /\ recorder' = r
    /\ conn' = [s \in Server |-> Told(conn[s], r)]
    /\ secondary' = [s \in Server |-> Told(secondary[s], r)]

(* Fresh sockets of the next pool, told of the recorder; HarmonyClient     *)
(* dials two per server.                                                   *)
Fresh == [pool |-> dials + 1, seal |-> NoSeed, rec |-> recorder]
pool_dialled ==
    /\ dials' = dials + 1
    /\ conn' = [s \in Server |-> IF s \in Pool THEN Fresh ELSE NoConn]
    /\ secondary' = [s \in Server |-> IF backend = "harmony" THEN Fresh ELSE NoConn]

(* Mutant of connect_begins: the bindings of the old sockets are kept. *)
connect_keeps_bindings ==
    /\ ~is_connected
    /\ close_transport_slots /\ UNCHANGED bindings /\ notify_state("connecting")

(* Whatever is left of an earlier pool goes first. *)
connect_begins ==
    /\ ~is_connected
    /\ close_transport_slots /\ invalidate_session_bindings /\ notify_state("connecting")

disconnect ==
    close_transport_slots /\ invalidate_session_bindings /\ notify_state("disconnected")

(* Roots survive a catalogue only if it says what the bound one said. *)
reconcile_catalog(rev) ==
    roots' = IF /\ roots.rev # 0 /\ DbOf[roots.bound] = DbOf[rev]
                /\ DbOf[roots.rev].height = DbOf[rev].height
             THEN [roots EXCEPT !.bound = rev] ELSE NoRoots

fetch_catalog(rev) ==
    /\ reconcile_catalog(rev)
    /\ tops' = IF roots'.rev = 0 THEN NoTops ELSE tops
    /\ catalog' = [pool |-> dials, rev |-> rev]

(* OramClient only replaces its catalogue. *)
oram_fetch_catalog(rev) ==
    catalog' = [pool |-> dials, rev |-> rev] /\ UNCHANGED <<roots, tops>>

(* The heights of the roots are compared with the catalogue's. *)
install_verified_database_roots(rev) ==
    /\ catalog.rev # 0 /\ DbOf[rev].height = DbOf[catalog.rev].height
    /\ roots' = [pool |-> dials, rev |-> rev, bound |-> catalog.rev]
    /\ tops' = NoTops

(* The proof must be of the catalogue's block and table sizes. *)
verify_catalog_anchor(rev) == DbOf[rev].height = DbOf[catalog.rev].height
ProofMatches(rev) ==
    verify_catalog_anchor(rev) /\ DbOf[rev].layout = DbOf[catalog.rev].layout

(* DpfClient reads the tree-tops from its first server, HarmonyClient from *)
(* its query server.                                                       *)
TopsServer == IF backend = "harmony" THEN 1 ELSE 0

(* The two ways through the preflight of a query, and its refusal. *)
tops_at_hand ==
    (roots.rev # 0 => DbOf[catalog.rev].merkle /\ tops.rev # 0) /\ UNCHANGED tops
tops_fetched ==
    /\ roots.rev # 0 /\ DbOf[catalog.rev].merkle /\ tops.rev = 0
    /\ served[TopsServer] = roots.rev
    /\ tops' = [pool |-> dials, rev |-> roots.rev]
tops_refused ==
    roots.rev # 0 /\ (DbOf[catalog.rev].merkle => tops.rev = 0) /\ UNCHANGED tops

fire_query_start == open' = IF recorder = 0 THEN open ELSE open + 1
fire_query_end == open' = IF recorder = 0 THEN open ELSE open - 1

(* The tree-tops an answer is checked against; without proof-checked ones  *)
(* the server's own.                                                       *)
tree_tops_for == IF tops.rev # 0 THEN tops.rev ELSE served[TopsServer]

ensure_groups_ready == hints' = IF hints = 0 THEN dials ELSE hints

(* The two handshakes, one after the other; a failed one drops both        *)
(* sockets.                                                                *)
upgrade_to_secure_channel_with_seeds(ok) ==
    IF ~is_connected THEN UNCHANGED <<conn, spent>> ELSE
    /\ conn' = [s \in Server |-> IF ok = Server THEN [conn[s] EXCEPT !.seal = seed[s]] ELSE NoConn]
    /\ spent' = spent \cup {seed[s].id : s \in IF 0 \in ok THEN Server ELSE {0}}

harmony_upgrade_with_seeds(ok) ==
    /\ upgrade_to_secure_channel_with_seeds(ok)
    /\ secondary' = IF is_connected /\ ok = Server THEN [s \in Server |-> NoConn] ELSE secondary
-----------------------------------------------------------------------------
(* WasmDpfClient and WasmHarmonyClient. *)

Connect ==
    /\ TwoServer /\ call = Idle /\ dials < MaxDials
    /\ connect_begins
    /\ call' = At("connect", "dial")
    /\ UNCHANGED <<dials, seeds, page, recorder, open, servers>>

DialEnds ==
    /\ TwoServer /\ call.at = "dial"
    /\ \/ /\ pool_dialled /\ notify_state("connected")
          /\ call' = IF call.op = "sync" THEN At("sync", "catalog") ELSE Idle
       \/ /\ notify_state("disconnected") /\ call' = Idle
          /\ UNCHANGED sockets
    /\ UNCHANGED <<seeds, bindings, page, recorder, open, servers>>

Disconnect ==
    /\ TwoServer /\ call = Idle
    /\ seed' = [s \in Server |-> NoSeed]
    /\ disconnect
    /\ UNCHANGED <<dials, drawn, spent, page, recorder, open, call, servers>>

(* The old seed goes first; the new one is kept if the server answered. *)
Attest(s) ==
    /\ TwoServer /\ call = Idle /\ drawn < MaxSeeds
    /\ drawn' = drawn + 1
    /\ \E ok \in BOOLEAN :
          /\ ok => conn[s].pool # 0
          /\ seed' = [seed EXCEPT ![s] = IF ok THEN [id |-> drawn + 1, pool |-> dials, server |-> s]
                                         ELSE NoSeed]
    /\ UNCHANGED <<sockets, spent, bindings, page, observers, call, servers>>

(* The seeds are taken in order; one that is missing ends the call. *)
TakeSeeds ==
    /\ seed[0].id # 0
    /\ seed' = [s \in Server |-> NoSeed]

UpgradeRefused ==
    /\ TwoServer /\ call = Idle
    /\ TakeSeeds /\ seed[1].id = 0
    /\ UNCHANGED <<sockets, drawn, spent, bindings, page, observers, call, servers>>

DpfUpgrade ==
    /\ backend = "dpf" /\ call = Idle
    /\ TakeSeeds /\ seed[1].id # 0
    /\ \E ok \in SUBSET Server : upgrade_to_secure_channel_with_seeds(ok)
    /\ UNCHANGED <<secondary, dials, drawn, bindings, page, observers, call, servers>>

HarmonyUpgrade ==
    /\ backend = "harmony" /\ call = Idle
    /\ TakeSeeds /\ seed[1].id # 0
    /\ \E ok \in SUBSET Server : harmony_upgrade_with_seeds(ok)
    /\ UNCHANGED <<dials, drawn, bindings, page, observers, call, servers>>

FetchCatalog ==
    /\ call = Idle /\ is_connected
    /\ call' = At("fetchCatalog", "catalog")
    /\ UNCHANGED <<sockets, seeds, bindings, page, observers, servers>>

(* The catalogue comes from the first server; an ORAM client keeps its     *)
(* roots whatever it says.                                                 *)
CatalogEnds ==
    /\ call.at = "catalog"
    /\ \/ /\ IF TwoServer THEN fetch_catalog(served[0]) ELSE oram_fetch_catalog(served[0])
          /\ call' = CASE call.op = "verify" -> At("verify", "proof")
                       [] call.op = "sync" -> At("sync", "tops")
                       [] OTHER -> Idle
       \/ call' = Idle /\ UNCHANGED <<catalog, roots, tops>>
    /\ UNCHANGED <<sockets, seeds, hints, page, observers, servers>>

VerifyDatabaseProof ==
    /\ call = Idle /\ is_connected
    /\ call' = At("verify", IF catalog.rev = 0 THEN "catalog" ELSE "proof")
    /\ UNCHANGED <<sockets, seeds, bindings, page, observers, servers>>

(* A proof that matches the catalogue may still be refused by the policy.  *)
(* The page holds as many proofs of a revision as it asks for.             *)
ProofEnds ==
    /\ call.at = "proof"
    /\ \/ ProofMatches(served[0]) /\ proofs' = proofs \cup {served[0]}
       \/ UNCHANGED proofs
    /\ call' = Idle
    /\ UNCHANGED <<sockets, seeds, bindings, backend, answer, observers, servers>>

InstallVerifiedDatabaseProof(rev) ==
    /\ call = Idle /\ rev \in proofs
    /\ install_verified_database_roots(rev)
    /\ UNCHANGED <<sockets, seeds, catalog, hints, page, observers, call, servers>>

(* Roots are only installed against a cached catalogue, so the preflight   *)
(* never has to fetch one.                                                 *)
PreflightDatabase ==
    /\ TwoServer /\ call = Idle /\ roots.rev # 0 /\ is_connected
    /\ call' = At("preflight", "tops")
    /\ UNCHANGED <<sockets, seeds, bindings, page, observers, servers>>

QueryBatch ==
    /\ TwoServer /\ call = Idle /\ is_connected /\ catalog.rev # 0
    /\ call' = At("query", "tops")
    /\ UNCHANGED <<sockets, seeds, bindings, page, observers, servers>>

QueryBatchVerified ==
    /\ TwoServer /\ call = Idle /\ is_connected /\ catalog.rev # 0
    /\ call' = At("inspect", "tops")
    /\ UNCHANGED <<sockets, seeds, bindings, page, observers, servers>>

(* A sync dials when it has to. *)
Sync ==
    /\ TwoServer /\ call = Idle
    /\ \/ /\ dials < MaxDials
          /\ connect_begins
          /\ call' = At("sync", "dial")
       \/ /\ is_connected
          /\ call' = At("sync", IF catalog.rev = 0 THEN "catalog" ELSE "tops")
          /\ UNCHANGED <<conn, secondary, bindings, shown>>
    /\ UNCHANGED <<dials, seeds, page, recorder, open, servers>>

TopsEnd ==
    /\ call.at = "tops"
    /\ \/ /\ tops_at_hand \/ tops_fetched
          /\ IF call.op = "query" THEN fire_query_start ELSE UNCHANGED open
          /\ call' = IF call.op = "preflight" THEN Idle ELSE At(call.op, "run")
       \/ /\ tops_refused \/ (call.op = "sync" /\ UNCHANGED tops)
          /\ call' = Idle
          /\ UNCHANGED open
    /\ UNCHANGED <<sockets, seeds, catalog, roots, hints, page, recorder, shown, servers>>

(* The answers are of some server's revision or of none (0).  They are     *)
(* reported verified when they fit the tree-tops.                          *)
RunEnds ==
    /\ call.at = "run" /\ call' = Idle
    /\ IF call.op = "query" THEN fire_query_end ELSE UNCHANGED open
    /\ (backend = "harmony" /\ ensure_groups_ready) \/ UNCHANGED hints
    /\ \E rev \in {0, served[0], served[1]} :
          answer' = IF TwoServer /\ roots.rev # 0 /\ rev = tree_tops_for
                    THEN [rev |-> rev, roots |-> roots.rev] ELSE answer
    /\ UNCHANGED <<sockets, seeds, catalog, roots, tops, backend, proofs, recorder, shown, servers>>

SetMetricsRecorder(r) ==
    /\ call = Idle
    /\ set_metrics_recorder(r)
    /\ UNCHANGED <<dials, seeds, bindings, page, open, shown, call, servers>>

OnStateChange ==
    /\ TwoServer /\ call = Idle
    /\ shown' = "fresh"
    /\ UNCHANGED <<sockets, seeds, bindings, page, recorder, open, call, servers>>
-----------------------------------------------------------------------------
(* WasmHarmonyClient alone: the hint state. *)

FetchHints ==
    /\ backend = "harmony" /\ call = Idle /\ conn[0].pool # 0
    /\ ensure_groups_ready
    /\ UNCHANGED <<sockets, seeds, catalog, roots, tops, page, observers, call, servers>>

(* A blob of a page's cache, restored with or without a connection; one    *)
(* that fails half-way leaves no groups.                                   *)
LoadHints ==
    /\ backend = "harmony" /\ call = Idle
    /\ hints' = 0 \/ hints' = dials
    /\ UNCHANGED <<sockets, seeds, catalog, roots, tops, page, observers, call, servers>>

SetMasterKey ==
    /\ backend = "harmony" /\ call = Idle
    /\ invalidate_groups
    /\ UNCHANGED <<sockets, seeds, catalog, roots, tops, page, observers, call, servers>>
-----------------------------------------------------------------------------
(* WasmOramClient: one server, no listener, no tree-tops, no hints. *)

(* The dial replaces the socket whether or not there is one. *)
OramConnect ==
    /\ ~TwoServer /\ call = Idle /\ dials < MaxDials
    /\ call' = At("connect", "dial")
    /\ UNCHANGED <<sockets, seeds, bindings, page, observers, servers>>

OramDialEnds ==
    /\ ~TwoServer /\ call.at = "dial" /\ call' = Idle
    /\ pool_dialled \/ UNCHANGED sockets
    /\ UNCHANGED <<seeds, bindings, page, observers, servers>>

OramDisconnect ==
    /\ ~TwoServer /\ call = Idle
    /\ conn' = [s \in Server |-> NoConn]
    /\ catalog' = NoCatalog /\ roots' = NoRoots
    /\ UNCHANGED <<secondary, dials, seeds, tops, hints, page, observers, call, servers>>

(* The old seed stays until the server has answered. *)
OramAttest ==
    /\ ~TwoServer /\ call = Idle /\ drawn < MaxSeeds
    /\ drawn' = drawn + 1
    /\ \/ /\ is_connected
          /\ seed' = [seed EXCEPT ![0] = [id |-> drawn + 1, pool |-> dials, server |-> 0]]
       \/ UNCHANGED seed
    /\ UNCHANGED <<sockets, spent, bindings, page, observers, call, servers>>

(* The seed is dropped once the handshake has gone through. *)
OramUpgrade ==
    /\ ~TwoServer /\ call = Idle /\ seed[0].id # 0 /\ is_connected
    /\ \/ /\ conn' = [conn EXCEPT ![0].seal = seed[0]]
          /\ seed' = [seed EXCEPT ![0] = NoSeed]
       \/ /\ conn' = [conn EXCEPT ![0] = NoConn]
          /\ UNCHANGED seed
    /\ spent' = spent \cup {seed[0].id}
    /\ UNCHANGED <<secondary, dials, drawn, bindings, page, observers, call, servers>>

OramQueryBatch ==
    /\ ~TwoServer /\ call = Idle /\ is_connected
    /\ fire_query_start
    /\ call' = At("query", "run")
    /\ UNCHANGED <<sockets, seeds, bindings, page, recorder, shown, servers>>

(* More padded slots than a request may hold: the recorder has been told   *)
(* of the start and is told of no end.                                     *)
OramQueryBatchPaddedRefused ==
    /\ ~TwoServer /\ call = Idle /\ recorder # 0 /\ open < MaxOpen
    /\ fire_query_start
    /\ UNCHANGED <<sockets, seeds, bindings, page, recorder, shown, call, servers>>
-----------------------------------------------------------------------------
ServerMoves(s) ==
    /\ moves < MaxMoves /\ moves' = moves + 1
    /\ \E rev \in Revs \ {served[s]} : served' = [served EXCEPT ![s] = rev]
    /\ UNCHANGED <<sockets, seeds, bindings, page, observers, call>>

SessionNext ==
    \/ Connect \/ DialEnds \/ Disconnect
    \/ (\E s \in Server : Attest(s)) \/ UpgradeRefused \/ DpfUpgrade \/ HarmonyUpgrade
    \/ FetchCatalog \/ CatalogEnds \/ VerifyDatabaseProof \/ ProofEnds
    \/ (\E rev \in Revs : InstallVerifiedDatabaseProof(rev)) \/ PreflightDatabase
    \/ QueryBatch \/ QueryBatchVerified \/ Sync \/ TopsEnd \/ RunEnds
    \/ (\E r \in Recorders \cup {0} : SetMetricsRecorder(r)) \/ OnStateChange
    \/ FetchHints \/ LoadHints \/ SetMasterKey
    \/ OramConnect \/ OramDialEnds \/ OramDisconnect \/ OramAttest \/ OramUpgrade
    \/ OramQueryBatch \/ OramQueryBatchPaddedRefused
    \/ (\E s \in Server : ServerMoves(s))

SessionSpec == SessionInit /\ [][SessionNext]_sessionVars
-----------------------------------------------------------------------------
SeedOf == [id : Nat, pool : Nat, server : Server]
ConnOf == [pool : Nat, seal : SeedOf, rec : Recorders \cup {0}]
Calls == {At("connect", "dial"), At("fetchCatalog", "catalog"), At("verify", "catalog"),
          At("verify", "proof"), At("preflight", "tops"), At("query", "tops"), At("query", "run"),
          At("inspect", "tops"), At("inspect", "run"), At("sync", "dial"), At("sync", "catalog"),
          At("sync", "tops"), At("sync", "run")}

SessionTypeOK ==
    /\ backend \in Backends
    /\ conn \in [Server -> ConnOf] /\ secondary \in [Server -> ConnOf] /\ dials \in Nat
    /\ seed \in [Server -> SeedOf] /\ drawn \in Nat /\ spent \subseteq Nat
    /\ catalog \in [pool : Nat, rev : Revs \cup {0}]
    /\ roots \in [pool : Nat, rev : Revs \cup {0}, bound : Revs \cup {0}]
    /\ tops \in [pool : Nat, rev : Revs \cup {0}]
    /\ hints \in Nat
    /\ proofs \subseteq Revs /\ recorder \in Recorders \cup {0} /\ open \in Nat
    /\ shown \in {"unheard", "fresh", "connecting", "connected", "disconnected"}
    /\ call \in Calls \cup {Idle}
    /\ answer \in [rev : Revs \cup {0}, roots : Revs \cup {0}]
    /\ served \in [Server -> Revs] /\ moves \in Nat

(* A seed a two-server handle holds was attested over the sockets it has   *)
(* now, and no handshake has used it: dropping the sockets drops the seeds. *)
SeedsBound ==
    TwoServer => \A s \in Server : seed[s].id # 0 =>
        /\ is_connected /\ seed[s].pool = dials /\ seed[s].server = s
        /\ seed[s].id \notin spent

(* A sealed socket's ephemeral key is the one its own server attested over *)
(* this same pool of sockets, and no two sockets share one.                *)
SealsAttested ==
    /\ TwoServer => \A s \in Server : conn[s].seal.id # 0 =>
          conn[s].seal.pool = conn[s].pool /\ conn[s].seal.server = s
    /\ conn[0].seal.id # 0 => conn[0].seal.id # conn[1].seal.id

(* Once the sockets of a pool are sealed none of the handle's sockets is   *)
(* left in the clear: both primaries are, and HarmonyPIR's secondaries are *)
(* gone.                                                                   *)
NoneInTheClear ==
    (\E s \in Server : conn[s].seal.id # 0) =>
        \A s \in Server : /\ s \in Pool => conn[s].seal.id # 0
                          /\ secondary[s].pool = 0

(* What a connected two-server handle trusts about the database came over  *)
(* the sockets it has now, none of it over an earlier pool.                *)
BindingsOfPool ==
    TwoServer =>
        /\ \A s \in Server : conn[s].pool # 0 => conn[s].pool = dials
        /\ catalog.rev # 0 => catalog.pool = dials
        /\ roots.rev # 0 => roots.pool = dials
        /\ tops.rev # 0 => tops.pool = dials
        /\ hints # 0 => hints = dials

(* Installed roots fit the cached catalogue, and the tree-tops kept are    *)
(* those of the installed roots.                                           *)
TopsOfRoots ==
    TwoServer =>
        /\ roots.rev # 0 => /\ catalog.rev # 0 /\ DbOf[roots.bound] = DbOf[catalog.rev]
                            /\ DbOf[roots.rev].height = DbOf[catalog.rev].height
        /\ tops.rev # 0 => tops.rev = roots.rev

(* An answer reported verified while roots were installed is an answer of  *)
(* the revision of those roots, whatever the servers moved to since.       *)
VerifiedUnderRoots == answer.rev = answer.roots

(* A socket in the clear reports to the recorder the client has now; a     *)
(* query that has been told to a recorder is told to have ended.           *)
RecorderInformed ==
    /\ \A s \in Server : /\ conn[s].pool # 0 /\ conn[s].seal.id = 0 => conn[s].rec = recorder
                         /\ secondary[s].pool # 0 => secondary[s].rec = recorder
    /\ TwoServer /\ call.at # "run" => open = 0

(* The listener of a handle that is connected and idle was last told so.   *)
ListenerTold ==
    TwoServer /\ is_connected /\ call = Idle => shown \in {"unheard", "fresh", "connected"}

(* What a handle of each backend promises over dials, attestations, sealed *)
(* upgrades, failed calls and servers that move to another database: its   *)
(* seeds and seals belong to its present sockets, none of them is left in  *)
(* the clear beside a sealed one, what it trusts came over them, a         *)
(* verified answer is of the proved revision, and recorder and listener    *)
(* know what goes on.                                                      *)
SessionSafe ==
    /\ SessionTypeOK /\ SeedsBound /\ SealsAttested /\ NoneInTheClear /\ BindingsOfPool
    /\ TopsOfRoots /\ VerifiedUnderRoots /\ RecorderInformed /\ ListenerTold

(* What the clients' documentation of set_metrics_recorder says: a recorder *)
(* installed or removed while the client is connected reaches its sockets  *)
(* at once.  It does not reach a socket that has been sealed.              *)
RecorderFollows ==
    \A s \in Server : conn[s].pool # 0 => conn[s].rec = recorder

-----------------------------------------------------------------------------
(* SessionSafe for every set of revisions, recorders and bounds.           *)

(* The sockets of a handle stand or fall together, and are sealed          *)
(* together, by seeds that differ.                                         *)
SocketsTogether ==
    /\ TwoServer => /\ conn[0].pool \in {0, dials} /\ conn[1].pool = conn[0].pool
                    /\ conn[0].seal.id = 0 <=> conn[1].seal.id = 0
    /\ ~TwoServer => conn[1] = NoConn
    /\ backend # "harmony" => secondary[0] = NoConn /\ secondary[1] = NoConn
    /\ \A s \in Server : /\ conn[s].pool = 0 => conn[s].seal.id = 0
                         /\ secondary[s].seal.id = 0
                         /\ conn[0].seal.id # 0 => secondary[s].pool = 0
    /\ SealsAttested

(* Seeds are numbered as they are drawn and used at most once. *)
SeedsCounted ==
    /\ \A s \in Server : seed[s].id \in 0 .. drawn
    /\ \A n \in spent : n \in 1 .. drawn
    /\ TwoServer /\ seed[0].id # 0 => seed[0].id # seed[1].id
    /\ SeedsBound

(* Bindings belong to the pool and to each other. *)
BindingsKept ==
    /\ BindingsOfPool /\ TopsOfRoots
    /\ roots.rev # 0 => roots.bound # 0

(* Where a call can be, given what the handle holds. *)
CallPlaced ==
    /\ TwoServer /\ call.at = "dial" =>
          /\ conn[0].pool = 0 /\ shown \in {"unheard", "connecting"}
          /\ catalog.rev = 0 /\ roots.rev = 0 /\ tops.rev = 0 /\ hints = 0
    /\ call.at \notin {"idle", "dial"} => conn[0].pool # 0
    /\ call.at \in {"tops", "proof"} => catalog.rev # 0
    /\ TwoServer /\ call.at = "run" /\ roots.rev # 0 => tops.rev # 0
    /\ TwoServer /\ conn[0].pool # 0 => shown \in {"unheard", "fresh", "connected"}
    /\ call.at = "tops" \/ call.op = "sync" => TwoServer

RecordersTold ==
    /\ \A s \in Server : /\ conn[s].pool # 0 /\ conn[s].seal.id = 0 => conn[s].rec = recorder
                         /\ secondary[s].pool # 0 => secondary[s].rec = recorder
    /\ TwoServer => open = IF call = At("query", "run") /\ recorder # 0 THEN 1 ELSE 0
    /\ ~TwoServer => open >= IF call = At("query", "run") /\ recorder # 0 THEN 1 ELSE 0

(* The inductive invariant. *)
SessionInv ==
    /\ SessionTypeOK /\ SocketsTogether /\ SeedsCounted /\ BindingsKept /\ CallPlaced
    /\ RecordersTold /\ VerifiedUnderRoots

(* Each part of the invariant looks at a few variables. *)
LEMMA SocketsFrame ==
    ASSUME SocketsTogether, UNCHANGED <<backend, conn, secondary, dials>>
    PROVE  SocketsTogether'
BY DEF SocketsTogether, SealsAttested, TwoServer

LEMMA SeedsFrame ==
    ASSUME SeedsCounted, UNCHANGED <<backend, conn, dials, seed, drawn, spent>>
    PROVE  SeedsCounted'
BY DEF SeedsCounted, SeedsBound, is_connected, Pool, TwoServer

LEMMA BindingsFrame ==
    ASSUME BindingsKept, UNCHANGED <<backend, conn, dials, catalog, roots, tops, hints>>
    PROVE  BindingsKept'
BY DEF BindingsKept, BindingsOfPool, TopsOfRoots, TwoServer

LEMMA CallFrame ==
    ASSUME CallPlaced, UNCHANGED <<backend, call, conn, shown, catalog, roots, tops, hints>>
    PROVE  CallPlaced'
BY DEF CallPlaced, TwoServer

LEMMA RecordersFrame ==
    ASSUME RecordersTold, UNCHANGED <<backend, conn, secondary, recorder, open, call>>
    PROVE  RecordersTold'
BY DEF RecordersTold, TwoServer

LEMMA AnswerFrame ==
    ASSUME VerifiedUnderRoots, UNCHANGED <<answer>>
    PROVE  VerifiedUnderRoots'
BY DEF VerifiedUnderRoots

USE SessionAssumption DEF SeedOf, ConnOf, Calls, Server, TwoServer, At, Idle, NoSeed, NoConn, NoCatalog, NoRoots, NoTops
USE DEF sockets, seeds, bindings, observers, servers, page

(* Connect drops what is left of an old pool and its bindings. *)
LEMMA ConnectStep ==
    ASSUME SessionTypeOK, SocketsTogether, SeedsCounted, BindingsKept, CallPlaced, RecordersTold,
           VerifiedUnderRoots, Connect
    PROVE  SessionInv'
<1> USE DEF Connect, connect_begins, close_transport_slots, invalidate_session_bindings,
      clear_verified_database_roots, invalidate_groups, notify_state, is_connected, Pool
<1>1. UNCHANGED <<answer>>
  OBVIOUS
<1>2. VerifiedUnderRoots'
  BY <1>1, AnswerFrame, ZenonT(30)
<1>3. SessionTypeOK'
  BY DEF SessionTypeOK
<1>4. SocketsTogether'
  BY DEF SocketsTogether, SealsAttested
<1>5. SeedsCounted'
  BY DEF SeedsCounted, SeedsBound
<1>6. BindingsKept'
  BY DEF BindingsKept, BindingsOfPool, TopsOfRoots
<1>7. CallPlaced'
  BY DEF CallPlaced
<1>8. RecordersTold'
  BY DEF RecordersTold
<1> QED BY <1>2, <1>3, <1>4, <1>5, <1>6, <1>7, <1>8, ZenonT(30) DEF SessionInv

(* A dial gives a whole new pool or nothing. *)
LEMMA DialEndsStep ==
    ASSUME SessionTypeOK, SocketsTogether, SeedsCounted, BindingsKept, CallPlaced, RecordersTold,
           VerifiedUnderRoots, DialEnds
    PROVE  SessionInv'
<1> USE DEF DialEnds, pool_dialled, Fresh, notify_state, Pool
<1>1. UNCHANGED <<answer>>
  OBVIOUS
<1>2. VerifiedUnderRoots'
  BY <1>1, AnswerFrame, ZenonT(30)
<1>3. SessionTypeOK'
  BY DEF SessionTypeOK
<1>4. SocketsTogether'
  BY DEF SocketsTogether, SealsAttested
<1>5. SeedsCounted'
  BY DEF SeedsCounted, SeedsBound, is_connected, CallPlaced
<1>6. BindingsKept'
  BY DEF BindingsKept, BindingsOfPool, TopsOfRoots, CallPlaced
<1>7. CallPlaced'
  BY DEF SessionTypeOK, CallPlaced
<1>8. RecordersTold'
  BY DEF RecordersTold
<1> QED BY <1>2, <1>3, <1>4, <1>5, <1>6, <1>7, <1>8, ZenonT(30) DEF SessionInv

(* Disconnect clears the seeds with the sockets. *)
LEMMA DisconnectStep ==
    ASSUME SessionTypeOK, SocketsTogether, SeedsCounted, BindingsKept, CallPlaced, RecordersTold,
           VerifiedUnderRoots, Disconnect
    PROVE  SessionInv'
<1> USE DEF Disconnect, disconnect, close_transport_slots, invalidate_session_bindings,
      clear_verified_database_roots, invalidate_groups, notify_state
<1>1. UNCHANGED <<answer>>
  OBVIOUS
<1>2. VerifiedUnderRoots'
  BY <1>1, AnswerFrame, ZenonT(30)
<1>3. SessionTypeOK'
  BY DEF SessionTypeOK
<1>4. SocketsTogether'
  BY DEF SocketsTogether, SealsAttested
<1>5. SeedsCounted'
  BY DEF SessionTypeOK, SeedsCounted, SeedsBound
<1>6. BindingsKept'
  BY DEF BindingsKept, BindingsOfPool, TopsOfRoots
<1>7. CallPlaced'
  BY DEF CallPlaced
<1>8. RecordersTold'
  BY DEF RecordersTold
<1> QED BY <1>2, <1>3, <1>4, <1>5, <1>6, <1>7, <1>8, ZenonT(30) DEF SessionInv

(* Attest replaces the seed of one server. *)
LEMMA AttestStep ==
    ASSUME SessionTypeOK, SocketsTogether, SeedsCounted, BindingsKept, CallPlaced, RecordersTold,
           VerifiedUnderRoots, \E s \in Server : Attest(s)
    PROVE  SessionInv'
<1> USE DEF Attest, is_connected, Pool
<1>1. UNCHANGED <<backend, conn, secondary, dials, catalog, roots, tops, hints, recorder, open,
      shown, call, answer>>
  OBVIOUS
<1>2. SocketsTogether' /\ BindingsKept' /\ CallPlaced' /\ RecordersTold' /\ VerifiedUnderRoots'
  BY <1>1, SocketsFrame, BindingsFrame, CallFrame, RecordersFrame, AnswerFrame, ZenonT(30)
<1>3. SessionTypeOK'
  BY DEF SessionTypeOK
<1>4. SeedsCounted'
  BY DEF SessionTypeOK, SocketsTogether, SeedsCounted, SeedsBound
<1> QED BY <1>2, <1>3, <1>4, ZenonT(30) DEF SessionInv

(* An upgrade without both seeds. *)
LEMMA UpgradeRefusedStep ==
    ASSUME SessionTypeOK, SocketsTogether, SeedsCounted, BindingsKept, CallPlaced, RecordersTold,
           VerifiedUnderRoots, UpgradeRefused
    PROVE  SessionInv'
<1> USE DEF UpgradeRefused, TakeSeeds
<1>1. UNCHANGED <<backend, conn, secondary, dials, catalog, roots, tops, hints, recorder, open,
      shown, call, answer>>
  OBVIOUS
<1>2. SocketsTogether' /\ BindingsKept' /\ CallPlaced' /\ RecordersTold' /\ VerifiedUnderRoots'
  BY <1>1, SocketsFrame, BindingsFrame, CallFrame, RecordersFrame, AnswerFrame, ZenonT(30)
<1>3. SessionTypeOK'
  BY DEF SessionTypeOK
<1>4. SeedsCounted'
  BY DEF SeedsCounted, SeedsBound
<1> QED BY <1>2, <1>3, <1>4, ZenonT(30) DEF SessionInv

(* The handshakes of a DPF handle. *)
LEMMA DpfUpgradeStep ==
    ASSUME SessionTypeOK, SocketsTogether, SeedsCounted, BindingsKept, CallPlaced, RecordersTold,
           VerifiedUnderRoots, DpfUpgrade
    PROVE  SessionInv'
<1> USE DEF DpfUpgrade, TakeSeeds, upgrade_to_secure_channel_with_seeds, is_connected, Pool
<1>1. UNCHANGED <<answer>>
  OBVIOUS
<1>2. VerifiedUnderRoots'
  BY <1>1, AnswerFrame, ZenonT(30)
<1>3. SessionTypeOK'
  <2>1. conn' \in [Server -> ConnOf]
    BY SMTT(60) DEF SessionTypeOK
  <2>2. seed' \in [Server -> SeedOf]
    BY DEF SessionTypeOK
  <2>3. spent' \subseteq Nat
    BY DEF SessionTypeOK
  <2> QED BY <2>1, <2>2, <2>3 DEF SessionTypeOK
<1>4. SocketsTogether'
  BY DEF SessionTypeOK, SocketsTogether, SealsAttested, SeedsCounted, SeedsBound
<1>5. SeedsCounted'
  BY DEF SessionTypeOK, SeedsCounted, SeedsBound
<1>6. BindingsKept'
  BY DEF SessionTypeOK, BindingsKept, BindingsOfPool, TopsOfRoots
<1>7. CallPlaced'
  BY DEF CallPlaced
<1>8. RecordersTold'
  BY DEF SessionTypeOK, RecordersTold
<1> QED BY <1>2, <1>3, <1>4, <1>5, <1>6, <1>7, <1>8, ZenonT(30) DEF SessionInv

(* The handshakes of a HarmonyPIR handle, which close the secondaries. *)
LEMMA HarmonyUpgradeStep ==
    ASSUME SessionTypeOK, SocketsTogether, SeedsCounted, BindingsKept, CallPlaced, RecordersTold,
           VerifiedUnderRoots, HarmonyUpgrade
    PROVE  SessionInv'
<1> USE DEF HarmonyUpgrade, TakeSeeds, harmony_upgrade_with_seeds,
      upgrade_to_secure_channel_with_seeds, is_connected, Pool
<1>1. UNCHANGED <<answer>>
  OBVIOUS
<1>2. VerifiedUnderRoots'
  BY <1>1, AnswerFrame, ZenonT(30)
<1>3. SessionTypeOK'
  <2>1. conn' \in [Server -> ConnOf]
    BY SMTT(60) DEF SessionTypeOK
  <2>2. secondary' \in [Server -> ConnOf]
    BY SMTT(60) DEF SessionTypeOK
  <2>3. seed' \in [Server -> SeedOf]
    BY DEF SessionTypeOK
  <2>4. spent' \subseteq Nat
    BY SMTT(60) DEF SessionTypeOK
  <2> QED BY <2>1, <2>2, <2>3, <2>4 DEF SessionTypeOK
<1>4. SocketsTogether'
  BY DEF SessionTypeOK, SocketsTogether, SealsAttested, SeedsCounted, SeedsBound
<1>5. SeedsCounted'
  BY DEF SessionTypeOK, SocketsTogether, SeedsCounted, SeedsBound
<1>6. BindingsKept'
  BY DEF SessionTypeOK, BindingsKept, BindingsOfPool, TopsOfRoots
<1>7. CallPlaced'
  BY DEF CallPlaced
<1>8. RecordersTold'
  BY DEF SessionTypeOK, RecordersTold
<1> QED BY <1>2, <1>3, <1>4, <1>5, <1>6, <1>7, <1>8, ZenonT(30) DEF SessionInv

(* A catalogue arrives and the roots are reconciled with it. *)
LEMMA CatalogEndsStep ==
    ASSUME SessionTypeOK, SocketsTogether, SeedsCounted, BindingsKept, CallPlaced, RecordersTold,
           VerifiedUnderRoots, CatalogEnds
    PROVE  SessionInv'
<1> USE DEF CatalogEnds, fetch_catalog, reconcile_catalog, oram_fetch_catalog
<1>1. UNCHANGED <<backend, conn, secondary, dials, seed, drawn, spent, answer>>
  OBVIOUS
<1>2. SocketsTogether' /\ SeedsCounted' /\ VerifiedUnderRoots'
  BY <1>1, SocketsFrame, SeedsFrame, AnswerFrame, ZenonT(30)
<1>3. SessionTypeOK'
  BY DEF SessionTypeOK
<1>4. BindingsKept'
  BY DEF SessionTypeOK, BindingsKept, BindingsOfPool, TopsOfRoots
<1>5. CallPlaced'
  BY DEF SessionTypeOK, CallPlaced
<1>6. RecordersTold'
  BY DEF RecordersTold
<1> QED BY <1>2, <1>3, <1>4, <1>5, <1>6, ZenonT(30) DEF SessionInv

(* A database proof arrives. *)
LEMMA ProofEndsStep ==
    ASSUME SessionTypeOK, SocketsTogether, SeedsCounted, BindingsKept, CallPlaced, RecordersTold,
           VerifiedUnderRoots, ProofEnds
    PROVE  SessionInv'
<1> USE DEF ProofEnds, ProofMatches, verify_catalog_anchor
<1>1. UNCHANGED <<backend, conn, secondary, dials, seed, drawn, spent, catalog, roots, tops,
      hints, answer>>
  OBVIOUS
<1>2. SocketsTogether' /\ SeedsCounted' /\ BindingsKept' /\ VerifiedUnderRoots'
  BY <1>1, SocketsFrame, SeedsFrame, BindingsFrame, AnswerFrame, ZenonT(30)
<1>3. SessionTypeOK'
  <2>1. served[0] \in Revs /\ proofs \subseteq Revs
    BY DEF SessionTypeOK
  <2>2. proofs' \subseteq proofs \cup {served[0]}
    OBVIOUS
  <2>3. proofs' \subseteq Revs
    BY <2>1, <2>2
  <2> QED BY <2>3 DEF SessionTypeOK
<1>4. CallPlaced'
  BY DEF CallPlaced
<1>5. RecordersTold'
  BY DEF RecordersTold
<1> QED BY <1>2, <1>3, <1>4, <1>5, ZenonT(30) DEF SessionInv

(* The page installs a proof. *)
LEMMA InstallStep ==
    ASSUME SessionTypeOK, SocketsTogether, SeedsCounted, BindingsKept, CallPlaced, RecordersTold,
           VerifiedUnderRoots, \E rev \in Revs : InstallVerifiedDatabaseProof(rev)
    PROVE  SessionInv'
<1> USE DEF InstallVerifiedDatabaseProof, install_verified_database_roots
<1>1. UNCHANGED <<backend, conn, secondary, dials, seed, drawn, spent, recorder, open, call,
      answer>>
  OBVIOUS
<1>2. SocketsTogether' /\ SeedsCounted' /\ RecordersTold' /\ VerifiedUnderRoots'
  BY <1>1, SocketsFrame, SeedsFrame, RecordersFrame, AnswerFrame, ZenonT(30)
<1>3. SessionTypeOK'
  BY DEF SessionTypeOK
<1>4. BindingsKept'
  BY DEF BindingsKept, BindingsOfPool, TopsOfRoots
<1>5. CallPlaced'
  BY DEF CallPlaced
<1> QED BY <1>2, <1>3, <1>4, <1>5, ZenonT(30) DEF SessionInv

(* Sync, with its own connect. *)
LEMMA SyncStep ==
    ASSUME SessionTypeOK, SocketsTogether, SeedsCounted, BindingsKept, CallPlaced, RecordersTold,
           VerifiedUnderRoots, Sync
    PROVE  SessionInv'
<1> USE DEF Sync, connect_begins, close_transport_slots, invalidate_session_bindings,
      clear_verified_database_roots, invalidate_groups, notify_state, is_connected, Pool
<1>1. UNCHANGED <<answer>>
  OBVIOUS
<1>2. VerifiedUnderRoots'
  BY <1>1, AnswerFrame, ZenonT(30)
<1>3. SessionTypeOK'
  <2>1. CASE is_connected
    <3>1. UNCHANGED <<conn, secondary, dials, seed, drawn, spent, catalog, roots, tops, hints, shown>>
      BY <2>1
    <3>2. call' \in Calls
      BY <2>1
    <3> QED BY <3>1, <3>2 DEF SessionTypeOK
  <2>2. CASE ~is_connected
    <3>1. /\ conn' = [s \in Server |-> NoConn] /\ secondary' = [s \in Server |-> NoConn]
          /\ catalog' = NoCatalog /\ roots' = NoRoots /\ tops' = NoTops /\ hints' = 0
          /\ call' = At("sync", "dial")
          /\ shown' = IF shown = "unheard" THEN shown ELSE "connecting"
      BY <2>2
    <3>2. UNCHANGED <<backend, dials, seed, drawn, spent, proofs, answer, recorder, open, served, moves>>
      OBVIOUS
    <3> QED BY <3>1, <3>2 DEF SessionTypeOK
  <2> QED BY <2>1, <2>2
<1>4. SocketsTogether'
  BY DEF SocketsTogether, SealsAttested
<1>5. SeedsCounted'
  BY DEF SeedsCounted, SeedsBound
<1>6. BindingsKept'
  BY DEF BindingsKept, BindingsOfPool, TopsOfRoots
<1>7. CallPlaced'
  BY DEF CallPlaced
<1>8. RecordersTold'
  BY DEF RecordersTold
<1> QED BY <1>2, <1>3, <1>4, <1>5, <1>6, <1>7, <1>8, ZenonT(30) DEF SessionInv

(* The preflight of the tree-tops. *)
LEMMA TopsEndStep ==
    ASSUME SessionTypeOK, SocketsTogether, SeedsCounted, BindingsKept, CallPlaced, RecordersTold,
           VerifiedUnderRoots, TopsEnd
    PROVE  SessionInv'
<1> USE DEF TopsEnd, tops_at_hand, tops_fetched, tops_refused, fire_query_start, TopsServer
<1>1. UNCHANGED <<backend, conn, secondary, dials, seed, drawn, spent, answer>>
  OBVIOUS
<1>2. SocketsTogether' /\ SeedsCounted' /\ VerifiedUnderRoots'
  BY <1>1, SocketsFrame, SeedsFrame, AnswerFrame, ZenonT(30)
<1>3. SessionTypeOK'
  BY DEF SessionTypeOK
<1>4. BindingsKept'
  BY DEF BindingsKept, BindingsOfPool, TopsOfRoots
<1>5. CallPlaced'
  BY DEF CallPlaced
<1>6. RecordersTold'
  BY DEF CallPlaced, RecordersTold
<1> QED BY <1>2, <1>3, <1>4, <1>5, <1>6, ZenonT(30) DEF SessionInv

(* The answers arrive and are checked. *)
LEMMA RunEndsStep ==
    ASSUME SessionTypeOK, SocketsTogether, SeedsCounted, BindingsKept, CallPlaced, RecordersTold,
           VerifiedUnderRoots, RunEnds
    PROVE  SessionInv'
<1> USE DEF RunEnds, fire_query_end, ensure_groups_ready, tree_tops_for, TopsServer
<1>1. UNCHANGED <<backend, conn, secondary, dials, seed, drawn, spent>>
  OBVIOUS
<1>2. SocketsTogether' /\ SeedsCounted'
  BY <1>1, SocketsFrame, SeedsFrame, ZenonT(30)
<1>3. SessionTypeOK'
  <2>1. answer' \in [rev : Revs \cup {0}, roots : Revs \cup {0}]
    BY DEF SessionTypeOK
  <2>2. hints' \in Nat
    BY DEF SessionTypeOK
  <2>3. open' \in Nat
    BY DEF SessionTypeOK, RecordersTold
  <2> QED BY <2>1, <2>2, <2>3 DEF SessionTypeOK
<1>4. BindingsKept'
  BY DEF BindingsKept, BindingsOfPool, TopsOfRoots
<1>5. CallPlaced'
  BY DEF CallPlaced
<1>6. RecordersTold'
  BY DEF SessionTypeOK, RecordersTold
<1>7. VerifiedUnderRoots'
  BY DEF BindingsKept, TopsOfRoots, CallPlaced, VerifiedUnderRoots
<1> QED BY <1>2, <1>3, <1>4, <1>5, <1>6, <1>7, ZenonT(30) DEF SessionInv

(* The page swaps the recorder. *)
LEMMA SetMetricsStep ==
    ASSUME SessionTypeOK, SocketsTogether, SeedsCounted, BindingsKept, CallPlaced, RecordersTold,
           VerifiedUnderRoots, \E r \in Recorders \cup {0} : SetMetricsRecorder(r)
    PROVE  SessionInv'
<1> USE DEF SetMetricsRecorder, set_metrics_recorder, Told
<1>1. UNCHANGED <<answer>>
  OBVIOUS
<1>2. VerifiedUnderRoots'
  BY <1>1, AnswerFrame, ZenonT(30)
<1>3. SessionTypeOK'
  BY DEF SessionTypeOK
<1>4. SocketsTogether'
  BY DEF SocketsTogether, SealsAttested
<1>5. SeedsCounted'
  BY DEF SeedsCounted, SeedsBound, is_connected, Pool
<1>6. BindingsKept'
  BY DEF BindingsKept, BindingsOfPool, TopsOfRoots
<1>7. CallPlaced'
  BY DEF CallPlaced
<1>8. RecordersTold'
  BY DEF SocketsTogether, RecordersTold
<1> QED BY <1>2, <1>3, <1>4, <1>5, <1>6, <1>7, <1>8, ZenonT(30) DEF SessionInv

(* The page sets its listener. *)
LEMMA OnStateChangeStep ==
    ASSUME SessionTypeOK, SocketsTogether, SeedsCounted, BindingsKept, CallPlaced, RecordersTold,
           VerifiedUnderRoots, OnStateChange
    PROVE  SessionInv'
<1> USE DEF OnStateChange
<1>1. UNCHANGED <<backend, conn, secondary, dials, seed, drawn, spent, catalog, roots, tops,
      hints, recorder, open, call, answer>>
  OBVIOUS
<1>2. SocketsTogether' /\ SeedsCounted' /\ BindingsKept' /\ RecordersTold' /\
      VerifiedUnderRoots'
  BY <1>1, SocketsFrame, SeedsFrame, BindingsFrame, RecordersFrame, AnswerFrame, ZenonT(30)
<1>3. SessionTypeOK'
  BY DEF SessionTypeOK
<1>4. CallPlaced'
  BY DEF CallPlaced
<1> QED BY <1>2, <1>3, <1>4, ZenonT(30) DEF SessionInv

(* The dial of an ORAM handle. *)
LEMMA OramDialEndsStep ==
    ASSUME SessionTypeOK, SocketsTogether, SeedsCounted, BindingsKept, CallPlaced, RecordersTold,
           VerifiedUnderRoots, OramDialEnds
    PROVE  SessionInv'
<1> USE DEF OramDialEnds, pool_dialled, Fresh, Pool
<1>1. UNCHANGED <<answer>>
  OBVIOUS
<1>2. VerifiedUnderRoots'
  BY <1>1, AnswerFrame, ZenonT(30)
<1>3. SessionTypeOK'
  BY DEF SessionTypeOK
<1>4. SocketsTogether'
  BY DEF SocketsTogether, SealsAttested
<1>5. SeedsCounted'
  BY DEF SeedsCounted, SeedsBound
<1>6. BindingsKept'
  BY DEF BindingsKept, BindingsOfPool, TopsOfRoots
<1>7. CallPlaced'
  BY DEF CallPlaced
<1>8. RecordersTold'
  BY DEF RecordersTold
<1> QED BY <1>2, <1>3, <1>4, <1>5, <1>6, <1>7, <1>8, ZenonT(30) DEF SessionInv

(* Disconnect of an ORAM handle. *)
LEMMA OramDisconnectStep ==
    ASSUME SessionTypeOK, SocketsTogether, SeedsCounted, BindingsKept, CallPlaced, RecordersTold,
           VerifiedUnderRoots, OramDisconnect
    PROVE  SessionInv'
<1> USE DEF OramDisconnect
<1>1. UNCHANGED <<answer>>
  OBVIOUS
<1>2. VerifiedUnderRoots'
  BY <1>1, AnswerFrame, ZenonT(30)
<1>3. SessionTypeOK'
  BY SMTT(60) DEF SessionTypeOK
<1>4. SocketsTogether'
  BY DEF SocketsTogether, SealsAttested
<1>5. SeedsCounted'
  BY DEF SeedsCounted, SeedsBound
<1>6. BindingsKept'
  BY DEF BindingsKept, BindingsOfPool, TopsOfRoots
<1>7. CallPlaced'
  BY DEF CallPlaced
<1>8. RecordersTold'
  BY DEF RecordersTold
<1> QED BY <1>2, <1>3, <1>4, <1>5, <1>6, <1>7, <1>8, ZenonT(30) DEF SessionInv

(* Attest of an ORAM handle. *)
LEMMA OramAttestStep ==
    ASSUME SessionTypeOK, SocketsTogether, SeedsCounted, BindingsKept, CallPlaced, RecordersTold,
           VerifiedUnderRoots, OramAttest
    PROVE  SessionInv'
<1> USE DEF OramAttest, is_connected, Pool
<1>1. UNCHANGED <<backend, conn, secondary, dials, catalog, roots, tops, hints, recorder, open,
      shown, call, answer>>
  OBVIOUS
<1>2. SocketsTogether' /\ BindingsKept' /\ CallPlaced' /\ RecordersTold' /\ VerifiedUnderRoots'
  BY <1>1, SocketsFrame, BindingsFrame, CallFrame, RecordersFrame, AnswerFrame, ZenonT(30)
<1>3. SessionTypeOK'
  BY DEF SessionTypeOK
<1>4. SeedsCounted'
  BY DEF SessionTypeOK, SeedsCounted, SeedsBound
<1> QED BY <1>2, <1>3, <1>4, ZenonT(30) DEF SessionInv

(* The handshake of an ORAM handle. *)
LEMMA OramUpgradeStep ==
    ASSUME SessionTypeOK, SocketsTogether, SeedsCounted, BindingsKept, CallPlaced, RecordersTold,
           VerifiedUnderRoots, OramUpgrade
    PROVE  SessionInv'
<1> USE DEF OramUpgrade, is_connected, Pool
<1>1. UNCHANGED <<answer>>
  OBVIOUS
<1>2. VerifiedUnderRoots'
  BY <1>1, AnswerFrame, ZenonT(30)
<1>3. SessionTypeOK'
  BY DEF SessionTypeOK
<1>4. SocketsTogether'
  BY DEF SessionTypeOK, SocketsTogether, SealsAttested
<1>5. SeedsCounted'
  BY DEF SessionTypeOK, SeedsCounted, SeedsBound
<1>6. BindingsKept'
  BY DEF BindingsKept, BindingsOfPool, TopsOfRoots
<1>7. CallPlaced'
  BY DEF CallPlaced
<1>8. RecordersTold'
  BY DEF SessionTypeOK, RecordersTold
<1> QED BY <1>2, <1>3, <1>4, <1>5, <1>6, <1>7, <1>8, ZenonT(30) DEF SessionInv

(* An ORAM query starts. *)
LEMMA OramQueryBatchStep ==
    ASSUME SessionTypeOK, SocketsTogether, SeedsCounted, BindingsKept, CallPlaced, RecordersTold,
           VerifiedUnderRoots, OramQueryBatch
    PROVE  SessionInv'
<1> USE DEF OramQueryBatch, fire_query_start, is_connected, Pool
<1>1. UNCHANGED <<backend, conn, secondary, dials, seed, drawn, spent, catalog, roots, tops,
      hints, answer>>
  OBVIOUS
<1>2. SocketsTogether' /\ SeedsCounted' /\ BindingsKept' /\ VerifiedUnderRoots'
  BY <1>1, SocketsFrame, SeedsFrame, BindingsFrame, AnswerFrame, ZenonT(30)
<1>3. SessionTypeOK'
  BY DEF SessionTypeOK
<1>4. CallPlaced'
  BY DEF CallPlaced
<1>5. RecordersTold'
  BY DEF SessionTypeOK, RecordersTold
<1> QED BY <1>2, <1>3, <1>4, <1>5, ZenonT(30) DEF SessionInv

(* An ORAM query of too many slots. *)
LEMMA OramRefusedStep ==
    ASSUME SessionTypeOK, SocketsTogether, SeedsCounted, BindingsKept, CallPlaced, RecordersTold,
           VerifiedUnderRoots, OramQueryBatchPaddedRefused
    PROVE  SessionInv'
<1> USE DEF OramQueryBatchPaddedRefused, fire_query_start
<1>1. UNCHANGED <<backend, conn, secondary, dials, seed, drawn, spent, catalog, roots, tops,
      hints, shown, call, answer>>
  OBVIOUS
<1>2. SocketsTogether' /\ SeedsCounted' /\ BindingsKept' /\ CallPlaced' /\ VerifiedUnderRoots'
  BY <1>1, SocketsFrame, SeedsFrame, BindingsFrame, CallFrame, AnswerFrame, ZenonT(30)
<1>3. SessionTypeOK'
  BY DEF SessionTypeOK
<1>4. ~TwoServer /\ recorder' = recorder /\ open' = open + 1 /\ open \in Nat
  BY DEF SessionTypeOK
<1>5. RecordersTold'
  BY <1>1, <1>4 DEF RecordersTold
<1> QED BY <1>2, <1>3, <1>5, ZenonT(30) DEF SessionInv

(* A server moves to another revision. *)
LEMMA ServerMovesStep ==
    ASSUME SessionTypeOK, SocketsTogether, SeedsCounted, BindingsKept, CallPlaced, RecordersTold,
           VerifiedUnderRoots, \E s \in Server : ServerMoves(s)
    PROVE  SessionInv'
<1> USE DEF ServerMoves
<1>1. UNCHANGED <<backend, conn, secondary, dials, seed, drawn, spent, catalog, roots, tops,
      hints, recorder, open, shown, call, answer>>
  OBVIOUS
<1>2. SocketsTogether' /\ SeedsCounted' /\ BindingsKept' /\ CallPlaced' /\ RecordersTold' /\
      VerifiedUnderRoots'
  BY <1>1, SocketsFrame, SeedsFrame, BindingsFrame, CallFrame, RecordersFrame, AnswerFrame, ZenonT(30)
<1>3. SessionTypeOK'
  BY DEF SessionTypeOK
<1> QED BY <1>2, <1>3, ZenonT(30) DEF SessionInv

(* The hint state of a HarmonyPIR handle. *)
LEMMA HintsStep ==
    ASSUME SessionTypeOK, SocketsTogether, SeedsCounted, BindingsKept, CallPlaced, RecordersTold,
           VerifiedUnderRoots, FetchHints \/ LoadHints \/ SetMasterKey
    PROVE  SessionInv'
<1>1. call = Idle /\ (hints' = hints \/ hints' = 0 \/ hints' = dials)
  BY DEF FetchHints, LoadHints, SetMasterKey, ensure_groups_ready, invalidate_groups
<1>2. /\ UNCHANGED <<backend, conn, secondary, dials, seed, drawn, spent, catalog, roots, tops>>
      /\ UNCHANGED <<proofs, recorder, open, shown, call, answer, served, moves>>
  BY DEF FetchHints, LoadHints, SetMasterKey
<1>3. SocketsTogether' /\ SeedsCounted' /\ RecordersTold' /\ VerifiedUnderRoots'
  BY <1>2, SocketsFrame, SeedsFrame, RecordersFrame, AnswerFrame, ZenonT(30)
<1>4. SessionTypeOK'
  BY <1>1, <1>2 DEF SessionTypeOK
<1>5. BindingsKept'
  BY <1>1, <1>2 DEF BindingsKept, BindingsOfPool, TopsOfRoots
<1>6. CallPlaced'
  BY <1>1, <1>2 DEF CallPlaced
<1> QED BY <1>3, <1>4, <1>5, <1>6, ZenonT(30) DEF SessionInv

(* Queries that start. *)
LEMMA StartsStep ==
    ASSUME SessionTypeOK, SocketsTogether, SeedsCounted, BindingsKept, CallPlaced, RecordersTold,
           VerifiedUnderRoots, PreflightDatabase \/ QueryBatch \/ QueryBatchVerified
    PROVE  SessionInv'
<1>1. /\ call = Idle /\ call'.op \in {"preflight", "query", "inspect"} /\ call'.at = "tops"
      /\ call' \in Calls
  BY DEF PreflightDatabase, QueryBatch, QueryBatchVerified
<1>2. TwoServer /\ is_connected
  BY SMTT(60) DEF PreflightDatabase, QueryBatch, QueryBatchVerified
<1>3. conn[0].pool # 0 /\ catalog.rev # 0
  BY <1>2 DEF PreflightDatabase, QueryBatch, QueryBatchVerified, is_connected, Pool, BindingsKept,
     TopsOfRoots
<1>4. /\ UNCHANGED <<backend, conn, secondary, dials, seed, drawn, spent, catalog, roots, tops>>
      /\ UNCHANGED <<hints, proofs, recorder, open, shown, answer, served, moves>>
  BY DEF PreflightDatabase, QueryBatch, QueryBatchVerified
<1>5. SocketsTogether' /\ SeedsCounted' /\ BindingsKept' /\ VerifiedUnderRoots'
  BY <1>4, SocketsFrame, SeedsFrame, BindingsFrame, AnswerFrame, ZenonT(30)
<1>6. SessionTypeOK'
  BY <1>1, <1>4 DEF SessionTypeOK
<1>7. CallPlaced'
  BY <1>1, <1>2, <1>3, <1>4 DEF CallPlaced
<1>8. RecordersTold'
  BY <1>1, <1>4 DEF RecordersTold
<1> QED BY <1>5, <1>6, <1>7, <1>8, ZenonT(30) DEF SessionInv

(* Requests that start. *)
LEMMA AsksStep ==
    ASSUME SessionTypeOK, SocketsTogether, SeedsCounted, BindingsKept, CallPlaced, RecordersTold,
           VerifiedUnderRoots, FetchCatalog \/ VerifyDatabaseProof \/ OramConnect
    PROVE  SessionInv'
<1>1. call = Idle /\ call' \in {At("fetchCatalog", "catalog"), At("verify", "catalog"),
                                At("verify", "proof"), At("connect", "dial")}
  BY DEF FetchCatalog, VerifyDatabaseProof, OramConnect
<1>2. /\ call'.at = "dial" => ~TwoServer
      /\ call'.at # "dial" => conn[0].pool # 0
      /\ call'.at = "proof" => catalog.rev # 0
  BY DEF FetchCatalog, VerifyDatabaseProof, OramConnect, is_connected, Pool
<1>3. /\ UNCHANGED <<backend, conn, secondary, dials, seed, drawn, spent, catalog, roots, tops>>
      /\ UNCHANGED <<hints, proofs, recorder, open, shown, answer, served, moves>>
  BY DEF FetchCatalog, VerifyDatabaseProof, OramConnect
<1>4. SocketsTogether' /\ SeedsCounted' /\ BindingsKept' /\ VerifiedUnderRoots'
  BY <1>3, SocketsFrame, SeedsFrame, BindingsFrame, AnswerFrame, ZenonT(30)
<1>5. SessionTypeOK'
  BY <1>1, <1>3 DEF SessionTypeOK
<1>6. CallPlaced'
  BY <1>1, <1>2, <1>3 DEF CallPlaced
<1>7. RecordersTold'
  BY <1>1, <1>3 DEF RecordersTold
<1> QED BY <1>4, <1>5, <1>6, <1>7, ZenonT(30) DEF SessionInv

(* The first state of a handle. *)
LEMMA InitInv == SessionInit => SessionInv
<1> SUFFICES ASSUME SessionInit PROVE SessionInv
  BY Zenon
<1> USE DEF SessionInit
<1>1. SessionTypeOK
  BY DEF SessionTypeOK
<1>2. SocketsTogether
  BY DEF SocketsTogether, SealsAttested
<1>3. SeedsCounted
  BY DEF SeedsCounted, SeedsBound
<1>4. BindingsKept
  BY DEF BindingsKept, BindingsOfPool, TopsOfRoots
<1>5. CallPlaced
  BY DEF CallPlaced
<1>6. RecordersTold
  BY DEF RecordersTold
<1>7. VerifiedUnderRoots
  BY DEF VerifiedUnderRoots
<1> QED BY <1>1, <1>2, <1>3, <1>4, <1>5, <1>6, <1>7, ZenonT(30) DEF SessionInv

(* The invariant is inductive. *)
LEMMA SessionInvStep == SessionInv /\ [SessionNext]_sessionVars => SessionInv'
<1> SUFFICES ASSUME SessionInv, [SessionNext]_sessionVars PROVE SessionInv'
  BY Zenon
<1>1. /\ SessionTypeOK /\ SocketsTogether /\ SeedsCounted /\ BindingsKept /\ CallPlaced
      /\ RecordersTold /\ VerifiedUnderRoots
  BY DEF SessionInv
<1>2. CASE UNCHANGED sessionVars
  <2>1. /\ UNCHANGED <<backend, conn, secondary, dials, seed, drawn, spent, catalog, roots, tops>>
        /\ UNCHANGED <<hints, proofs, recorder, open, shown, call, answer, served, moves>>
    BY <1>2 DEF sessionVars
  <2>2. SessionTypeOK'
    BY <1>1, <2>1 DEF SessionTypeOK
  <2> QED BY <1>1, <2>1, <2>2, SocketsFrame, SeedsFrame, BindingsFrame, CallFrame, RecordersFrame,
             AnswerFrame DEF SessionInv
<1>3. CASE Connect \/ DialEnds \/ Disconnect
  BY <1>1, <1>3, ConnectStep, DialEndsStep, DisconnectStep, ZenonT(30)
<1>4. CASE (\E s \in Server : Attest(s)) \/ UpgradeRefused \/ DpfUpgrade \/ HarmonyUpgrade
  BY <1>1, <1>4, AttestStep, UpgradeRefusedStep, DpfUpgradeStep, HarmonyUpgradeStep, ZenonT(30)
<1>5. CASE FetchCatalog \/ CatalogEnds \/ VerifyDatabaseProof \/ ProofEnds
  BY <1>1, <1>5, AsksStep, CatalogEndsStep, ProofEndsStep, ZenonT(30)
<1>6. CASE (\E rev \in Revs : InstallVerifiedDatabaseProof(rev)) \/ PreflightDatabase
  BY <1>1, <1>6, InstallStep, StartsStep, ZenonT(30)
<1>7. CASE QueryBatch \/ QueryBatchVerified \/ Sync \/ TopsEnd \/ RunEnds
  BY <1>1, <1>7, StartsStep, SyncStep, TopsEndStep, RunEndsStep, ZenonT(30)
<1>8. CASE (\E r \in Recorders \cup {0} : SetMetricsRecorder(r)) \/ OnStateChange
  BY <1>1, <1>8, SetMetricsStep, OnStateChangeStep, ZenonT(30)
<1>9. CASE FetchHints \/ LoadHints \/ SetMasterKey
  BY <1>1, <1>9, HintsStep, ZenonT(30)
<1>10. CASE OramConnect \/ OramDialEnds \/ OramDisconnect \/ OramAttest \/ OramUpgrade
  BY <1>1, <1>10, AsksStep, OramDialEndsStep, OramDisconnectStep, OramAttestStep, OramUpgradeStep, ZenonT(30)
<1>11. CASE OramQueryBatch \/ OramQueryBatchPaddedRefused \/ (\E s \in Server : ServerMoves(s))
  BY <1>1, <1>11, OramQueryBatchStep, OramRefusedStep, ServerMovesStep, ZenonT(30)
<1> QED BY <1>2, <1>3, <1>4, <1>5, <1>6, <1>7, <1>8, <1>9, <1>10, <1>11 DEF SessionNext

(* What the pages rely on follows from it. *)
LEMMA InvSafe == SessionInv => SessionSafe
<1> SUFFICES ASSUME SessionInv PROVE SessionSafe
  BY Zenon
<1>1. SessionTypeOK /\ VerifiedUnderRoots /\ SeedsBound /\ SealsAttested /\ TopsOfRoots /\ BindingsOfPool
  BY DEF SessionInv, SocketsTogether, SeedsCounted, BindingsKept
<1>2. NoneInTheClear
  BY DEF SessionInv, SocketsTogether, NoneInTheClear, Pool
<1>3. RecorderInformed
  BY DEF SessionInv, RecordersTold, RecorderInformed
<1>4. ListenerTold
  BY DEF SessionInv, CallPlaced, ListenerTold, is_connected, Pool
<1> QED BY <1>1, <1>2, <1>3, <1>4 DEF SessionSafe

(* A handle of the browser SDK keeps seeds, seals, bindings, tree-tops,    *)
(* recorder and listener consistent with the sockets it has, for any       *)
(* revisions the servers move between and any number of dials.             *)
THEOREM SessionIsSafe == SessionSpec => []SessionSafe
<1>1. SessionSpec => []SessionInv
  BY InitInv, SessionInvStep, PTL DEF SessionSpec
<1> QED BY <1>1, InvSafe, PTL
=============================================================================
