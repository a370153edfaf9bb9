------------------------------ MODULE MCServer ------------------------------
(***************************************************************************)
(* Instances of what runs in, or talks straight to, one server process:    *)
(* the shared scan (alone and on the pool of the free lane), the Direct    *)
(* ORAM lookup, the OnionPIR worker and the encrypted channel (this module *)
(* extends these four), the two transports, the frames they carry as       *)
(* clients and servers read them, and the loading of tables. The parts     *)
(* share no state, so every behaviour explores one of them, its focus.     *)
(***************************************************************************)
EXTENDS ScanBatch, OramLookup, SecureChannel, OnionWorker, TLC

CONSTANTS Foci,       \* the parts a run explores, one in each behaviour
          q1, q2, q3, q4, w1, w2, c1, c2, c3, n1, n2, b1, s1

VARIABLE focus         \* the part of this behaviour; the others stay put

VARIABLES onion_id, onion_accepted, onion_keys, onion_tasks, onion_queue, onion_job, onion_replies,
          onion_rpc, onion_level, onion_registered, onion_calls, onion_outcome, onion_since
onionVars == <<onion_id, onion_accepted, onion_keys, onion_tasks, onion_queue, onion_job, onion_replies,
               onion_rpc, onion_level, onion_registered, onion_calls, onion_outcome,
               onion_since>>
onionIdle ==
    onion_id = 0 /\ onion_accepted = 0 /\ onion_keys = 0 /\ onion_tasks = 0
    /\ onion_queue = 0 /\ onion_job = 0 /\ onion_replies = 0 /\ onion_rpc = 0
    /\ onion_level = 0 /\ onion_registered = 0 /\ onion_calls = 0 /\ onion_outcome = 0
    /\ onion_since = 0

VARIABLES lookup_chunks, lookup_up, lookup_root, lookup_saved, lookup_auth, lookup_alien, lookup_ver,
          lookup_view, lookup_trust, lookup_latest, lookup_dirty, lookup_poisoned,
          lookup_lock, lookup_tx, lookup_inbox, lookup_outbox, lookup_asked, lookup_issued,
          lookup_late, lookup_last, lookup_audit, lookup_crashes, lookup_faults
lookupVars == <<lookup_chunks, lookup_up, lookup_root, lookup_saved, lookup_auth, lookup_alien, lookup_ver,
                lookup_view, lookup_trust, lookup_latest, lookup_dirty, lookup_poisoned,
                lookup_lock, lookup_tx, lookup_inbox, lookup_outbox, lookup_asked,
                lookup_issued, lookup_late, lookup_last, lookup_audit, lookup_crashes,
                lookup_faults>>
lookupIdle ==
    lookup_chunks = 0 /\ lookup_up = 0 /\ lookup_root = 0 /\ lookup_saved = 0
    /\ lookup_auth = 0 /\ lookup_alien = 0 /\ lookup_ver = 0 /\ lookup_view = 0
    /\ lookup_trust = 0 /\ lookup_latest = 0 /\ lookup_dirty = 0 /\ lookup_poisoned = 0
    /\ lookup_lock = 0 /\ lookup_tx = 0 /\ lookup_inbox = 0 /\ lookup_outbox = 0
    /\ lookup_asked = 0 /\ lookup_issued = 0 /\ lookup_late = 0 /\ lookup_last = 0
    /\ lookup_audit = 0 /\ lookup_crashes = 0 /\ lookup_faults = 0

VARIABLES link, op, wire_issued, part, recvBuf, shut, wire_late, wire_last, wire_up, down, srv, acc,
          expected, permits, work, dispatched
wireVars == <<link, op, wire_issued, part, recvBuf, shut, wire_late, wire_last, wire_up, down, srv, acc,
              expected, permits, work, dispatched>>
wireIdle ==
    link = 0 /\ op = 0 /\ wire_issued = 0 /\ part = 0 /\ recvBuf = 0 /\ shut = 0
    /\ wire_late = 0 /\ wire_last = 0 /\ wire_up = 0 /\ down = 0 /\ srv = 0 /\ acc = 0
    /\ expected = 0 /\ permits = 0 /\ work = 0 /\ dispatched = 0

VARIABLES session_pin, session_client, session_cKey, session_sKey, session_asks, session_serverEph,
          session_ephs, session_cSend, session_cRecv, session_sSend, session_sRecv,
          session_frames, session_sealed, session_got, session_burnt
sessionVars == <<session_pin, session_client, session_cKey, session_sKey, session_asks, session_serverEph,
                 session_ephs, session_cSend, session_cRecv, session_sSend, session_sRecv,
                 session_frames, session_sealed, session_got, session_burnt>>
sessionIdle ==
    session_pin = 0 /\ session_client = 0 /\ session_cKey = 0 /\ session_sKey = 0
    /\ session_asks = 0 /\ session_serverEph = 0 /\ session_ephs = 0
    /\ session_cSend = 0 /\ session_cRecv = 0 /\ session_sSend = 0 /\ session_sRecv = 0
    /\ session_frames = 0 /\ session_sealed = 0 /\ session_got = 0 /\ session_burnt = 0

VARIABLES request, response, frame
frameVars == <<request, response, frame>>
frameIdle ==
    request = 0 /\ response = 0 /\ frame = 0

VARIABLES dir, copying, todo, tbl, load_root, kills
loadVars == <<dir, copying, todo, tbl, load_root, kills>>
loadIdle ==
    dir = 0 /\ copying = 0 /\ todo = 0 /\ tbl = 0 /\ load_root = 0 /\ kills = 0

-----------------------------------------------------------------------------
\* Queries with different numbers of groups and of keys; keys of the
\* table's domain, and of a smaller and a larger one.
Key(domain, bins) == [b \in 1..domain |-> b \in bins]
MCKeys ==
    (q1 :> << <<Key(3, {1, 3}), Key(1, {1})>>, <<Key(1, {})>> >>) @@ (q2 :> << <<Key(4, {2, 4})>> >>)
    @@ (q3 :> << <<Key(3, {2})>>, <<Key(3, {3}), Key(2, {2})>>, <<Key(3, {1})>> >>)
    @@ (q4 :> << <<>>, <<Key(4, {2, 4})>> >>)

AllKinds == {"small", "big", "stream"}

-----------------------------------------------------------------------------
(* The instances. *)

OnionFew == INSTANCE OnionWorker WITH
        OnionClients <- {c1, c2}, Cap <- 1, QueueCap <- 1, Slots <- 1,
        Levels <- {"chunk", "sibling"}, MaxId <- 2, MaxCalls <- 2, id <- onion_id,
        accepted <- onion_accepted, keys <- onion_keys, tasks <- onion_tasks,
        queue <- onion_queue, job <- onion_job, replies <- onion_replies, rpc <- onion_rpc,
        level <- onion_level, registered <- onion_registered, calls <- onion_calls,
        outcome <- onion_outcome, since <- onion_since

OramUncached == INSTANCE OramLookup WITH
        Clients <- {c1}, Scripts <- {s1}, HashFns <- 2, AccessBudget <- 3, Cached <- FALSE,
        MaxRequests <- 2, MaxCrashes <- 2, MaxFaults <- 1, chunks <- lookup_chunks,
        up <- lookup_up, root <- lookup_root, saved <- lookup_saved, auth <- lookup_auth,
        alien <- lookup_alien, ver <- lookup_ver, view <- lookup_view,
        trust <- lookup_trust, latest <- lookup_latest, dirty <- lookup_dirty,
        poisoned <- lookup_poisoned, lock <- lookup_lock, tx <- lookup_tx,
        inbox <- lookup_inbox, outbox <- lookup_outbox, asked <- lookup_asked,
        issued <- lookup_issued, late <- lookup_late, last <- lookup_last,
        audit <- lookup_audit, crashes <- lookup_crashes, faults <- lookup_faults

OramTwo == INSTANCE OramLookup WITH
        Clients <- {c1, c2}, Scripts <- {s1}, HashFns <- 2, AccessBudget <- 5, Cached <- TRUE,
        MaxRequests <- 1, MaxCrashes <- 0, MaxFaults <- 1, chunks <- lookup_chunks,
        up <- lookup_up, root <- lookup_root, saved <- lookup_saved, auth <- lookup_auth,
        alien <- lookup_alien, ver <- lookup_ver, view <- lookup_view,
        trust <- lookup_trust, latest <- lookup_latest, dirty <- lookup_dirty,
        poisoned <- lookup_poisoned, lock <- lookup_lock, tx <- lookup_tx,
        inbox <- lookup_inbox, outbox <- lookup_outbox, asked <- lookup_asked,
        issued <- lookup_issued, late <- lookup_late, last <- lookup_last,
        audit <- lookup_audit, crashes <- lookup_crashes, faults <- lookup_faults

WireAnswers == INSTANCE WireTransport WITH
        Native <- {n1}, Browser <- {}, Kinds <- AllKinds, MaxReq <- 2, Epochs <- 2, Pieces <- 2,
        Budget <- 2, issued <- wire_issued, late <- wire_late, last <- wire_last,
        up <- wire_up

WireBrowser == INSTANCE WireTransport WITH
        Native <- {}, Browser <- {b1}, Kinds <- AllKinds, MaxReq <- 3, Epochs <- 1, Pieces <- 2,
        Budget <- 2, issued <- wire_issued, late <- wire_late, last <- wire_last,
        up <- wire_up

WireUploads == INSTANCE WireTransport WITH
        Native <- {n1, n2}, Browser <- {}, Kinds <- {"big"}, MaxReq <- 1, Epochs <- 1, Pieces <- 2,
        Budget <- 3, issued <- wire_issued, late <- wire_late, last <- wire_last,
        up <- wire_up

ChannelOne == INSTANCE SecureChannel WITH
        Conns <- {c1}, Bridged <- {}, MaxSeq <- 3, Ephs <- 2, pin <- session_pin,
        client <- session_client, cKey <- session_cKey, sKey <- session_sKey,
        asks <- session_asks, serverEph <- session_serverEph, ephs <- session_ephs,
        cSend <- session_cSend, cRecv <- session_cRecv, sSend <- session_sSend,
        sRecv <- session_sRecv, frames <- session_frames, sealed <- session_sealed,
        got <- session_got, burnt <- session_burnt

Requests == INSTANCE WireFrames WITH
        Base <- 8, Dbs <- {0, 5}, DpfKeys <- {<<2, 5, 6>>, <<3, 0, 1, 2>>},
        Blobs <- {<<>>, <<4>>, <<1, 7>>, <<0, 0, 1>>}, Words <- {<<0, 0>>, <<3, 1>>},
        MAX_KEYS_PER_GROUP <- 2, INDEX_CUCKOO_NUM_HASHES <- 2, MIN_DPF_DOMAIN_N <- 2,
        MAX_DPF_DOMAIN_N <- 4, MAX_ORAM_LOOKUP_SCRIPTHASHES <- 2,
        MAX_CREDIT_PRESENT_PAYLOAD_LEN <- 2, MAX_API_KEY_LEN <- 2, RoundStride <- 4,
        LevelStride <- 2, Names <- {<<>>, <<1, 1>>},
        Anchors <- {<<>>, <<4, 1>>, <<5, 0, 1, 2>>}, MaxPadding <- 2, MinGroups <- 3

Responses == INSTANCE WireFrames WITH
        Base <- 8, Dbs <- {0, 5}, DpfKeys <- {<<2, 5, 6>>, <<3, 0, 1, 2>>},
        Blobs <- {<<>>, <<4>>, <<1, 7>>}, Words <- {<<0, 0>>, <<3, 1>>},
        MAX_KEYS_PER_GROUP <- 2, INDEX_CUCKOO_NUM_HASHES <- 2, MIN_DPF_DOMAIN_N <- 2,
        MAX_DPF_DOMAIN_N <- 4, MAX_ORAM_LOOKUP_SCRIPTHASHES <- 2,
        MAX_CREDIT_PRESENT_PAYLOAD_LEN <- 2, MAX_API_KEY_LEN <- 2, RoundStride <- 4,
        LevelStride <- 2, Names <- {<<>>, <<1, 1>>},
        Anchors <- {<<>>, <<4, 1>>, <<5, 0, 1, 2>>}, MaxPadding <- 2, MinGroups <- 3

Load == INSTANCE TableLoad WITH
        K <- 2, BinsOf <- <<1, 2>>, AnchorOf <- <<0, 1>>, LevelsOf <- <<0, 1>>, Listing <- {2},
        Typed <- {2}, MaxKills <- 1, root <- load_root

ASSUME InstanceAssumptions ==
    /\ NoneAssumption
    /\ OramLookupAssumption
    /\ ChannelAssumption
    /\ OramUncached!NoneAssumption
    /\ OramUncached!OramLookupAssumption
    /\ OramTwo!NoneAssumption
    /\ OramTwo!OramLookupAssumption
    /\ WireAnswers!TransportAssumption
    /\ WireBrowser!TransportAssumption
    /\ WireUploads!TransportAssumption
    /\ ChannelOne!ChannelAssumption
    /\ Requests!BaseAssumption
    /\ Requests!StrideAssumption
    /\ Responses!BaseAssumption
    /\ Responses!StrideAssumption
    /\ Load!TableLoadAssumption

-----------------------------------------------------------------------------
suiteVars == <<focus, laneVars, oramVars, channelVars, workerVars, onionVars, lookupVars, wireVars,
               sessionVars, frameVars, loadVars>>

SuiteInit ==
    /\ focus \in Foci
    /\ LaneInit
    /\ OramInit /\ (focus = "oram" \/ chunks = [s \in Scripts |-> 0])
    /\ ChannelInit /\ (focus = "channel" \/ pin = [c \in Conns |-> "server"])
    /\ WorkerInit
    /\ IF focus = "onion_few" THEN OnionFew!WorkerInit ELSE onionIdle
    /\ CASE focus = "oram_uncached" -> OramUncached!OramInit
         [] focus = "oram_two" -> OramTwo!OramInit
         [] OTHER -> lookupIdle
    /\ CASE focus = "wire_answers" -> WireAnswers!Init
         [] focus = "wire_browser" -> WireBrowser!Init
         [] focus = "wire_uploads" -> WireUploads!Init
         [] OTHER -> wireIdle
    /\ IF focus = "channel_one" THEN ChannelOne!ChannelInit ELSE sessionIdle
    /\ CASE focus = "requests" -> Requests!RequestInit
         [] focus = "responses" -> Responses!ResponseInit
         [] OTHER -> frameIdle
    /\ IF focus = "load" THEN Load!Init ELSE loadIdle

BatchStep ==
    /\ focus = "batch" /\ Next
    /\ UNCHANGED <<focus, poolVars, oramVars, channelVars, workerVars, onionVars, lookupVars, wireVars,
                  sessionVars, frameVars, loadVars>>

LanePartStep ==
    /\ focus = "lane" /\ LaneNext
    /\ UNCHANGED <<focus, oramVars, channelVars, workerVars, onionVars, lookupVars, wireVars, sessionVars,
                  frameVars, loadVars>>

OramStep ==
    /\ focus = "oram" /\ OramNext
    /\ UNCHANGED <<focus, laneVars, channelVars, workerVars, onionVars, lookupVars, wireVars, sessionVars,
                  frameVars, loadVars>>

ChannelStep ==
    /\ focus = "channel" /\ ChannelNext
    /\ UNCHANGED <<focus, laneVars, oramVars, workerVars, onionVars, lookupVars, wireVars, sessionVars,
                  frameVars, loadVars>>

WorkerPartStep ==
    /\ focus = "onion" /\ WorkerNext
    /\ UNCHANGED <<focus, laneVars, oramVars, channelVars, onionVars, lookupVars, wireVars, sessionVars,
                  frameVars, loadVars>>

OnionStep ==
    /\ focus = "onion_few" /\ OnionFew!WorkerNext
    /\ UNCHANGED <<focus, laneVars, oramVars, channelVars, workerVars, lookupVars, wireVars, sessionVars,
                  frameVars, loadVars>>

LookupStep ==
    /\ \/ focus = "oram_uncached" /\ OramUncached!OramNext
       \/ focus = "oram_two" /\ OramTwo!OramNext
    /\ UNCHANGED <<focus, laneVars, oramVars, channelVars, workerVars, onionVars, wireVars, sessionVars,
                  frameVars, loadVars>>

WireStep ==
    /\ \/ focus = "wire_answers" /\ WireAnswers!Next
       \/ focus = "wire_browser" /\ WireBrowser!Next
       \/ focus = "wire_uploads" /\ WireUploads!Next
    /\ UNCHANGED <<focus, laneVars, oramVars, channelVars, workerVars, onionVars, lookupVars, sessionVars,
                  frameVars, loadVars>>

SessionStep ==
    /\ focus = "channel_one" /\ ChannelOne!ChannelNext
    /\ UNCHANGED <<focus, laneVars, oramVars, channelVars, workerVars, onionVars, lookupVars, wireVars,
                  frameVars, loadVars>>

FrameStep ==
    /\ \/ focus = "requests" /\ Requests!RequestNext
       \/ focus = "responses" /\ Responses!ResponseNext
    /\ UNCHANGED <<focus, laneVars, oramVars, channelVars, workerVars, onionVars, lookupVars, wireVars,
                  sessionVars, loadVars>>

LoadStep ==
    /\ focus = "load" /\ Load!Next
    /\ UNCHANGED <<focus, laneVars, oramVars, channelVars, workerVars, onionVars, lookupVars, wireVars,
                  sessionVars, frameVars>>

SuiteNext ==
    \/ BatchStep
    \/ LanePartStep
    \/ OramStep
    \/ ChannelStep
    \/ WorkerPartStep
    \/ OnionStep
    \/ LookupStep
    \/ WireStep
    \/ SessionStep
    \/ FrameStep
    \/ LoadStep

SuiteSpec == SuiteInit /\ [][SuiteNext]_suiteVars

\* A thread or task that can run does run: worker threads of the pools and
\* the tasks of the server.  Nothing is assumed of the clients' networks; a
\* client that waits for an answer takes it when it is there.
SuiteFairness ==
    /\ \A q \in Queries : WF_vars(focus = "batch" /\ Step(q))
    /\ \A w \in Workers : WF_laneVars(focus = "lane" /\ WorkerStep(w))
    /\ WF_onionVars(focus = "onion_few" /\ OnionFew!Worker)
    /\ \A i \in OnionFew!Ids : \A k \in {"chunk", "sibling", "keys"} :
          SF_onionVars(focus = "onion_few" /\ OnionFew!dispatch(OnionFew!Request(i, k)))
    /\ \A c \in {c1, c2} : WF_onionVars(focus = "onion_few" /\ OnionFew!ReceiveReply(c))
    /\ \A t \in WireUploads!Tasks : WF_wireVars(focus = "wire_uploads" /\ WireUploads!ServerStep(t))

FairSuiteSpec == SuiteSpec /\ SuiteFairness

-----------------------------------------------------------------------------
(* Properties. *)

(***************************************************************************)
(* The transports of the SDK and the browser, and other sizes of what the  *)
(* properties of the extended modules say: one long encrypted channel,     *)
(* Direct ORAM without a front cache and with two clients, and an OnionPIR *)
(* worker that keeps the keys of one client. A record answers the call     *)
(* that gets it, unless an earlier call on the same socket was given up,   *)
(* and never across a reconnect; the server dispatches a chunked upload    *)
(* whole and in order; and a connection holds exactly the permits of the   *)
(* pieces it keeps.                                                        *)
(***************************************************************************)
ConnectionsSafe ==
    /\ focus = "wire_answers" =>
          WireAnswers!TypeOK /\ WireAnswers!AnswersOwnRequest
          /\ WireAnswers!DispatchedWhole /\ WireAnswers!PermitsMatchPieces
    /\ focus = "wire_browser" =>
          WireBrowser!TypeOK /\ WireBrowser!AnswersOwnRequest
          /\ WireBrowser!DispatchedWhole /\ WireBrowser!PermitsMatchPieces
    /\ focus = "wire_uploads" =>
          WireUploads!TypeOK /\ WireUploads!AnswersOwnRequest
          /\ WireUploads!DispatchedWhole /\ WireUploads!PermitsMatchPieces
    /\ focus = "channel_one" => ChannelOne!ChannelSafe
    /\ focus = "oram_uncached" => OramUncached!OramSafe
    /\ focus = "oram_two" => OramTwo!OramSafe
    /\ focus = "onion_few" => OnionFew!WorkerSafe

(***************************************************************************)
(* Frames of honest peers. Every decoder reads a whole request or response *)
(* as its writer meant it; one that lost its end is refused, or is what an *)
(* older peer sends and is read as that; client, browser and server price  *)
(* a request frame alike; and a cut error text is not shown as the whole.  *)
(***************************************************************************)
WireUnderstood ==
    /\ focus = "requests" =>
          Requests!RequestsUnderstood /\ Requests!ShortRefused /\ Requests!PriceAgrees
          /\ Requests!BrowserClassifies /\ Requests!CountsSeen
    /\ focus = "responses" =>
          Responses!ResponsesUnderstood /\ Responses!OlderServersRead
          /\ Responses!BrowserCatalogAgrees /\ Responses!ErrorTextRead

(***************************************************************************)
(* A server that started on a directory of mixed or cut files. A group it  *)
(* hands out is exactly that group of the mapped file; a scan of an        *)
(* anchored table never aborts; a whole manifest binds the Merkle files    *)
(* and the listed sibling levels to its build; and the seeds it announces  *)
(* pass the check clients make against the anchor.                         *)
(***************************************************************************)
LoadSafe ==
    focus = "load" =>
          Load!GroupsAligned /\ Load!AnchoredScansWhole /\ Load!ManifestBindsMerkle
          /\ Load!SeedsVerify

(***************************************************************************)
(* A batch or registration call of an OnionPIR client ends, also when      *)
(* clients evict each other in turn; and the permits of a chunked upload   *)
(* are given back, whatever the client does in the middle of it ("Control  *)
(* traffic cannot keep a partial upload alive").                           *)
(***************************************************************************)
EveryCallReturns ==
    /\ \A c \in {c1, c2} :
          (focus = "onion_few" /\ onion_rpc[c] # "idle") ~> (focus = "onion_few" /\ onion_rpc[c] = "idle")
    /\ \A t \in WireUploads!Tasks :
          (focus = "wire_uploads" /\ permits[t] > 0) ~> (focus = "wire_uploads" /\ permits[t] = 0)
=============================================================================
