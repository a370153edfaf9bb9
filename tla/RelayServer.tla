----------------------------- MODULE RelayServer ----------------------------
(***************************************************************************)
(* The directory relay: connections of a public and of a publisher lane,   *)
(* one SQLite store behind a mutex, and the board of node announcements.   *)
(* A connection handles one message after the other.  What touches the     *)
(* store first takes a permit of its lane and then a global one, runs on a *)
(* blocking thread that holds both, and gives them back; a catalog request *)
(* freezes the list of event ids and then loads it page by page, taking    *)
(* the permits anew for each page, while publishers go on.  The relay may  *)
(* crash at any point and restart on what was committed.                   *)
(*                                                                         *)
(* An event is a record as in DirectoryRules; entries also have shard.     *)
(* Its size is one unit, an EOSE's is one unit.  Rate limits are a free    *)
(* choice here: any message may meet one or not.                           *)
(***************************************************************************)
EXTENDS DirectoryRules, SequencesExt

CONSTANTS Publishers,     \* connections of the publisher lane
          Readers,        \* connections of the public lane
          Events,         \* signed directory events
          News,           \* announcements: [node, id, at, until]
          GlobalSlots,    \* max_in_flight_operations
          ShardCapacity,  \* entries of one shard
          ArchiveCapacity,
          BoardCapacity,
          PageSize,       \* events of one page
          Egress,         \* bytes one connection may be sent
          Work,           \* bound and budget: messages of one connection
          MaxTime,
          Crashes         \* bound

Lanes == {"public", "publisher"}

Conns == Publishers \cup Readers

LaneOf(c) == IF c \in Readers THEN "public" ELSE "publisher"

VARIABLES slots,    \* permits of each lane
          archive,  \* durable: the events table
          heads,    \* durable: the address_heads table, a set of events
          count,    \* durable: archive_event_count
          board,    \* in memory: announcements by node
          conn,     \* what each connection is doing
          acked, nacked, \* history: events answered with OK true, OK false
          now, crashes

vars == <<slots, archive, heads, count, board, conn, acked, nacked, now, crashes>>

\* RelayConfig::try_from: the lanes exactly partition the global limit.
Partition(s) ==
    /\ \A l \in Lanes : s[l] > 0 /\ s[l] <= GlobalSlots
    /\ s["public"] + s["publisher"] = GlobalSlots

Closed == [pc |-> "closed"]

Fresh == [pc |-> "idle", work |-> Work, egress |-> Egress, got |-> <<>>, was |-> {}]

TypeOK ==
    /\ Partition(slots)
    /\ archive \subseteq Events /\ heads \subseteq archive
    /\ count \in 0..ArchiveCapacity
    /\ \A n \in DOMAIN board : board[n] \in News
    /\ \A c \in Conns : conn[c] # Closed =>
         /\ conn[c].pc \in {"idle", "lane", "global", "run"}
         /\ conn[c].work \in 0..Work /\ conn[c].egress \in 0..Egress
    /\ acked \subseteq Events /\ nacked \subseteq Events
    /\ now \in 1..MaxTime

Init ==
    /\ slots \in {s \in [Lanes -> 0..GlobalSlots] : Partition(s)}
    /\ archive = {} /\ heads = {} /\ count = 0
    /\ board = <<>>
    /\ conn = [c \in Conns |-> Closed]
    /\ acked = {} /\ nacked = {}
    /\ now = 1 /\ crashes = 0

----------------------------------------------------------------------------
(* Connections and permits.                                                *)

Set(c, value) == conn' = [conn EXCEPT ![c] = value]

Store == <<archive, heads, count>>

Accept(c) ==
    /\ conn[c] = Closed
    /\ Set(c, Fresh)
    /\ UNCHANGED <<slots, archive, heads, count, board, acked, nacked, now, crashes>>

\* The peer leaves, a deadline passes, or a frame cannot be sent in time.
\* What a blocking thread has started it finishes.
Leave(c) ==
    /\ conn[c].pc \in {"idle", "lane", "global"}
    /\ Set(c, Closed)
    /\ UNCHANGED <<slots, archive, heads, count, board, acked, nacked, now, crashes>>

\* Permits of a lane, and of the whole relay, that are taken.
LaneTaken(l) == Cardinality({c \in Conns : LaneOf(c) = l /\ conn[c].pc \in {"global", "run"}})

GlobalTaken == Cardinality({c \in Conns : conn[c].pc = "run"})

\* acquire_operation_permits: the lane's first, then the global one.
TakeLane(c) ==
    /\ conn[c].pc = "lane"
    /\ LaneTaken(LaneOf(c)) < slots[LaneOf(c)]
    /\ Set(c, [conn[c] EXCEPT !.pc = "global"])
    /\ UNCHANGED <<slots, archive, heads, count, board, acked, nacked, now, crashes>>

TakeGlobal(c) ==
    /\ conn[c].pc = "global"
    /\ GlobalTaken < GlobalSlots
    /\ Set(c, [conn[c] EXCEPT !.pc = "run"])
    /\ UNCHANGED <<slots, archive, heads, count, board, acked, nacked, now, crashes>>

----------------------------------------------------------------------------
(* The publisher lane: EVENT.                                              *)

\* handle_connection: over the rate the connection is closed without an
\* answer, else the time is read and the permits are waited for.
Event(c, e) ==
    /\ conn[c].pc = "idle" /\ conn[c].work > 0
    /\ \/ Set(c, Closed)
       \/ Set(c, [pc |-> "lane", work |-> conn[c].work - 1, egress |-> conn[c].egress,
                  got |-> <<>>, was |-> {}, op |-> "ingest", ev |-> e, at |-> now])
    /\ UNCHANGED <<slots, archive, heads, count, board, acked, nacked, now, crashes>>

\* validate_current_event_profile at the time of receipt.
Current(e, t) == e.at <= t /\ t <= e.until

ShardEntries(s, kind) == {h \in heads : h.shard = s /\ h.kind = kind}

HeadOf(e) == {h \in heads : Coordinate(h) = Coordinate(e)}

\* Mutant: the validity is checked before the archive.
DispositionCurrentFirst(e, t) ==
    IF ~Current(e, t) THEN "InvalidCurrentEvent"
    ELSE IF e \in archive THEN "Duplicate"
    ELSE IF \E h \in HeadOf(e) : ~Beats(e, h) THEN "ReplacedByNewer"
    ELSE IF count >= ArchiveCapacity THEN "ArchiveCapacityExceeded"
    ELSE "Saved"

Disposition(e, t) ==
    IF e \in archive THEN "Duplicate"
    ELSE IF ~Current(e, t) THEN "InvalidCurrentEvent"
    ELSE IF \E h \in HeadOf(e) : ~Beats(e, h) THEN "ReplacedByNewer"
    ELSE IF /\ HeadOf(e) = {}
            /\ Cardinality(ShardEntries(e.shard, e.kind))
                 >= (IF e.kind = "entry" THEN ShardCapacity ELSE 1)
         THEN "ShardCapacityExceeded"
    ELSE IF count >= ArchiveCapacity THEN "ArchiveCapacityExceeded"
    ELSE "Saved"

\* The transaction of ingest_with_commit.
Commit(e) ==
    /\ archive' = archive \cup {e}
    /\ heads' = (heads \ HeadOf(e)) \cup {e}
    /\ count' = count + 1

Ingest(c) ==
    /\ conn[c].pc = "run" /\ conn[c].op = "ingest"
    /\ LET e == conn[c].ev
           d == Disposition(e, conn[c].at)
       IN /\ IF d = "Saved" THEN Commit(e) ELSE UNCHANGED Store
          /\ IF d \in {"Saved", "Duplicate"}
             THEN acked' = acked \cup {e} /\ UNCHANGED nacked
             ELSE nacked' = nacked \cup {e} /\ UNCHANGED acked
    /\ Set(c, [Fresh EXCEPT !.work = conn[c].work, !.egress = conn[c].egress])
    /\ UNCHANGED <<slots, board, now, crashes>>

\* The store fails or is interrupted: the transaction may or may not have
\* been committed, and the connection is closed without an answer.
IngestFails(c) ==
    /\ conn[c].pc = "run" /\ conn[c].op = "ingest"
    /\ \/ UNCHANGED Store
       \/ Disposition(conn[c].ev, conn[c].at) = "Saved" /\ Commit(conn[c].ev)
    /\ Set(c, Closed)
    /\ UNCHANGED <<slots, board, acked, nacked, now, crashes>>

----------------------------------------------------------------------------
(* The public lane: REQ and announcements.                                 *)

\* A catalog request of one shard or a readback of given ids; over the rate
\* it is answered with CLOSED.
Req(c, filter) ==
    /\ conn[c].pc = "idle" /\ conn[c].work > 0
    /\ Set(c, [pc |-> "lane", work |-> conn[c].work - 1, egress |-> conn[c].egress,
               got |-> <<>>, was |-> {}, op |-> "freeze", filter |-> filter])
    /\ UNCHANGED <<slots, archive, heads, count, board, acked, nacked, now, crashes>>

\* freeze_snapshot: the ids of a shard's heads, or those asked for that exist.
Plan(filter) ==
    SetToSeq(IF filter.ids = {} THEN {h \in heads : h.shard = filter.shard}
             ELSE archive \cap filter.ids)

\* The whole answer is reserved from the connection's budget before its
\* first event is sent; over the budget the connection is closed.
Freeze(c) ==
    /\ conn[c].pc = "run" /\ conn[c].op = "freeze"
    /\ LET plan == Plan(conn[c].filter)
       IN Set(c, IF Len(plan) + 1 > conn[c].egress THEN Closed
                 ELSE [pc |-> IF plan = <<>> THEN "idle" ELSE "lane", work |-> conn[c].work,
                       egress |-> conn[c].egress - (Len(plan) + 1),
                       got |-> <<>>, was |-> ToSet(plan), op |-> "page", plan |-> plan,
                       filter |-> conn[c].filter])
    /\ UNCHANGED <<slots, archive, heads, count, board, acked, nacked, now, crashes>>

\* Mutant: a page holds what the ids' coordinates have by now.
LoadNow(ids) ==
    [i \in DOMAIN ids |-> CHOOSE h \in heads : Coordinate(h) = Coordinate(ids[i])]

\* load_snapshot_page: from the archive, which loses nothing.
Load(ids) == SelectSeq(ids, LAMBDA e : e \in archive)

\* One page is loaded and sent; after the last one EOSE.
Page(c) ==
    /\ conn[c].pc = "run" /\ conn[c].op = "page"
    /\ LET n == IF Len(conn[c].plan) < PageSize THEN Len(conn[c].plan) ELSE PageSize
           ids == SubSeq(conn[c].plan, 1, n)
           rest == SubSeq(conn[c].plan, n + 1, Len(conn[c].plan))
       IN Set(c, IF Len(Load(ids)) # n THEN Closed
                 ELSE [conn[c] EXCEPT !.pc = IF rest = <<>> THEN "idle" ELSE "lane",
                                      !.plan = rest, !.got = @ \o Load(ids)])
    /\ UNCHANGED <<slots, archive, heads, count, board, acked, nacked, now, crashes>>

\* A read fails: CLOSED for the freeze, a closed connection for a page.
ReadFails(c) ==
    /\ conn[c].pc = "run" /\ conn[c].op \in {"freeze", "page"}
    /\ Set(c, IF conn[c].op = "page" THEN Closed
              ELSE [Fresh EXCEPT !.work = conn[c].work, !.egress = conn[c].egress])
    /\ UNCHANGED <<slots, archive, heads, count, board, acked, nacked, now, crashes>>

Prune(b) == Restrict(b, {n \in DOMAIN b : b[n].until >= now})

\* AnnouncementBoard::offer.
Offer(a) ==
    LET b == Prune(board)
    IN IF a.node \in DOMAIN b /\ ~Beats(a, b[a.node]) THEN b
       ELSE IF a.node \notin DOMAIN b /\ Cardinality(DOMAIN b) >= BoardCapacity THEN b
       ELSE (a.node :> a) @@ b

\* An announcement is current when it is parsed, or not an announcement.
Announce(c, a) ==
    /\ conn[c].pc = "idle" /\ conn[c].work > 0 /\ conn[c].egress > 0
    /\ a.at <= now /\ now <= a.until
    /\ board' = Offer(a)
    /\ Set(c, [conn[c] EXCEPT !.work = @ - 1, !.egress = @ - 1])
    /\ UNCHANGED <<slots, archive, heads, count, acked, nacked, now, crashes>>

----------------------------------------------------------------------------

\* The stored counter is the number of archived events, within capacity.
ArchiveCounted == count = Cardinality(archive) /\ count <= ArchiveCapacity

\* The heads are exactly the winners of the archive, and no shard has more
\* of them than the protocol allows.
HeadsValidate ==
    /\ heads = Heads(archive)
    /\ \A h \in heads : /\ Cardinality(ShardEntries(h.shard, "entry")) <= ShardCapacity
                        /\ Cardinality(ShardEntries(h.shard, "checkpoint")) <= 1

\* full_startup_validation, before the relay serves.
StartupValidates == ArchiveCounted /\ HeadsValidate

\* A crash and a restart: the board is forgotten, every connection is gone,
\* and the relay serves again if what is on disk validates.
Crash ==
    /\ crashes < Crashes
    /\ StartupValidates
    /\ crashes' = crashes + 1
    /\ board' = <<>>
    /\ conn' = [c \in Conns |-> Closed]
    /\ UNCHANGED <<slots, archive, heads, count, acked, nacked, now>>

Tick ==
    /\ now < MaxTime
    /\ now' = now + 1
    /\ UNCHANGED <<slots, archive, heads, count, board, conn, acked, nacked, crashes>>

Filters == [shard : {e.shard : e \in Events}, ids : {{}, Events}]

Next ==
    \/ \E c \in Conns : \/ Accept(c) \/ Leave(c) \/ TakeLane(c) \/ TakeGlobal(c)
                        \/ Ingest(c) \/ IngestFails(c)
                        \/ Freeze(c) \/ Page(c) \/ ReadFails(c)
    \/ \E c \in Publishers, e \in Events : Event(c, e)
    \/ \E c \in Readers : \/ \E f \in Filters : Req(c, f)
                          \/ \E a \in News : Announce(c, a)
    \/ Crash
    \/ Tick

Spec == Init /\ [][Next]_vars

----------------------------------------------------------------------------
(* Properties.                                                             *)

\* In whatever order events of one coordinate arrive, are retried or fail,
\* what is on disk passes the validation of the next start.
Restartable == StartupValidates

\* A reader that has its EOSE got exactly the events the relay held at the
\* instant the snapshot was frozen, each once, though pages were loaded while
\* publishers replaced them.
SnapshotIsInstant ==
    \A c \in Readers :
        (conn[c].pc = "idle" /\ conn[c].got # <<>>) =>
            /\ ToSet(conn[c].got) = conn[c].was
            /\ Len(conn[c].got) = Cardinality(conn[c].was)

\* One catalog answer never holds two events of one coordinate.
OneEventPerCoordinate ==
    \A c \in {r \in Readers : conn[r] # Closed} :
        (conn[c].got # <<>> /\ conn[c].filter.ids = {}) =>
            \A i, j \in DOMAIN conn[c].got :
                Coordinate(conn[c].got[i]) = Coordinate(conn[c].got[j]) => i = j

\* An event of which the publisher was told OK true is never answered OK
\* false, however it is retried: its retry may come after it expired or was
\* replaced, or meet a rate limit or a failing store.
AckIsFinal == \A e \in acked : e \notin nacked' \ nacked

\* Nor is an event refused that is in the archive, acknowledged or not: a
\* publisher that is told OK false knows that no client will see it.
NackIsTrue == (nacked' \ nacked) \cap archive' = {}

\* A positive answer is durable: the event is there after any crash.
AckedIsArchived == acked \subseteq archive

\* A connection that holds a permit of its lane is never kept waiting for
\* the global one: a lane cannot block the other.
NoGlobalWait ==
    \A c \in Conns : conn[c].pc = "global" => GlobalTaken < GlobalSlots

\* No answer is cut by the byte budget: once an event of it was sent, the
\* budget covers the rest, and the sum never exceeds what one connection may
\* be sent.
AnswersFitBudget ==
    \A c \in Readers : (conn[c] # Closed /\ conn[c].got # <<>>) =>
        Len(conn[c].got) + conn[c].egress < Egress

=============================================================================
