-------------------------- MODULE DirectoryCatalog --------------------------
(***************************************************************************)
(* The service directory end to end: the publisher's workstation (the      *)
(* script scripts/directory-publish.sh and the bpir-admin commands it      *)
(* runs), the relays that hold what it sends, and a client that refreshes  *)
(* its catalog against its stored floors.                                  *)
(*                                                                         *)
(* One run of the script reads the announcements, decides a line per       *)
(* provider, signs an entry or a tombstone for each and a checkpoint per   *)
(* shard, sends them one by one to every relay in turn, and only when      *)
(* every one was acknowledged rewrites its ledger.  A session may lose an  *)
(* acknowledgement or die, the workstation may stop anywhere, and clients  *)
(* read shard by shard while all this goes on.                             *)
(***************************************************************************)
EXTENDS DirectoryRules, SequencesExt

CONSTANTS Providers,
          Listed,    \* providers the operator starts out listing by hand
          ShardOf,   \* provider -> shard
          Relays,    \* sequence of relays, in publishing order
          Span,      \* longest validity, and the one the script signs for
          MaxTime,   \* bound on the clock
          Runs,      \* bound on runs of the script
          Faults,    \* bound on lost acknowledgements and crashes
          Moves,     \* bound on hand-listed providers the operator unlists
          News,      \* bound on announcements
          Refreshes  \* bound on the client's refreshes

Shards == {ShardOf[p] : p \in Providers}

RelaySet == {Relays[i] : i \in DOMAIN Relays}

VARIABLES now, file, board, ledger, announced, run, relay, client,
          ok,        \* runs that succeeded since the last one that did not
          signed,    \* history: every event signed for publication
          left       \* what remains of the bounds

vars == <<now, file, board, ledger, announced, run, relay, client, ok, signed, left>>

NoLine == [name |-> "none", seq |-> 0, op |-> 0]

NoView == [s \in Shards |-> <<>>]

TypeOK ==
    /\ now \in 1..MaxTime
    /\ file \in [Providers -> {"absent", "key", "retired"}]
    /\ \A p \in Providers : ledger.line[p].name \in {"none", "hand", "node"}
    /\ \A p \in Providers : announced[p] = <<>> \/ announced[p][1].op > 0
    /\ \A r \in RelaySet : relay[r] \subseteq signed
    /\ \A p \in Providers : client.entry[p] = <<>> \/ FloorValid(client.entry[p][1])
    /\ \A s \in Shards : client.check[s] = <<>> \/ FloorValid(client.check[s][1])
    /\ ok \in 0..Runs

Init ==
    /\ now = 1
    /\ file = [p \in Providers |-> IF p \in Listed THEN "key" ELSE "absent"]
    /\ board = [p \in Providers |-> <<>>]
    /\ ledger = [line |-> [p \in Providers |-> NoLine], epoch |-> 0]
    /\ announced = [p \in Providers |-> <<>>]
    /\ run = <<>>
    /\ relay = [r \in RelaySet |-> {}]
    /\ client = [entry |-> [p \in Providers |-> <<>>], check |-> [s \in Shards |-> <<>>],
                 view |-> [r \in RelaySet |-> NoView], shown |-> NoView, until |-> 0]
    /\ ok = 0
    /\ signed = {}
    /\ left = [runs |-> Runs, faults |-> Faults, moves |-> Moves, news |-> News,
               refreshes |-> Refreshes]

----------------------------------------------------------------------------
(* Operators and time.                                                     *)

\* A run takes seconds, validity is counted in days.
Tick ==
    /\ now < MaxTime /\ run = <<>>
    /\ now' = now + 1
    /\ UNCHANGED <<file, board, ledger, announced, run, relay, client, ok, signed, left>>

\* bpir-admin announce: the board keeps a node's newest announcement.  The
\* operator should raise the epoch with every new assertion and may forget.
Announce(p) ==
    /\ left.news > 0
    /\ left' = [left EXCEPT !.news = @ - 1]
    /\ LET last == IF board[p] = <<>> THEN 1 ELSE board[p][1].op
       IN \E op \in last..(last + 1) :
          board' = [board EXCEPT ![p] = <<[op |-> op, digest |-> now,
                                           from |-> now, to |-> now + Span]>>]
    /\ UNCHANGED <<now, file, ledger, announced, run, relay, client, ok, signed>>

\* The operator edits providers.tsv: a line's source becomes `retired`, or a
\* node that announces itself is no longer listed by hand.
Retire(p) ==
    /\ file[p] = "key" /\ ledger.line[p].name = "hand"
    /\ file' = [file EXCEPT ![p] = "retired"]
    /\ UNCHANGED <<now, board, ledger, announced, run, relay, client, ok, signed, left>>

Unlist(p) ==
    /\ file[p] # "absent" /\ board[p] # <<>>
    /\ left.moves > 0
    /\ left' = [left EXCEPT !.moves = @ - 1]
    /\ file' = [file EXCEPT ![p] = "absent"]
    /\ UNCHANGED <<now, board, ledger, announced, run, relay, client, ok, signed>>

----------------------------------------------------------------------------
(* One run of the script.                                                  *)

\* check_epoch: a higher epoch than last listed, or the same assertion for a
\* node not dropped since.
CheckEpoch(p) ==
    LET a == board[p][1]
    IN announced[p] # <<>> =>
         LET old == announced[p][1]
         IN a.op > old.op \/ (~old.retired /\ a.digest = old.digest)

\* run_announcements: the announced nodes that verify, follow their last
\* listing and pass the live check; providers whose ledger line is a hand
\* listing are skipped.
AnnouncedNodes(live) ==
    {p \in Providers :
        /\ board[p] # <<>> /\ p \in live
        /\ ledger.line[p].name # "hand"
        /\ board[p][1].from <= now /\ now <= board[p][1].to
        /\ CheckEpoch(p)}

\* The lines of the run: the file's, the announced nodes, and every node of
\* the ledger that is not among them as retired.
Lines(nodes) ==
    [p \in Providers |->
        IF p \in nodes THEN "node"
        ELSE IF ledger.line[p].name = "node" THEN "gone"
        ELSE file[p]]

\* The ledger's sequence under the line's name; a node-<id> line also finds
\* the one its provider id has under another name.
PrevSequence(p, line) ==
    IF line \in {"node", "gone"} \/ ledger.line[p].name = "hand"
    THEN ledger.line[p].seq ELSE 0

\* directory-artifact entry and tombstone: an entry lives no longer than the
\* assertion inside it.
SignedEntry(p, line) ==
    LET a == IF line = "node" THEN board[p][1]
             ELSE [op |-> ledger.line[p].op + 1, digest |-> now, from |-> now, to |-> now + Span]
        base == [kind |-> "entry", provider |-> p, id |-> now, at |-> now,
                 seq |-> PrevSequence(p, line) + 1]
    IN IF line \in {"gone", "retired"}
       THEN base @@ [status |-> "Tombstone", until |-> now + Span,
                     op |-> 0, digest |-> 0, from |-> 0, to |-> 0]
       ELSE base @@ [status |-> "Active", op |-> a.op, digest |-> a.digest,
                     from |-> a.from, to |-> a.to,
                     until |-> IF a.to < now + Span THEN a.to ELSE now + Span]

SignedCheckpoint(s, entries) ==
    [kind |-> "checkpoint", shard |-> s, epoch |-> ledger.epoch + 1, id |-> now, at |-> now,
     from |-> now, until |-> now + Span,
     members |-> {Member(e) : e \in {f \in entries : ShardOf[f.provider] = s}}]

\* The ledger and the announced/ directory a successful run leaves.
NextLedger(lines, entries) ==
    [line |-> [p \in Providers |->
        IF lines[p] = "absent" THEN NoLine
        ELSE LET e == CHOOSE e \in entries : e.provider = p
             IN [name |-> IF lines[p] \in {"node", "gone"} THEN "node" ELSE "hand",
                 seq |-> e.seq,
                 op |-> IF lines[p] = "key" THEN e.op ELSE ledger.line[p].op]],
     epoch |-> ledger.epoch + 1]

NextAnnounced(nodes) ==
    [p \in Providers |->
        IF p \in nodes
        THEN <<[op |-> board[p][1].op, digest |-> board[p][1].digest, retired |-> FALSE]>>
        ELSE IF announced[p] # <<>> THEN <<[announced[p][1] EXCEPT !.retired = TRUE]>>
        ELSE <<>>]

\* Sign everything.  Nodes whose name is in the file and on the board both
\* cannot occur: such a node is skipped once the ledger holds its line.
StartRun(live) ==
    /\ run = <<>>
    /\ left.runs > 0
    /\ \A e \in signed : e.at < now
    /\ LET nodes == AnnouncedNodes(live)
           lines == Lines(nodes)
           entries == {SignedEntry(p, lines[p]) : p \in {q \in Providers : lines[q] # "absent"}}
           checks == {SignedCheckpoint(s, entries) : s \in Shards}
           queue == SetToSeq(entries) \o SetToSeq(checks)
       IN /\ entries # {}
          /\ \A p \in nodes : file[p] = "absent"
          /\ run' = <<[sends |-> FlattenSeq([i \in DOMAIN Relays |->
                                   [j \in DOMAIN queue |-> [to |-> Relays[i], ev |-> queue[j]]]]),
                       failed |-> FALSE, events |-> entries \cup checks,
                       ledger |-> NextLedger(lines, entries),
                       announced |-> NextAnnounced(nodes)]>>
          /\ signed' = signed \cup entries \cup checks
    /\ left' = [left EXCEPT !.runs = @ - 1]
    /\ UNCHANGED <<now, file, board, ledger, announced, relay, client, ok>>

HeadsAt(r, s) ==
    {e \in Heads(relay[r]) : (IF e.kind = "entry" THEN ShardOf[e.provider] ELSE e.shard) = s}

\* The relay's answer to one event, positive when it is saved or there.
Takes(r, e) ==
    \/ e \in relay[r]
    \/ \A f \in relay[r] : Coordinate(f) = Coordinate(e) => Beats(e, f)

\* publish_websocket_session_v1: one event, one positive OK.
Send ==
    /\ run # <<>> /\ run[1].sends # <<>>
    /\ LET next == Head(run[1].sends)
       IN /\ Takes(next.to, next.ev)
          /\ relay' = [relay EXCEPT ![next.to] = @ \cup {next.ev}]
          /\ run' = <<[run[1] EXCEPT !.sends = Tail(@)]>>
    /\ UNCHANGED <<now, file, board, ledger, announced, client, ok, signed, left>>

\* The session ends early: the relay refuses the event, or the connection or
\* the timeout cuts it with the event stored or not.  The relays after this
\* one are still tried.
SendFails ==
    /\ run # <<>> /\ run[1].sends # <<>>
    /\ LET next == Head(run[1].sends)
       IN /\ IF Takes(next.to, next.ev)
             THEN /\ left.faults > 0
                  /\ left' = [left EXCEPT !.faults = @ - 1]
                  /\ \E stored \in SUBSET {next.ev} :
                       relay' = [relay EXCEPT ![next.to] = @ \cup stored]
             ELSE UNCHANGED <<relay, left>>
          /\ run' = <<[run[1] EXCEPT !.failed = TRUE,
                                    !.sends = SelectSeq(@, LAMBDA d : d.to # next.to)]>>
    /\ UNCHANGED <<now, file, board, ledger, announced, client, ok, signed>>

\* Every relay acknowledged every event: the ledger is rewritten.  Otherwise
\* the script stops and leaves it as it was.
EndRun ==
    /\ run # <<>> /\ run[1].sends = <<>>
    /\ IF run[1].failed
       THEN ok' = 0 /\ UNCHANGED <<ledger, announced>>
       ELSE ledger' = run[1].ledger /\ announced' = run[1].announced /\ ok' = ok + 1
    /\ run' = <<>>
    /\ UNCHANGED <<now, file, board, relay, client, signed, left>>

\* The workstation stops in the middle of a run.
StopRun ==
    /\ run # <<>> /\ left.faults > 0
    /\ left' = [left EXCEPT !.faults = @ - 1]
    /\ run' = <<>> /\ ok' = 0
    /\ UNCHANGED <<now, file, board, ledger, announced, relay, client, signed>>

----------------------------------------------------------------------------
(* A client.                                                               *)

\* One shard subscription reaches EOSE: the heads of the shard at one
\* instant.
ReadShard(r, s) ==
    /\ client.view[r][s] = <<>>
    /\ left.refreshes > 0
    /\ client' = [client EXCEPT !.view[r][s] = <<HeadsAt(r, s)>>]
    /\ UNCHANGED <<now, file, board, ledger, announced, run, relay, ok, signed, left>>

\* verify_shard_view and accept_view: every head is current, there is a
\* checkpoint, each event may follow its floor, and the entries are exactly
\* the committed ones.
Acceptable(heads) ==
    LET checks == {h \in heads : h.kind = "checkpoint"}
        entries == heads \ checks
    IN /\ \A e \in entries : EntryCurrent(e, now, Span)
       /\ \A c \in checks : CheckpointCurrent(c, now, Span)
       /\ \A e \in entries : Prepare(e, client.entry[e.provider]) # {}
       /\ \E c \in checks : /\ Prepare(c, client.check[c.shard]) # {}
                            /\ BindsShard(c, entries, ShardOf)

CheckOf(heads) == CHOOSE h \in heads : h.kind = "checkpoint"

\* select_view: nothing when two views of one epoch differ, else the newest.
SelectView(views) ==
    IF \E v, w \in views : /\ CheckOf(v).epoch = CheckOf(w).epoch
                           /\ <<CatalogRoot(CheckOf(v)), CheckOf(v).id>>
                                # <<CatalogRoot(CheckOf(w)), CheckOf(w).id>>
    THEN {}
    ELSE {v \in views : \A w \in views : CheckOf(w).epoch <= CheckOf(v).epoch}

ValidUntil(heads) == {h.until : h \in heads}

\* The catalog of the views, {} or one per shard: what is shown, until when
\* it is valid, and the floors, which advance where a shard was accepted and
\* are stored before use.
verify_directory_catalog_views_v1(views) ==
    LET picked == [s \in Shards |->
            SelectView({v \in {view[s][1] : view \in views} : Acceptable(v)})]
        of(s) == CHOOSE v \in picked[s] : TRUE
        got == {s \in Shards : picked[s] # {}}
        ends == UNION {ValidUntil(of(s)) : s \in got}
        listed(p) == IF ShardOf[p] \in got THEN {e \in of(ShardOf[p]) : e.kind = "entry" /\ e.provider = p}
                     ELSE {}
    IN  [entry |-> [p \in Providers |->
            IF listed(p) = {} THEN client.entry[p]
            ELSE SetToSeq(Prepare(CHOOSE e \in listed(p) : TRUE, client.entry[p]))],
         check |-> [s \in Shards |->
            IF s \in got THEN SetToSeq(Prepare(CheckOf(of(s)), client.check[s]))
            ELSE client.check[s]],
         shown |-> [s \in Shards |-> IF s \in got THEN <<of(s)>> ELSE <<>>],
         until |-> IF got = {} THEN 0 ELSE CHOOSE t \in ends : \A u \in ends : t <= u]

\* discover_directory_v1: the relays whose every shard was read count, the
\* others are reported as unreachable.
Refresh ==
    /\ LET full == {r \in RelaySet : \A s \in Shards : client.view[r][s] # <<>>}
       IN /\ full # {}
          /\ client' = verify_directory_catalog_views_v1({client.view[r] : r \in full})
                         @@ [view |-> [r \in RelaySet |-> NoView]]
    /\ left' = [left EXCEPT !.refreshes = @ - 1]
    /\ UNCHANGED <<now, file, board, ledger, announced, run, relay, ok, signed>>

----------------------------------------------------------------------------

Next ==
    \/ Tick
    \/ \E p \in Providers : Announce(p) \/ Retire(p) \/ Unlist(p)
    \/ \E live \in SUBSET {p \in Providers : board[p] # <<>>} : StartRun(live)
    \/ Send
    \/ SendFails
    \/ EndRun
    \/ StopRun
    \/ \E r \in RelaySet, s \in Shards : ReadShard(r, s)
    \/ Refresh

Spec == Init /\ [][Next]_vars

----------------------------------------------------------------------------
(* Properties.                                                             *)

\* What every relay holds for a run is acceptable to the client as it is.
HeadsAcceptable ==
    (\A e \in UNION {Heads(relay[r]) : r \in RelaySet} :
        IF e.kind = "entry" THEN EntryCurrent(e, now, Span) ELSE CheckpointCurrent(e, now, Span))
      => \A r \in RelaySet, s \in Shards : Acceptable(HeadsAt(r, s))

\* After a run that succeeded, and while what it signed has not expired, the
\* client accepts every shard of every relay, whatever it accepted before.
PublishedIsAccepted == (run = <<>> /\ ok >= 1) => HeadsAcceptable

\* A run that failed part-way can leave a client holding an event whose
\* sequence the next run signs again; two runs later it accepts everything.
AcceptedAfterTwo == (run = <<>> /\ ok >= 2) => HeadsAcceptable

\* The ledger is never ahead of the relays: each holds the entry of every
\* line and the checkpoint of every shard that the ledger records.
LedgerBacked ==
    \A r \in RelaySet :
        /\ \A p \in Providers : ledger.line[p].seq > 0 =>
             \E e \in relay[r] : e.kind = "entry" /\ e.provider = p /\ e.seq = ledger.line[p].seq
        /\ ledger.epoch > 0 => \A s \in Shards :
             \E c \in relay[r] : c.kind = "checkpoint" /\ c.shard = s /\ c.epoch = ledger.epoch

\* The sequences and checkpoint epochs of the events that reach a relay
\* strictly increase with the time of signing.
NumbersIncrease ==
    \A r \in RelaySet : \A e, f \in relay[r] :
        (Coordinate(e) = Coordinate(f) /\ e.at < f.at) =>
            IF e.kind = "entry" THEN e.seq < f.seq ELSE e.epoch < f.epoch

\* What a client shows of a shard was signed in one run, and is all that run
\* signed for the shard, though it read while a run was being published.
ShownIsOneRun ==
    \A s \in Shards : client.shown[s] # <<>> =>
        LET v == client.shown[s][1]
        IN v = {e \in signed : /\ e.at = CheckOf(v).at
                               /\ (IF e.kind = "entry" THEN ShardOf[e.provider] ELSE e.shard) = s}

\* As long as the client's catalog says it is valid, everything in it is
\* current, however much time has passed since the refresh.
ValidWhileCurrent ==
    now <= client.until =>
        \A s \in Shards : client.shown[s] # <<>> => \A h \in client.shown[s][1] :
            IF h.kind = "entry" THEN EntryCurrent(h, now, Span) ELSE CheckpointCurrent(h, now, Span)

=============================================================================
