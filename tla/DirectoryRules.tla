--------------------------- MODULE DirectoryRules ---------------------------
(***************************************************************************)
(* The rules by which a client of the Nostr service directory accepts a    *)
(* signed event: is it current, may it follow what this client accepted    *)
(* before, which of two events of one coordinate does a relay keep, and    *)
(* does a set of entries make up exactly the shard a checkpoint commits    *)
(* to.  DirectoryFloors and DirectoryCatalog run them.                     *)
(*                                                                         *)
(* An event is a record.  Entries have the fields kind = "entry",          *)
(* provider, seq (directory_sequence), status, until                       *)
(* (directory_valid_until), and op (epoch of the inner operator            *)
(* assertion), digest, from and to (its digest and validity); a tombstone  *)
(* has op = digest = 0.  Checkpoints have kind = "checkpoint", shard,      *)
(* epoch, from, until and members, the set of [provider, seq, id] they     *)
(* commit to.  Both have id, a number whose order stands for the           *)
(* lexicographic order of the hash, and at (created_at).  Signatures and   *)
(* hashes are the identity of the record.  An optional value is a          *)
(* sequence of length at most one.                                         *)
(***************************************************************************)
EXTENDS Integers, FiniteSets

Coordinate(e) ==
    IF e.kind = "entry" THEN <<"entry", e.provider>> ELSE <<"checkpoint", e.shard>>

\* NIP-01: the later event wins, on a tie the lower id.
Beats(e, head) == e.at > head.at \/ (e.at = head.at /\ e.id < head.id)

\* The one event of each coordinate that a relay keeps of a set of events.
Heads(events) ==
    {e \in events : \A f \in events \ {e} : Coordinate(f) = Coordinate(e) => Beats(e, f)}

----------------------------------------------------------------------------
(* Is the event current?                                                   *)

\* The operator assertion inside an active entry is valid now, and its
\* window is one a signer may give.
AssertionCurrent(e, now, span) ==
    /\ e.op > 0
    /\ e.from > 0 /\ e.from <= e.to /\ e.to - e.from <= span
    /\ e.from <= now /\ now <= e.to

EntryContentCurrent(e, now, span) ==
    /\ e.seq > 0
    /\ now <= e.until /\ e.until - now <= span
    /\ \/ /\ e.status = "Active"
          /\ e.until <= e.to
          /\ AssertionCurrent(e, now, span)
       \/ e.status = "Tombstone" /\ e.op = 0

EntryCurrent(e, now, span) ==
    /\ e.at > 0 /\ e.at <= now
    /\ EntryContentCurrent(e, now, span)
    /\ e.at <= e.until /\ e.until - e.at <= span
    /\ e.status = "Active" => e.from <= e.at /\ e.at <= e.to

CheckpointContentCurrent(c, now, span) ==
    /\ c.epoch > 0
    /\ c.from > 0 /\ c.from <= now /\ now <= c.until
    /\ c.until - c.from <= span

CheckpointCurrent(c, now, span) ==
    /\ c.at > 0 /\ c.at <= now
    /\ CheckpointContentCurrent(c, now, span)
    /\ c.from <= c.at /\ c.at <= c.until

\* What the hash in a checkpoint covers.
CatalogRoot(c) == <<c.shard, c.epoch, c.from, c.until, c.members>>

----------------------------------------------------------------------------
(* May the event follow the floor cur, an optional earlier state?          *)

EntryReplays(e, floor) ==
    /\ e.seq = floor.seq /\ e.id = floor.id
    /\ e.at = floor.at /\ e.status = floor.status

OperatorMayFollow(e, floor) ==
    /\ floor.status = "Tombstone" => e.op > floor.op
    /\ e.op >= floor.op
    /\ e.op = floor.op => e.digest = floor.digest

EntryAdvances(e, floor) ==
    /\ e.seq > floor.seq
    /\ e.at > floor.at
    /\ e.status = "Active" => OperatorMayFollow(e, floor)

\* The floor after e: a tombstone keeps the operator epoch of its
\* predecessor, so that a return has to exceed it.
EntryState(e, cur) ==
    LET keep == e.status = "Tombstone" /\ cur # <<>>
    IN [seq |-> e.seq, id |-> e.id, at |-> e.at, status |-> e.status,
        op |-> IF keep THEN cur[1].op ELSE e.op,
        digest |-> IF keep THEN cur[1].digest ELSE e.digest]

\* Every way a floor may continue: none when e is refused, the floor itself
\* when e is the event already accepted.
PrepareEntry(e, cur) ==
    IF cur # <<>> /\ EntryReplays(e, cur[1]) THEN {cur[1]}
    ELSE {s \in {EntryState(e, cur)} : cur = <<>> \/ EntryAdvances(e, cur[1])}

CheckpointReplays(c, floor) ==
    c.epoch = floor.seq /\ CatalogRoot(c) = floor.root /\ c.id = floor.id /\ c.at = floor.at

CheckpointState(c) == [seq |-> c.epoch, root |-> CatalogRoot(c), id |-> c.id, at |-> c.at]

PrepareCheckpoint(c, cur) ==
    IF cur # <<>> /\ CheckpointReplays(c, cur[1]) THEN {cur[1]}
    ELSE {s \in {CheckpointState(c)} :
            cur = <<>> \/ (c.epoch > cur[1].seq /\ c.at > cur[1].at)}

Prepare(e, cur) ==
    IF e.kind = "entry" THEN PrepareEntry(e, cur) ELSE PrepareCheckpoint(e, cur)

\* A floor that decodes: no zero field, an operator epoch exactly when there
\* is a digest, and always for an active entry.
FloorValid(floor) ==
    /\ floor.seq > 0 /\ floor.at > 0
    /\ "op" \in DOMAIN floor =>
         /\ (floor.op = 0) = (floor.digest = 0)
         /\ floor.status = "Active" => floor.op > 0

----------------------------------------------------------------------------
(* Do the entries make up the shard the checkpoint commits to?             *)

Member(e) == [provider |-> e.provider, seq |-> e.seq, id |-> e.id]

\* Mutant of BindsShard: the providers are compared, not the events.
BindsProviders(c, entries, shardOf) ==
    {e.provider : e \in entries} = {m.provider : m \in c.members}

BindsShard(c, entries, shardOf) ==
    /\ Cardinality(entries) = Cardinality(c.members)
    /\ {Member(e) : e \in entries} = c.members
    /\ \A e \in entries : shardOf[e.provider] = c.shard
=============================================================================
