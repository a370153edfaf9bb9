----------------------------- MODULE OramLookup -----------------------------
(***************************************************************************)
(* Direct ORAM lookups (unified_server/oram.rs, sdk/client/oram.rs): a     *)
(* request reads the INDEX tree and the CHUNK tree, both reads rewrite the *)
(* pages, and the request then commits each half: flush the pages, save    *)
(* the controller state, save the authentication state.  The process may   *)
(* die between any two of these, or any of them may fail.                  *)
(*                                                                         *)
(* A half is known by its version: every access makes a new one.  With a   *)
(* front cache the root of the tree reaches the disk only in the flush.    *)
(***************************************************************************)
EXTENDS Integers, Sequences

CONSTANTS Clients, Scripts,
          None,           \* no client, no script
          HashFns,        \* INDEX reads per slot
          AccessBudget,   \* access_budget
          Cached,         \* cache_levels > 0
          MaxRequests,    \* bound: requests per client
          MaxCrashes,     \* bound
          MaxFaults       \* bound: failed page or file operations

NoneAssumption == None \notin Clients
OramLookupAssumption ==
    /\ NoneAssumption
    /\ HashFns \in Nat \ {0} /\ AccessBudget \in Nat \ {0} /\ Cached \in BOOLEAN
    /\ MaxRequests \in Nat /\ MaxCrashes \in Nat /\ MaxFaults \in Nat

VARIABLES chunks,         \* chunks[s]: number of chunks, 0 for a whale, or -1
          up,             \* the server runs
          root, saved, auth,        \* on disk: tree root, state file, auth file
          alien,          \* pages of a lost version are on the disk
          ver, view,      \* in memory: controller, and the pages it sees
          trust,          \* in memory: the root pages are checked against
          latest,         \* versions made: the newest of each half
          dirty, poisoned,
          lock,           \* request_transaction
          tx,             \* tx[c]: the request the server works on for c
          inbox, outbox,  \* frames of the connection of c
          asked,          \* asked[c]: slots of the call in progress
          issued,         \* issued[c]: requests sent
          late,           \* late[c]: a call was given up on this connection
          last,           \* last[c]: last outcome of a call
          audit,          \* how the last transaction ended
          crashes, faults

disk == <<root, saved, auth, alien>>
mem == <<ver, view, trust, dirty, poisoned>>
wire == <<inbox, outbox, asked, issued, late, last>>
oramVars == <<chunks, up, disk, mem, latest, lock, tx, wire, audit, crashes, faults>>

Halves == {"index", "chunk"}
Both(x) == [h \in Halves |-> x]
NoTx == [pc |-> "none"]
Fault == faults < MaxFaults /\ faults' = faults + 1

OramInit ==
    /\ chunks \in [Scripts -> {-1, 0, 1, 2}]
    /\ up = TRUE /\ root = Both(0) /\ saved = Both(0) /\ auth = Both(0) /\ alien = Both(FALSE)
    /\ ver = Both(0) /\ view = Both(0) /\ trust = Both(0) /\ latest = Both(0)
    /\ dirty = Both(FALSE) /\ poisoned = Both(FALSE)
    /\ lock = None /\ tx = [c \in Clients |-> NoTx]
    /\ inbox = [c \in Clients |-> <<>>] /\ outbox = [c \in Clients |-> <<>>]
    /\ asked = [c \in Clients |-> <<>>] /\ issued = [c \in Clients |-> 0]
    /\ late = [c \in Clients |-> FALSE] /\ last = [c \in Clients |-> NoTx]
    /\ audit = [end |-> "none", reads |-> 0] /\ crashes = 0 /\ faults = 0

-----------------------------------------------------------------------------
(* Client.                                                                 *)

\* Padding slots carry no script; the server reads the INDEX for them too.
padded_lookup_slots(s, n) == [i \in 1..n |-> IF i = 1 THEN s ELSE None]

query_batch_padded(c) ==
    /\ asked[c] = <<>> /\ issued[c] < MaxRequests
    /\ \E s \in Scripts, n \in {1, 2} :
         LET q == [id |-> issued[c] + 1, slots |-> padded_lookup_slots(s, n)]
         IN asked' = [asked EXCEPT ![c] = <<q>>] /\ inbox' = [inbox EXCEPT ![c] = Append(@, q)]
    /\ issued' = [issued EXCEPT ![c] = @ + 1]
    /\ UNCHANGED <<chunks, up, disk, mem, latest, lock, tx, outbox, late, last, audit, crashes, faults>>

\* The answer must be a result with as many items as slots were asked.
decode_oram_lookup_response(a, q) == a.ok /\ a.items = Len(q.slots)

TakeAnswer(c) == outbox' = [outbox EXCEPT ![c] = Tail(@)]

Receive(c) ==
    /\ asked[c] # <<>> /\ outbox[c] # <<>>
    /\ LET a == Head(outbox[c])  q == asked[c][1]
       IN last' = [last EXCEPT ![c] =
            IF decode_oram_lookup_response(a, q)
              THEN [pc |-> "ok", own |-> a.id = q.id, late |-> late[c], right |-> a.right, size |-> a.size, n |-> a.items]
              ELSE [pc |-> "err"]]
    /\ TakeAnswer(c) /\ asked' = [asked EXCEPT ![c] = <<>>]
    /\ UNCHANGED <<chunks, up, disk, mem, latest, lock, tx, inbox, issued, late, audit, crashes, faults>>

\* The request deadline: the answer, when it comes, stays on the socket.
GiveUp(c) ==
    /\ asked[c] # <<>>
    /\ asked' = [asked EXCEPT ![c] = <<>>] /\ late' = [late EXCEPT ![c] = TRUE]
    /\ last' = [last EXCEPT ![c] = [pc |-> "err"]]
    /\ UNCHANGED <<chunks, up, disk, mem, latest, lock, tx, inbox, outbox, issued, audit, crashes, faults>>

-----------------------------------------------------------------------------
(* Pages.                                                                  *)

\* Every read authenticates its path from the trusted root down; pages of a
\* lost version are met on some paths and not on others.
Verified(h) == view[h] = trust[h]

\* One access of k reads on half h: it rewrites the paths it reads.
Access(h, k) ==
    /\ latest' = [latest EXCEPT ![h] = @ + 1]
    /\ ver' = [ver EXCEPT ![h] = latest[h] + 1] /\ view' = [view EXCEPT ![h] = latest[h] + 1]
    /\ trust' = [trust EXCEPT ![h] = latest[h] + 1]
    /\ root' = IF Cached THEN root ELSE [root EXCEPT ![h] = latest[h] + 1]
    /\ dirty' = [dirty EXCEPT ![h] = TRUE]
    /\ UNCHANGED <<saved, auth, alien, poisoned, faults>>

\* A read that fails leaves the half between two versions, and poisoned.
Poison(S) == poisoned' = [h \in Halves |-> poisoned[h] \/ h \in S]
AccessFails(h) ==
    /\ IF Verified(h) /\ ~alien[h] THEN Fault ELSE UNCHANGED faults
    /\ latest' = [latest EXCEPT ![h] = @ + 1]
    /\ view' = [view EXCEPT ![h] = latest[h] + 1]
    /\ root' = IF Cached THEN root ELSE [root EXCEPT ![h] = latest[h] + 1]
    /\ dirty' = [dirty EXCEPT ![h] = TRUE]
    /\ Poison({h} \cup {g \in Halves : dirty[g]})
    /\ UNCHANGED <<saved, auth, alien, ver, trust>>

-----------------------------------------------------------------------------
(* Server: one request of a connection at a time, one transaction at a     *)
(* time.                                                                   *)

Demand(q) ==
    LET need(i) == IF q.slots[i] = None \/ chunks[q.slots[i]] < 0 THEN 0 ELSE chunks[q.slots[i]]
    IN IF Len(q.slots) = 2 THEN need(1) + need(2) ELSE need(1)
IndexBudget(q) == HashFns * Len(q.slots)
ChunkBudget(q) == AccessBudget - IndexBudget(q)

\* The chunk bytes of a result are padded to what the budget could carry.
direct_oram_response_padding_bytes(q) == ChunkBudget(q) - Demand(q)

Reply(c, a) ==
    /\ outbox' = [outbox EXCEPT ![c] = Append(@, a)]
    /\ tx' = [tx EXCEPT ![c] = NoTx] /\ lock' = IF lock = c THEN None ELSE lock
    /\ UNCHANGED <<inbox, asked, issued, late, last>>
Refused(c) == [id |-> tx[c].q.id, ok |-> FALSE]
Ends(e, c) == audit' = [end |-> e, reads |-> tx[c].reads]

handle_oram_lookup(c) ==
    /\ up /\ tx[c] = NoTx /\ inbox[c] # <<>>
    /\ inbox' = [inbox EXCEPT ![c] = Tail(@)]
    /\ tx' = [tx EXCEPT ![c] = [pc |-> "lock", q |-> Head(inbox[c]), reads |-> 0, right |-> TRUE]]
    /\ UNCHANGED <<chunks, up, disk, mem, latest, lock, outbox, asked, issued, late, last, audit, crashes, faults>>

\* Mutant of Preflight: only the half read first is looked at.
PreflightIndexOnly(q) == IndexBudget(q) <= AccessBudget /\ ~poisoned["index"]

\* Before anything is read: the request fits, and neither half is poisoned.
Preflight(q) == IndexBudget(q) <= AccessBudget /\ \A h \in Halves : ~poisoned[h]

Begin(c) ==
    /\ up /\ tx[c].pc = "lock" /\ lock = None
    /\ IF Preflight(tx[c].q)
         THEN /\ lock' = c /\ tx' = [tx EXCEPT ![c].pc = "index"]
              /\ UNCHANGED <<wire, audit>>
         ELSE Reply(c, Refused(c)) /\ Ends("refused", c)
    /\ UNCHANGED <<chunks, up, disk, mem, latest, crashes, faults>>

Read(c, h, k, next) ==
    /\ IF k = 0 THEN UNCHANGED <<disk, mem, latest, faults>> ELSE Verified(h) /\ Access(h, k)
    /\ tx' = [tx EXCEPT ![c] = [tx[c] EXCEPT !.pc = next, !.reads = tx[c].reads + k,
                                             !.right = tx[c].right /\ (k > 0 => ver[h] = view[h])]]
    /\ UNCHANGED <<lock, wire, audit>>

lookup_many(c) ==
    /\ up /\ tx[c].pc = "index" /\ Read(c, "index", IndexBudget(tx[c].q), "chunk")
    /\ UNCHANGED <<chunks, up, crashes>>

\* Real reads and dummies add up to the budget; a demand over the budget is
\* answered with an error after as many dummies.
Plan(q) == ChunkBudget(q)

read_chunks(c) ==
    /\ up /\ tx[c].pc = "chunk" /\ Read(c, "chunk", Plan(tx[c].q), "flush_index")
    /\ UNCHANGED <<chunks, up, crashes>>

\* Any failed access poisons its half, and every half already changed.
ReadFails(c) ==
    /\ up
    /\ \/ tx[c].pc = "index" /\ AccessFails("index")
       \/ tx[c].pc = "chunk" /\ Plan(tx[c].q) > 0 /\ AccessFails("chunk")
    /\ Reply(c, Refused(c)) /\ Ends("poisoned", c)
    /\ UNCHANGED <<chunks, up, crashes>>

-----------------------------------------------------------------------------
(* Commit: finish_direct_oram_request on INDEX, then on CHUNK.             *)

HalfOf(pc) == IF pc \in {"flush_index", "state_index", "auth_index"} THEN "index" ELSE "chunk"

After(pc) ==
    CASE pc = "flush_index" -> "state_index" [] pc = "state_index" -> "auth_index"
      [] pc = "auth_index" -> "flush_chunk"  [] pc = "flush_chunk" -> "state_chunk"
      [] pc = "state_chunk" -> "auth_chunk"  [] pc = "auth_chunk" -> "reply"
AtStep(c, pcs) == up /\ tx[c].pc \in pcs
Forward(c) == tx' = [tx EXCEPT ![c].pc = After(@)]

flush_oram(h) == root' = [root EXCEPT ![h] = view[h]]

\* A clean half is skipped; a request without chunk reads commits INDEX only.
Flush(c) ==
    /\ AtStep(c, {"flush_index", "flush_chunk"})
    /\ LET h == HalfOf(tx[c].pc)
       IN IF ~dirty[h]
            THEN /\ tx' = [tx EXCEPT ![c].pc = IF h = "index" THEN "flush_chunk" ELSE "reply"]
                 /\ UNCHANGED root
            ELSE flush_oram(h) /\ Forward(c)
    /\ UNCHANGED <<chunks, up, saved, auth, alien, mem, latest, lock, wire, audit, crashes, faults>>

\* The snapshot was taken with the reader locked and binds the trusted root.
save_circuit_oram_state(c) ==
    /\ AtStep(c, {"state_index", "state_chunk"})
    /\ saved' = [saved EXCEPT ![HalfOf(tx[c].pc)] = ver[HalfOf(tx[c].pc)]]
    /\ Forward(c)
    /\ UNCHANGED <<chunks, up, root, auth, alien, mem, latest, lock, wire, audit, crashes, faults>>

save_circuit_store_auth(c) ==
    /\ AtStep(c, {"auth_index", "auth_chunk"})
    /\ LET h == HalfOf(tx[c].pc)
       IN auth' = [auth EXCEPT ![h] = trust[h]] /\ dirty' = [dirty EXCEPT ![h] = FALSE]
    /\ Forward(c)
    /\ UNCHANGED <<chunks, up, root, saved, alien, ver, view, trust, poisoned, latest, lock, wire, audit, crashes, faults>>

\* A failed step poisons its half; INDEX failing also poisons a dirty CHUNK.
CommitFails(c) ==
    /\ AtStep(c, {"flush_index", "state_index", "auth_index", "flush_chunk", "state_chunk", "auth_chunk"})
    /\ dirty[HalfOf(tx[c].pc)] /\ Fault
    /\ Poison({HalfOf(tx[c].pc)} \cup {h \in Halves : HalfOf(tx[c].pc) = "index" /\ dirty[h]})
    /\ Reply(c, Refused(c)) /\ Ends("poisoned", c)
    /\ UNCHANGED <<chunks, up, disk, ver, view, trust, dirty, latest, crashes>>

Answer(c) ==
    /\ AtStep(c, {"reply"})
    /\ LET q == tx[c].q
       IN IF Demand(q) > ChunkBudget(q)
            THEN Reply(c, Refused(c)) /\ Ends("over", c)
            ELSE /\ Reply(c, [id |-> q.id, ok |-> TRUE, items |-> Len(q.slots), right |-> tx[c].right,
                              size |-> Demand(q) + direct_oram_response_padding_bytes(q)])
                 /\ Ends("ok", c)
    /\ UNCHANGED <<chunks, up, disk, mem, latest, crashes, faults>>

-----------------------------------------------------------------------------
(* Process death and start-up.                                             *)

\* Connections die with the process; a page cache that was not flushed leaves
\* lower pages of the lost version under the old root.
Crash ==
    /\ up /\ crashes < MaxCrashes
    /\ up' = FALSE /\ crashes' = crashes + 1
    /\ alien' = [h \in Halves |-> alien[h] \/ (Cached /\ view[h] # root[h])]
    /\ lock' = None /\ tx' = [c \in Clients |-> NoTx]
    /\ inbox' = [c \in Clients |-> <<>>] /\ outbox' = [c \in Clients |-> <<>>]
    /\ last' = [c \in Clients |-> IF asked[c] = <<>> THEN last[c] ELSE [pc |-> "err"]]
    /\ asked' = [c \in Clients |-> <<>>] /\ late' = [c \in Clients |-> FALSE]
    /\ UNCHANGED <<chunks, root, saved, auth, mem, latest, issued, audit, faults>>

\* Mutant of open_existing_direct_oram_stores: the separate file is trusted.
OpenAuthFile == auth

\* The root bound into the state file is the one pages are checked against;
\* the separate auth file is read only for a state that binds none.
open_existing_direct_oram_stores == saved

open_with_trusted_state ==
    /\ ~up /\ up' = TRUE
    /\ ver' = saved /\ view' = root /\ trust' = open_existing_direct_oram_stores
    /\ dirty' = Both(FALSE) /\ poisoned' = Both(FALSE)
    /\ UNCHANGED <<chunks, disk, latest, lock, tx, wire, audit, crashes, faults>>

OramNext ==
    \/ Crash \/ open_with_trusted_state
    \/ \E c \in Clients :
         \/ query_batch_padded(c) \/ Receive(c) \/ GiveUp(c) \/ handle_oram_lookup(c) \/ Begin(c)
         \/ lookup_many(c) \/ read_chunks(c) \/ ReadFails(c) \/ Flush(c)
         \/ save_circuit_oram_state(c) \/ save_circuit_store_auth(c) \/ CommitFails(c) \/ Answer(c)

OramSpec == OramInit /\ [][OramNext]_oramVars

-----------------------------------------------------------------------------
(* Properties.                                                             *)

OramTypeOK ==
    /\ lock \in Clients \cup {None}
    /\ \A c \in Clients : (tx[c].pc \notin {"none", "lock"}) <=> (lock = c)
    /\ \A h \in Halves : /\ {root[h], saved[h], auth[h], ver[h], view[h], trust[h]} \subseteq 0..latest[h]
                         /\ dirty[h] \in BOOLEAN /\ poisoned[h] \in BOOLEAN /\ alien[h] \in BOOLEAN

\* Whatever a crash left on the disk, a result is read from pages of the
\* version the controller's position map belongs to.
AnswersRight == \A c \in Clients : last[c].pc = "ok" => last[c].right

\* Between transactions the disk holds the running version of both halves:
\* every answer given survives a crash, and the next start reads all of it.
QuietIsCommitted ==
    up /\ lock = None =>
      \A h \in Halves : ~poisoned[h] /\ ver[h] = view[h] => saved[h] = ver[h] /\ root[h] = view[h]

\* A start after a crash between transactions finds trees it can read: the
\* auth file may be older than the state file and that does not matter.
CleanStart ==
    up => \A h \in Halves : ver[h] = view[h] => Verified(h)

\* Once a half is poisoned neither half is read again by this process: "Fail
\* before mutating either half if a prior request already made the paired
\* database unusable."
NoReadAfterPoison == (\E h \in Halves : poisoned[h]) /\ up /\ up' => latest' = latest

\* The same for every step of a behaviour: only a start ends the refusal.
PoisonFinal == [][NoReadAfterPoison]_oramVars

\* A request that runs to its end makes access_budget reads, found or not,
\* and also when its chunks do not fit.
FixedReads == audit.end \in {"ok", "over"} => audit.reads = AccessBudget

\* A result belongs to the call that returns it, unless an earlier call on the
\* connection was given up: nothing in a result names the request.
OwnResult == \A c \in Clients : last[c].pc = "ok" => last[c].own \/ last[c].late

\* What direct lookups promise: results of the right version and of the call
\* that returns them, the same number of reads for every lookup, and a disk
\* that every start can read.
OramSafe == OramTypeOK /\ AnswersRight /\ OwnResult /\ FixedReads /\ QuietIsCommitted /\ CleanStart
=============================================================================
