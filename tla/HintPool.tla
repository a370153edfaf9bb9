------------------------------- MODULE HintPool -------------------------------
(***************************************************************************)
(* The pre-computed HarmonyPIR hint pool (apps/server/src/hint_pool.rs):   *)
(* server processes that share one pool directory, each with a generator   *)
(* thread, request handlers that take entries, start-up from the directory *)
(* and crashes.                                                            *)
(*                                                                         *)
(* An entry is named by its PRP key, drawn fresh by the generator.  A      *)
(* binding stands for the fingerprint of the database (and backend) that   *)
(* the entry was computed from; a process may come back with another one.  *)
(* System calls and critical sections of the entries mutex are the steps.  *)
(***************************************************************************)
EXTENDS Naturals, Sequences, FiniteSets

CONSTANTS Procs,        \* server processes that share the directory
          Keys,         \* PRP keys; bounds how many entries are generated
          Bindings,     \* databases the processes may serve
          PoolSize,     \* config.pool_size
          MaxLosses     \* bound: power failures

ASSUME PoolAssumption == PoolSize \in Nat \ {0} /\ "none" \notin Bindings
ASSUME BindingsAssumption == IsFiniteSet(Bindings)

VARIABLES made,         \* made[k]: the binding k was computed for
          file,         \* file[k]: what pool_<k>.hints holds
          tmp,          \* temporary files, <<key, process>>
          up,           \* up[p]: "down", "loading" or "up"
          binding,      \* binding[p]: the database p serves
          load,         \* load[p]: directory entries start-up has yet to read
          mem,          \* mem[p]: HintPool.entries, front first
          gen,          \* gen[p]: the generator thread
          hand,         \* hand[p]: entries popped whose file is to be removed
          served,       \* served[k]: how often k was handed to a client
          servedFor,    \* servedFor[k]: bindings of the processes that did
          durable,      \* durable[k]: what would survive of pool_<k>.hints
          losses        \* power failures so far

vars == <<made, file, tmp, up, binding, load, mem, gen, hand, served, servedFor>>
powerVars == <<vars, durable, losses>>

None == "none"

Entry(k, persisted) == [key |-> k, persisted |-> persisted]

\* The generator: waiting for room, or with a key and how far it got.
Idle == [step |-> "idle", key |-> None]
At(step, k) == [step |-> step, key |-> k]

Init ==
    /\ made = [k \in Keys |-> None]
    /\ file = [k \in Keys |-> None]
    /\ tmp = {}
    /\ up = [p \in Procs |-> "down"]
    /\ binding \in [Procs -> Bindings]
    /\ load = [p \in Procs |-> {}]
    /\ mem = [p \in Procs |-> <<>>]
    /\ gen = [p \in Procs |-> Idle]
    /\ hand = [p \in Procs |-> {}]
    /\ served = [k \in Keys |-> 0]
    /\ servedFor = [k \in Keys |-> {}]

-----------------------------------------------------------------------------
(* Start-up: HintPool::new and open_pool_directory.                        *)

\* The directory is listed: temporary files, whoever wrote them, are removed
\* and every pool file becomes a candidate.  The listing is one step: a file
\* that appears or goes while it runs is as one that does so before or after.
Start(p, b) ==
    /\ up[p] = "down"
    /\ up' = [up EXCEPT ![p] = "loading"]
    /\ binding' = [binding EXCEPT ![p] = b]
    /\ tmp' = {}
    /\ load' = [load EXCEPT ![p] = {k \in Keys : file[k] # None}]
    /\ UNCHANGED <<made, file, mem, gen, hand, served, servedFor>>

Usable(p, k) == file[k] = "ok" /\ made[k] = binding[p]

\* Mutant of LoadFile: the fingerprint is not compared.
LoadAnyFile(p, k) ==
    /\ up[p] = "loading" /\ k \in load[p] /\ Len(mem[p]) < PoolSize
    /\ load' = [load EXCEPT ![p] = @ \ {k}]
    /\ IF file[k] = "ok"
         THEN mem' = [mem EXCEPT ![p] = Append(@, Entry(k, TRUE))] /\ UNCHANGED file
         ELSE file' = [file EXCEPT ![k] = None] /\ UNCHANGED mem
    /\ UNCHANGED <<made, tmp, up, binding, gen, hand, served, servedFor>>

\* One candidate (they are sorted by their random keys, so in any order): a
\* complete file for this database is loaded; any other is removed, and one
\* that is gone is passed over.
LoadFile(p, k) ==
    /\ up[p] = "loading" /\ k \in load[p] /\ Len(mem[p]) < PoolSize
    /\ load' = [load EXCEPT ![p] = @ \ {k}]
    /\ IF Usable(p, k)
         THEN mem' = [mem EXCEPT ![p] = Append(@, Entry(k, TRUE))] /\ UNCHANGED file
         ELSE file' = [file EXCEPT ![k] = None] /\ UNCHANGED mem
    /\ UNCHANGED <<made, tmp, up, binding, gen, hand, served, servedFor>>

Ready(p) ==
    /\ up[p] = "loading"
    /\ load[p] = {} \/ Len(mem[p]) >= PoolSize
    /\ up' = [up EXCEPT ![p] = "up"]
    /\ load' = [load EXCEPT ![p] = {}]
    /\ UNCHANGED <<made, file, tmp, binding, mem, gen, hand, served, servedFor>>

-----------------------------------------------------------------------------
(* The generator thread: generation_loop and persist_pool_entry.           *)

\* There is room: an entry is computed under a fresh random key.
Generate(p, k) ==
    /\ up[p] = "up" /\ gen[p] = Idle /\ Len(mem[p]) < PoolSize
    /\ made[k] = None
    /\ made' = [made EXCEPT ![k] = binding[p]]
    /\ gen' = [gen EXCEPT ![p] = At("write", k)]
    /\ UNCHANGED <<file, tmp, up, binding, load, mem, hand, served, servedFor>>

WriteTmp(p) ==
    /\ gen[p].step = "write"
    /\ tmp' = tmp \cup {<<gen[p].key, p>>}
    /\ gen' = [gen EXCEPT ![p].step = "rename"]
    /\ UNCHANGED <<made, file, up, binding, load, mem, hand, served, servedFor>>

\* The rename succeeds only while the temporary file is still there.
Rename(p) ==
    /\ gen[p].step = "rename" /\ <<gen[p].key, p>> \in tmp
    /\ tmp' = tmp \ {<<gen[p].key, p>>}
    /\ file' = [file EXCEPT ![gen[p].key] = "ok"]
    /\ gen' = [gen EXCEPT ![p].step = "push_file"]
    /\ UNCHANGED <<made, up, binding, load, mem, hand, served, servedFor>>

\* Mutant of PersistFails: the entry is pushed as if its file existed.
PersistFailsUnnoticed(p) ==
    /\ gen[p].step \in {"write", "rename"}
    /\ tmp' = tmp \ {<<gen[p].key, p>>}
    /\ gen' = [gen EXCEPT ![p].step = "push_file"]
    /\ UNCHANGED <<made, file, up, binding, load, mem, hand, served, servedFor>>

\* Any I/O error, the vanished temporary file included, or a pool without a
\* directory: the entry is served from memory only.
PersistFails(p) ==
    /\ gen[p].step \in {"write", "rename"}
    /\ tmp' = tmp \ {<<gen[p].key, p>>}
    /\ gen' = [gen EXCEPT ![p].step = "push"]
    /\ UNCHANGED <<made, file, up, binding, load, mem, hand, served, servedFor>>

Push(p) ==
    /\ gen[p].step \in {"push", "push_file"}
    /\ mem' = [mem EXCEPT ![p] = Append(@, Entry(gen[p].key, gen[p].step = "push_file"))]
    /\ gen' = [gen EXCEPT ![p] = Idle]
    /\ UNCHANGED <<made, file, tmp, up, binding, load, hand, served, servedFor>>

-----------------------------------------------------------------------------
(* HintPool::try_take.  Several handlers may be between their pop and      *)
(* their remove_file; each is an element of hand[p].                       *)

HandOut(p, k) ==
    /\ served' = [served EXCEPT ![k] = @ + 1]
    /\ servedFor' = [servedFor EXCEPT ![k] = @ \cup {binding[p]}]

\* An entry without a file is returned at once.
TakeFromMemory(p) ==
    /\ up[p] = "up" /\ mem[p] # <<>> /\ ~Head(mem[p]).persisted
    /\ HandOut(p, Head(mem[p]).key)
    /\ mem' = [mem EXCEPT ![p] = Tail(@)]
    /\ UNCHANGED <<made, file, tmp, up, binding, load, gen, hand>>

Pop(p) ==
    /\ up[p] = "up" /\ mem[p] # <<>> /\ Head(mem[p]).persisted
    /\ hand' = [hand EXCEPT ![p] = @ \cup {Head(mem[p]).key}]
    /\ mem' = [mem EXCEPT ![p] = Tail(@)]
    /\ UNCHANGED <<made, file, tmp, up, binding, load, gen, served, servedFor>>

\* remove_file succeeds: this handler, and no other, owns the entry.
RemoveOk(p, k) ==
    /\ k \in hand[p] /\ file[k] # None
    /\ file' = [file EXCEPT ![k] = None]
    /\ hand' = [hand EXCEPT ![p] = @ \ {k}]
    /\ HandOut(p, k)
    /\ UNCHANGED <<made, tmp, up, binding, load, mem, gen>>

\* Mutant of RemoveMissing: a missing file is taken for a removed one.
RemoveMissingServes(p, k) ==
    /\ k \in hand[p] /\ file[k] = None
    /\ hand' = [hand EXCEPT ![p] = @ \ {k}]
    /\ HandOut(p, k)
    /\ UNCHANGED <<made, file, tmp, up, binding, load, mem, gen>>

\* NotFound: another process took it, and the entry is skipped.
RemoveMissing(p, k) ==
    /\ k \in hand[p] /\ file[k] = None
    /\ hand' = [hand EXCEPT ![p] = @ \ {k}]
    /\ UNCHANGED <<made, file, tmp, up, binding, load, mem, gen, served, servedFor>>

\* Any other error: the file stays, and the entry is dropped.
RemoveFails(p, k) ==
    /\ k \in hand[p] /\ file[k] # None
    /\ hand' = [hand EXCEPT ![p] = @ \ {k}]
    /\ UNCHANGED <<made, file, tmp, up, binding, load, mem, gen, served, servedFor>>

-----------------------------------------------------------------------------
\* The process dies at any point (or is shut down); the directory stays.
Crash(p) ==
    /\ up[p] # "down"
    /\ up' = [up EXCEPT ![p] = "down"]
    /\ load' = [load EXCEPT ![p] = {}]
    /\ mem' = [mem EXCEPT ![p] = <<>>]
    /\ gen' = [gen EXCEPT ![p] = Idle]
    /\ hand' = [hand EXCEPT ![p] = {}]
    /\ UNCHANGED <<made, file, tmp, binding, served, servedFor>>

Next ==
    \E p \in Procs :
       \/ \E b \in Bindings : Start(p, b)
       \/ \E k \in Keys : LoadFile(p, k) \/ Generate(p, k)
       \/ Ready(p) \/ WriteTmp(p) \/ Rename(p) \/ PersistFails(p) \/ Push(p)
       \/ TakeFromMemory(p) \/ Pop(p)
       \/ \E k \in Keys : RemoveOk(p, k) \/ RemoveMissing(p, k) \/ RemoveFails(p, k)
       \/ Crash(p)

Spec == Init /\ [][Next]_vars

-----------------------------------------------------------------------------
(* The pool on a host that may lose power.  hint_pool.rs writes, renames   *)
(* and unlinks without fsync, so what the directory holds on disk lags     *)
(* behind what the processes see until the kernel writes it back.  The     *)
(* file system is external: it is modelled by what POSIX promises to calls *)
(* that are not followed by fsync.                                         *)

PowerInit == Init /\ durable = [k \in Keys |-> None] /\ losses = 0

\* The kernel writes one directory entry and its data back.
Writeback(k) ==
    /\ durable[k] # file[k]
    /\ durable' = [durable EXCEPT ![k] = file[k]]
    /\ UNCHANGED <<vars, losses>>

\* What a power failure may leave of k: the current file or the last one
\* written back; a new name may be there before its data is.
Survivors(k) ==
    {file[k], durable[k]} \cup (IF file[k] = "ok" /\ durable[k] = None
                                  THEN {"torn"} ELSE {})

PowerLoss ==
    /\ losses < MaxLosses
    /\ losses' = losses + 1
    /\ file' \in [Keys -> {None, "ok", "torn"}]
    /\ \A k \in Keys : file'[k] \in Survivors(k)
    /\ durable' = file'
    /\ up' = [p \in Procs |-> "down"]
    /\ load' = [p \in Procs |-> {}]
    /\ mem' = [p \in Procs |-> <<>>]
    /\ gen' = [p \in Procs |-> Idle]
    /\ hand' = [p \in Procs |-> {}]
    /\ UNCHANGED <<made, tmp, binding, served, servedFor>>

\* Steps of the processes, between two power failures.
PoolNext == Next /\ UNCHANGED <<durable, losses>>

PowerNext ==
    \/ PoolNext
    \/ \E k \in Keys : Writeback(k)
    \/ PowerLoss

PowerSpec == PowerInit /\ [][PowerNext]_powerVars

-----------------------------------------------------------------------------
GenSteps == {"idle", "write", "rename", "push", "push_file"}

TypeOK ==
    /\ made \in [Keys -> Bindings \cup {None}]
    /\ file \in [Keys -> {None, "ok", "torn"}]
    /\ tmp \subseteq Keys \X Procs
    /\ up \in [Procs -> {"down", "loading", "up"}]
    /\ binding \in [Procs -> Bindings]
    /\ load \in [Procs -> SUBSET Keys]
    /\ mem \in [Procs -> Seq([key : Keys, persisted : BOOLEAN])]
    /\ gen \in [Procs -> [step : GenSteps, key : Keys \cup {None}]]
    /\ \A p \in Procs : gen[p].step # "idle" => gen[p].key \in Keys
    /\ hand \in [Procs -> SUBSET Keys]
    /\ served \in [Keys -> Nat]
    /\ servedFor \in [Keys -> SUBSET Bindings]

(***************************************************************************)
(* "Taking an entry removes its file first, so a hint set is served at     *)
(* most once even when processes share the directory": over all processes, *)
(* restarts, failed writes and failed removals, try_take returns an entry  *)
(* at most once.                                                           *)
(***************************************************************************)
ServedAtMostOnce == \A k \in Keys : served[k] <= 1

(***************************************************************************)
(* A file may be reused after a restart only by a server of the same       *)
(* database: an entry is never served for another binding than the one it  *)
(* was computed for.                                                       *)
(***************************************************************************)
ServedForItsDatabase == \A k \in Keys : servedFor[k] \subseteq {made[k]}

(***************************************************************************)
(* The pool implements the abstract supply: every step of every process    *)
(* either makes a fresh entry, gives an entry away for the first time and  *)
(* for its own database, or changes nothing a client could see.            *)
(***************************************************************************)
Supply == INSTANCE HintSupply WITH given <- served, givenFor <- servedFor

ImplementsSupply == Supply!Spec

(***************************************************************************)
(* The generator keeps the pool filled "to config.pool_size": loading,     *)
(* generating and taking together never hold more entries than that, the   *)
(* entry under construction included.                                      *)
(***************************************************************************)
PoolBounded ==
    \A p \in Procs : /\ Len(mem[p]) <= PoolSize
                     /\ gen[p] # Idle => Len(mem[p]) < PoolSize

(***************************************************************************)
(* While every process serves the same database, try_take skips an entry   *)
(* only because a client got it: the file of an entry believed to be       *)
(* persisted is missing only if the entry was served.  Neither start-up of *)
(* another process nor a failed write makes a usable entry disappear.      *)
(***************************************************************************)
SkippedWasServed ==
    Cardinality(Bindings) = 1 =>
       \A p \in Procs : \A k \in hand[p] : file[k] = None => served[k] = 1

\* What the pool promises whatever processes crash and restart: an entry is
\* served at most once and for the database it was computed from, and no
\* process holds more entries than pool_size.
PoolSafe == TypeOK /\ ServedAtMostOnce /\ ServedForItsDatabase /\ PoolBounded

(***************************************************************************)
(* "The checksum catches a file torn by a crash; it is removed on the next *)
(* load" (persist_pool_entry): no process ever holds an entry read from a  *)
(* torn file, so only complete hint sets are served.                       *)
(***************************************************************************)
TornNeverLoaded ==
    \A p \in Procs : \A k \in Keys :
       file[k] = "torn" =>
          /\ k \notin hand[p]
          /\ \A i \in DOMAIN mem[p] : mem[p][i].key # k
=============================================================================
