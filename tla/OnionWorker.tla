---------------------------- MODULE OnionWorker ----------------------------
(***************************************************************************)
(* The OnionPIR worker of one database (unified_server/onion.rs), the      *)
(* connection tasks that queue commands for it (dispatch.rs), and the      *)
(* client's batch call with its one retry after an eviction (onion.rs of   *)
(* the SDK).                                                               *)
(*                                                                         *)
(* The worker thread takes one command at a time from a bounded channel.   *)
(* Its key store keeps the keys of the Cap connections active last and     *)
(* forgets the others without telling them: a query without keys gets an   *)
(* empty ciphertext.  Keys of closed connections are never removed.        *)
(***************************************************************************)
EXTENDS Naturals, Sequences, FiniteSets, TLAPS

CONSTANTS OnionClients, \* SDK clients
          Cap,          \* MAX_CLIENTS of the key store
          QueueCap,     \* capacity of the command channel
          Slots,        \* queries of a batch
          Levels,       \* levels asked for: "index", "chunk", "sibling"
          MaxId,        \* bound: connections accepted
          MaxCalls      \* bound: batches started

ASSUME OnionWorkerAssumption ==
    /\ Cap \in Nat \ {0} /\ QueueCap \in Nat \ {0} /\ Slots \in Nat \ {0}
    /\ MaxId \in Nat /\ MaxCalls \in Nat
    /\ Levels \subseteq {"index", "chunk", "sibling"}

VARIABLES id,           \* id[c]: client_id of c's connection, 0 without one
          accepted,     \* client_counter
          keys,         \* clients with keys, most recently used first
          tasks,        \* requests whose task has not yet queued its command
          queue,        \* the command channel
          job,          \* the command the worker is at, with its answers so far
          replies,      \* answers on their way to a client
          rpc,          \* rpc[c]: where c's batch call stands
          level,        \* level[c]: the level of c's batch
          registered,   \* registered[c]: FheState.registered of the session
          calls,        \* batches started
          outcome,      \* outcome[c]: how c's last batch ended
          since         \* since[i]: others active since i's last activity

workerVars == <<id, accepted, keys, tasks, queue, job, replies, rpc, level, registered, calls, outcome, since>>

Ids == 1..MaxId
NoJob == [id |-> 0, kind |-> "none", out |-> <<>>]
Request(i, k) == [id |-> i, kind |-> k]

WorkerInit ==
    /\ id = [c \in OnionClients |-> 0] /\ accepted = 0
    /\ keys = <<>> /\ tasks = {} /\ queue = <<>> /\ job = NoJob /\ replies = {}
    /\ rpc = [c \in OnionClients |-> "idle"] /\ level = [c \in OnionClients |-> "index"]
    /\ registered = [c \in OnionClients |-> FALSE]
    /\ calls = 0 /\ outcome = [c \in OnionClients |-> "none"]
    /\ since = [i \in Ids |-> {}]

-----------------------------------------------------------------------------
(* Connections.  The server numbers them and never takes a number back.    *)

connect(c) ==
    /\ id[c] = 0 /\ accepted < MaxId
    /\ accepted' = accepted + 1 /\ id' = [id EXCEPT ![c] = accepted + 1]
    /\ registered' = [registered EXCEPT ![c] = FALSE]
    /\ UNCHANGED <<keys, tasks, queue, job, replies, rpc, level, calls, outcome, since>>

\* The client leaves or the socket drops; what it asked is still worked on.
disconnect(c) ==
    /\ id[c] # 0
    /\ id' = [id EXCEPT ![c] = 0] /\ replies' = {r \in replies : r.id # id[c]}
    /\ rpc' = [rpc EXCEPT ![c] = "idle"] /\ registered' = [registered EXCEPT ![c] = FALSE]
    /\ UNCHANGED <<accepted, keys, tasks, queue, job, level, calls, outcome, since>>

-----------------------------------------------------------------------------
(* The client's batch call.                                                *)

Ask(c, kind) == tasks' = tasks \cup {Request(id[c], kind)}
At(c, where) == rpc' = [rpc EXCEPT ![c] = where]

\* Keys are registered once per connection before the first batch.
ensure_keys_registered(c, l) ==
    /\ id[c] # 0 /\ rpc[c] = "idle" /\ calls < MaxCalls /\ level' = [level EXCEPT ![c] = l]
    /\ calls' = calls + 1 /\ outcome' = [outcome EXCEPT ![c] = "none"]
    /\ IF registered[c] THEN At(c, "first") /\ Ask(c, l)
                        ELSE At(c, "register") /\ Ask(c, "keys")
    /\ UNCHANGED <<id, accepted, keys, queue, job, replies, registered, since>>

TakeReply(c, r) == r \in replies /\ r.id = id[c] /\ replies' = replies \ {r}

\* The acknowledgement of the first registration, or of the one before a retry.
register_keys(c) ==
    /\ rpc[c] \in {"register", "again"}
    /\ \E r \in replies : TakeReply(c, r)
    /\ registered' = [registered EXCEPT ![c] = TRUE]
    /\ At(c, IF rpc[c] = "register" THEN "first" ELSE "retry") /\ Ask(c, level[c])
    /\ UNCHANGED <<id, accepted, keys, queue, job, level, calls, outcome, since>>

batch_looks_evicted(out) == out # <<>> /\ \A s \in 1..Len(out) : out[s] = "empty"

\* An all-empty batch is retried once, after registering again.
onionpir_batch_rpc(c, r) ==
    /\ rpc[c] \in {"first", "retry"} /\ level[c] # "sibling" /\ TakeReply(c, r)
    /\ CASE ~batch_looks_evicted(r.out) ->
              At(c, "idle") /\ outcome' = [outcome EXCEPT ![c] = "ok"] /\ UNCHANGED tasks
         [] batch_looks_evicted(r.out) /\ rpc[c] = "first" ->
              At(c, "again") /\ Ask(c, "keys") /\ UNCHANGED outcome
         [] OTHER -> At(c, "idle") /\ outcome' = [outcome EXCEPT ![c] = "evicted"] /\ UNCHANGED tasks
    /\ UNCHANGED <<id, accepted, keys, queue, job, level, registered, calls, since>>

\* A sibling round of the Merkle check has no retry: an empty slot is an error.
verify_sub_tree(c, r) ==
    /\ rpc[c] = "first" /\ level[c] = "sibling" /\ TakeReply(c, r)
    /\ At(c, "idle")
    /\ outcome' = [outcome EXCEPT ![c] =
                     IF \E s \in 1..Slots : r.out[s] = "empty" THEN "failed" ELSE "ok"]
    /\ UNCHANGED <<id, accepted, keys, tasks, queue, job, level, registered, calls, since>>

-----------------------------------------------------------------------------
(* Connection tasks: the arms that send a PirCommand and await its reply.  *)

\* Mutant of dispatch: a full channel drops the command (try_send).
DispatchTries(t) ==
    /\ t \in tasks /\ tasks' = tasks \ {t}
    /\ queue' = IF Len(queue) < QueueCap THEN Append(queue, t) ELSE queue
    /\ UNCHANGED <<id, accepted, keys, job, replies, rpc, level, registered, calls, outcome, since>>

dispatch(t) ==
    /\ t \in tasks /\ Len(queue) < QueueCap
    /\ tasks' = tasks \ {t} /\ queue' = Append(queue, t)
    /\ UNCHANGED <<id, accepted, keys, job, replies, rpc, level, registered, calls, outcome, since>>

-----------------------------------------------------------------------------
(* The worker.                                                             *)

Known == {keys[n] : n \in 1..Len(keys)}

\* i at the front, taken from its place if it has one.
Place(i, ks) == CHOOSE n \in 1..Len(ks) : ks[n] = i
Front(i, ks) ==
    IF \E n \in 1..Len(ks) : ks[n] = i
      THEN [n \in 1..Len(ks) |->
              IF n = 1 THEN i ELSE IF n <= Place(i, ks) THEN ks[n - 1] ELSE ks[n]]
      ELSE <<i>> \o ks

evict_if_full(ks) == SubSeq(ks, 1, IF Len(ks) > Cap THEN Cap ELSE Len(ks))

\* What i does makes it the most recent; others see one more active client.
Active(i) == since' = [j \in Ids |-> IF j = i THEN {} ELSE since[j] \cup {i}]

blocking_recv ==
    /\ job = NoJob /\ queue # <<>>
    /\ job' = [id |-> Head(queue).id, kind |-> Head(queue).kind, out |-> <<>>]
    /\ queue' = Tail(queue)
    /\ UNCHANGED <<id, accepted, keys, tasks, replies, rpc, level, registered, calls, outcome, since>>

\* An answer for a connection that is gone is dropped by its task.
Send(out) ==
    replies' = IF \E c \in OnionClients : id[c] = job.id
                 THEN replies \cup {[id |-> job.id, kind |-> job.kind, out |-> out]} ELSE replies

\* Both key sets are stored before the acknowledgement.
RegisterKeys ==
    /\ job.kind = "keys"
    /\ keys' = evict_if_full(Front(job.id, keys)) /\ Active(job.id)
    /\ Send(<<>>) /\ job' = NoJob
    /\ UNCHANGED <<id, accepted, tasks, queue, rpc, level, registered, calls, outcome>>

\* Mutant of answer_query: registrations are served between the slots of a batch.
AnswerInterleaved ==
    /\ job.kind \in Levels /\ Len(job.out) < Slots
    /\ LET has == job.id \in Known
           reg == queue # <<>> /\ Head(queue).kind = "keys"
       IN /\ job' = [job EXCEPT !.out = Append(@, IF has THEN "full" ELSE "empty")]
          /\ keys' = IF reg THEN evict_if_full(Front(Head(queue).id, keys)) ELSE keys
          /\ queue' = IF reg THEN Tail(queue) ELSE queue
          /\ UNCHANGED since
    /\ UNCHANGED <<id, accepted, tasks, replies, rpc, level, registered, calls, outcome>>

\* One slot of a batch (or its preparation, for CHUNK); looking a client up
\* makes it the most recent.
answer_query ==
    /\ job.kind \in Levels /\ Len(job.out) < Slots
    /\ IF job.id \in Known
         THEN /\ job' = [job EXCEPT !.out = Append(@, "full")]
              /\ keys' = Front(job.id, keys) /\ Active(job.id)
         ELSE job' = [job EXCEPT !.out = Append(@, "empty")] /\ UNCHANGED <<keys, since>>
    /\ UNCHANGED <<id, accepted, tasks, queue, replies, rpc, level, registered, calls, outcome>>

\* CHUNK is answered in one pass over the shared store, after every query was
\* prepared; one that cannot be prepared empties the whole batch.
Results(j) ==
    IF j.kind = "chunk" /\ \E s \in 1..Slots : j.out[s] = "empty"
      THEN [s \in 1..Slots |-> "empty"] ELSE j.out

AnswerBatch ==
    /\ job.kind \in Levels /\ Len(job.out) = Slots
    /\ Send(Results(job)) /\ job' = NoJob
    /\ UNCHANGED <<id, accepted, keys, tasks, queue, rpc, level, registered, calls, outcome, since>>

Worker == blocking_recv \/ RegisterKeys \/ answer_query \/ AnswerBatch

ReceiveReply(c) ==
    \/ register_keys(c)
    \/ \E r \in replies : onionpir_batch_rpc(c, r) \/ verify_sub_tree(c, r)

Rpc(c) == ReceiveReply(c) \/ \E l \in Levels : ensure_keys_registered(c, l)

WorkerNext ==
    \/ Worker
    \/ \E t \in tasks : dispatch(t)
    \/ \E c \in OnionClients : connect(c) \/ disconnect(c) \/ Rpc(c)

\* The worker thread and the tasks run; a client reads the answers it waits
\* for.  Nobody must connect or start a batch.
WorkerFairness ==
    /\ WF_workerVars(Worker)
    /\ \A i \in Ids : \A k \in Levels \cup {"keys"} : SF_workerVars(dispatch(Request(i, k)))
    /\ \A c \in OnionClients : WF_workerVars(ReceiveReply(c))

WorkerSpec == WorkerInit /\ [][WorkerNext]_workerVars /\ WorkerFairness

-----------------------------------------------------------------------------
(* Properties.                                                             *)

WorkerTypeOK ==
    /\ id \in [OnionClients -> 0..accepted] /\ accepted \in 0..MaxId /\ calls \in 0..MaxCalls
    /\ Len(queue) <= QueueCap /\ Len(keys) <= Cap
    /\ rpc \in [OnionClients -> {"idle", "register", "first", "again", "retry"}]
    /\ \A r \in replies : r.id \in 1..accepted /\ Len(r.out) <= Slots

\* "either every slot is empty (we've been evicted) or every slot carries a
\* real ciphertext": no registration gets between the slots of a batch.
AllOrNothing ==
    \A r \in replies : r.kind # "keys" =>
      \A s, t \in 1..Len(r.out) : r.out[s] = r.out[t]

\* A client is forgotten only when Cap others have been active since it last
\* registered or was answered.
EvictedByCrowd ==
    \A r \in replies : (r.kind # "keys" /\ \E s \in 1..Len(r.out) : r.out[s] = "empty") =>
      Cardinality(since[r.id]) >= Cap

\* What the worker promises the clients of one database, whoever connects,
\* leaves and crowds out whom.
WorkerSafe == WorkerTypeOK /\ AllOrNothing /\ EvictedByCrowd

-----------------------------------------------------------------------------
(* What the worker promises, for any number of clients and connections and *)
(* any size of the key store, the channel and the batches.                 *)

\* The provers, in the order a leaf that names none tries them.
USE SMTT(60), ZenonT(60)

Commands == [id : Ids, kind : Levels \cup {"keys"}]
Outs == Seq({"full", "empty"})

\* Where the one request of connection i that is under way can be.
Asked(i) == \E t \in tasks : t.id = i
Queued(i) == \E n \in DOMAIN queue : queue[n].id = i
Replied(i) == \E r \in replies : r.id = i

Shapes ==
    /\ id \in [OnionClients -> 0..MaxId] /\ accepted \in 0..MaxId /\ calls \in 0..MaxCalls
    /\ keys \in Seq(Ids) /\ Len(keys) <= Cap
    /\ tasks \in SUBSET Commands
    /\ queue \in Seq(Commands) /\ Len(queue) <= QueueCap
    /\ job \in [id : 0..MaxId, kind : Levels \cup {"keys", "none"}, out : Outs]
    /\ (job.id = 0) <=> (job.kind = "none")
    /\ Len(job.out) <= Slots
    /\ replies \in SUBSET [id : Ids, kind : Levels \cup {"keys"}, out : Outs]
    /\ \A r \in replies : Len(r.out) <= Slots
    /\ rpc \in [OnionClients -> {"idle", "register", "first", "again", "retry"}]
    /\ registered \in [OnionClients -> BOOLEAN]
    /\ \A c \in OnionClients : rpc[c] # "idle" => level[c] \in Levels
    /\ DOMAIN level = OnionClients
    /\ since \in [Ids -> SUBSET Ids]

\* Numbers are given out once.
Numbered ==
    /\ \A c \in OnionClients : id[c] <= accepted
    /\ \A c, d \in OnionClients : id[c] = id[d] /\ id[c] # 0 => c = d
    /\ \A i \in Ids : Asked(i) \/ Queued(i) \/ job.id = i \/ Replied(i) => i <= accepted

\* A connection has at most one request under way, and none while its client
\* is between calls.
OneAtATime ==
    /\ \A t, u \in tasks : t.id = u.id => t = u
    /\ \A n, m \in DOMAIN queue : queue[n].id = queue[m].id => n = m
    /\ \A r, s \in replies : r.id = s.id => r = s
    /\ \A i \in Ids :
          /\ Asked(i) => ~Queued(i) /\ job.id # i /\ ~Replied(i)
          /\ Queued(i) => job.id # i /\ ~Replied(i)
          /\ Replied(i) => job.id # i
    /\ \A i \in Ids : \A c \in OnionClients :
          id[c] = i /\ rpc[c] = "idle" => ~Asked(i) /\ ~Queued(i) /\ job.id # i /\ ~Replied(i)

\* Whoever is nearer the front of the key store was active later.
Recency ==
    \A n, m \in DOMAIN keys : n < m => keys[n] # keys[m] /\ keys[n] \in since[keys[m]]

\* Connection i has registered its keys: its client knows, or a batch of it
\* or an answer to it is under way.
HasRegistered(i) ==
    \/ \E c \in OnionClients : id[c] = i /\ registered[c]
    \/ \E t \in tasks : t.id = i /\ t.kind # "keys"
    \/ \E n \in DOMAIN queue : queue[n].id = i /\ queue[n].kind # "keys"
    \/ job.id = i /\ job.kind # "keys"
    \/ Replied(i)

\* Its keys are there, or as many others as the store holds pushed them out.
KeptOrCrowded ==
    \A i \in Ids : HasRegistered(i) => i \in Known \/ Cardinality(since[i]) >= Cap

\* The slots answered so far agree with what the key store still holds.
SlotsAgree ==
    job.kind \in Levels =>
       \A s \in DOMAIN job.out : job.out[s] = (IF job.id \in Known THEN "full" ELSE "empty")

WorkerInv ==
    /\ Shapes /\ Numbered /\ OneAtATime /\ Recency /\ KeptOrCrowded /\ SlotsAgree
    /\ AllOrNothing /\ EvictedByCrowd

\* F is ks, without repetitions, with i moved or added to the front.
FrontOf(F, i, ks) ==
    /\ F \in Seq(Ids)
    /\ Len(F) = IF \E n \in DOMAIN ks : ks[n] = i THEN Len(ks) ELSE Len(ks) + 1
    /\ 1 \in DOMAIN F /\ F[1] = i
    /\ \A m \in DOMAIN F : m > 1 => F[m] # i /\ \E b \in DOMAIN ks : F[m] = ks[b]
    /\ \A n, m \in DOMAIN F : 1 < n /\ n < m =>
          \E a, b \in DOMAIN ks : a < b /\ F[n] = ks[a] /\ F[m] = ks[b]
    /\ \A b \in DOMAIN ks : \E m \in DOMAIN F : F[m] = ks[b]

\* That is what Front does.
LEMMA FrontFacts ==
    ASSUME NEW ks \in Seq(Ids), NEW i \in Ids,
           \A n, m \in DOMAIN ks : n < m => ks[n] # ks[m]
    PROVE  FrontOf(Front(i, ks), i, ks)
<1> DEFINE F == Front(i, ks)
<1>0. Len(ks) \in Nat /\ DOMAIN ks = 1..Len(ks) /\ \A n \in 1..Len(ks) : ks[n] \in Ids
  OBVIOUS
<1>1. CASE \E n \in 1..Len(ks) : ks[n] = i
  <2> DEFINE p == Place(i, ks)
  <2>1. p \in 1..Len(ks) /\ ks[p] = i
    BY <1>1 DEF Place
  <2>2. \A n \in 1..Len(ks) : n # p => ks[n] # i
    BY <1>0, <2>1
  <2>3. F = [n \in 1..Len(ks) |-> IF n = 1 THEN i ELSE IF n <= p THEN ks[n - 1] ELSE ks[n]]
    BY <1>1, Zenon DEF Front
  <2> HIDE DEF p, F
  <2>4. F \in Seq(Ids) /\ Len(F) = Len(ks) /\ DOMAIN F = 1..Len(ks)
    BY <1>0, <2>1, <2>3
  <2>5. \A n \in 1..Len(ks) :
           F[n] = IF n = 1 THEN i ELSE IF n <= p THEN ks[n - 1] ELSE ks[n]
    BY <2>3
  <2>6. 1 \in DOMAIN F /\ F[1] = i
    BY <1>0, <2>1, <2>4, <2>5
  <2>7. ASSUME NEW m \in 1..Len(ks), m > 1
        PROVE  F[m] # i /\ \E b \in 1..Len(ks) : F[m] = ks[b]
    <3>1. CASE m <= p
      <4>1. F[m] = ks[m - 1] /\ m - 1 \in 1..Len(ks) /\ m - 1 # p
        BY <1>0, <2>1, <2>5, <2>7, <3>1
      <4> QED
        BY <2>2, <4>1
    <3>2. CASE ~(m <= p)
      <4>1. F[m] = ks[m] /\ m # p
        BY <1>0, <2>1, <2>5, <2>7, <3>2
      <4> QED
        BY <2>2, <4>1
    <3> QED
      BY <3>1, <3>2
  <2>8. ASSUME NEW n \in 1..Len(ks), NEW m \in 1..Len(ks), 1 < n, n < m
        PROVE  \E a, b \in 1..Len(ks) : a < b /\ F[n] = ks[a] /\ F[m] = ks[b]
    <3>1. CASE m <= p
      <4>1. /\ n - 1 \in 1..Len(ks) /\ m - 1 \in 1..Len(ks) /\ n - 1 < m - 1
            /\ F[n] = ks[n - 1] /\ F[m] = ks[m - 1]
        BY <1>0, <2>1, <2>5, <2>8, <3>1
      <4> QED
        BY <4>1
    <3>2. CASE n <= p /\ ~(m <= p)
      BY <1>0, <2>1, <2>5, <2>8, <3>2
    <3>3. CASE ~(n <= p)
      BY <1>0, <2>1, <2>5, <2>8, <3>3
    <3> QED
      BY <1>0, <2>1, <3>1, <3>2, <3>3
  <2>9. ASSUME NEW b \in 1..Len(ks)
        PROVE  \E m \in 1..Len(ks) : F[m] = ks[b]
    <3>1. CASE b < p
      <4>1. b + 1 \in 1..Len(ks) /\ F[b + 1] = ks[b]
        BY <1>0, <2>1, <2>5, <3>1
      <4> QED
        BY <4>1
    <3>2. CASE b = p
      BY <1>0, <2>1, <2>4, <2>6, <3>2
    <3>3. CASE b > p
      BY <1>0, <2>1, <2>5, <3>3
    <3> QED
      BY <1>0, <2>1, <3>1, <3>2, <3>3
  <2>10. Len(F) = IF \E n \in DOMAIN ks : ks[n] = i THEN Len(ks) ELSE Len(ks) + 1
    BY <1>0, <1>1, <2>4, Zenon
  <2>10a. \A m \in DOMAIN F : m > 1 => F[m] # i /\ \E b \in DOMAIN ks : F[m] = ks[b]
    BY <1>0, <1>1, <2>4, <2>6, <2>7
  <2>10b. \A n, m \in DOMAIN F : 1 < n /\ n < m =>
             \E a, b \in DOMAIN ks : a < b /\ F[n] = ks[a] /\ F[m] = ks[b]
    <3> SUFFICES ASSUME NEW n \in DOMAIN F, NEW m \in DOMAIN F, 1 < n, n < m
                 PROVE  \E a, b \in DOMAIN ks : a < b /\ F[n] = ks[a] /\ F[m] = ks[b]
      OBVIOUS
    <3>1. \E a, b \in 1..Len(ks) : a < b /\ F[n] = ks[a] /\ F[m] = ks[b]
      BY <2>4, <2>8
    <3> QED
      BY <1>0, <3>1
  <2>10c. \A b \in DOMAIN ks : \E m \in DOMAIN F : F[m] = ks[b]
    BY <1>0, <2>4, <2>9, Zenon
  <2>10d. F \in Seq(Ids) /\ 1 \in DOMAIN F /\ F[1] = i
    BY <1>0, <2>4, <2>6, Zenon
  <2> QED
    BY <2>10, <2>10a, <2>10b, <2>10c, <2>10d, Zenon DEF F, FrontOf
<1>2. CASE ~\E n \in 1..Len(ks) : ks[n] = i
  <2>1. F = <<i>> \o ks
    BY <1>2, Zenon DEF Front
  <2> HIDE DEF F
  <2>2. F \in Seq(Ids) /\ Len(F) = Len(ks) + 1 /\ DOMAIN F = 1..(Len(ks) + 1)
    BY <1>0, <2>1
  <2>3. F[1] = i /\ \A m \in 1..(Len(ks) + 1) : m > 1 => F[m] = ks[m - 1] /\ m - 1 \in 1..Len(ks)
    BY <1>0, <2>1
  <2>4. \A b \in 1..Len(ks) : b + 1 \in 1..(Len(ks) + 1) /\ F[b + 1] = ks[b]
    BY <1>0, <2>1
  <2>5. ASSUME NEW n \in 1..(Len(ks) + 1), NEW m \in 1..(Len(ks) + 1), 1 < n, n < m
        PROVE  \E a, b \in 1..Len(ks) : a < b /\ F[n] = ks[a] /\ F[m] = ks[b]
    <3>1. n - 1 < m - 1
      BY <1>0, <2>5
    <3> QED
      BY <2>3, <2>5, <3>1
  <2>6. 1 \in 1..(Len(ks) + 1)
    BY <1>0
  <2>7. Len(F) = IF \E n \in DOMAIN ks : ks[n] = i THEN Len(ks) ELSE Len(ks) + 1
    BY <1>0, <1>2, <2>2
  <2>7a. \A m \in DOMAIN F : m > 1 => F[m] # i /\ \E b \in DOMAIN ks : F[m] = ks[b]
    BY <1>0, <1>2, <2>2, <2>3, <2>4
  <2>7b. \A n, m \in DOMAIN F : 1 < n /\ n < m =>
             \E a, b \in DOMAIN ks : a < b /\ F[n] = ks[a] /\ F[m] = ks[b]
    <3> SUFFICES ASSUME NEW n \in DOMAIN F, NEW m \in DOMAIN F, 1 < n, n < m
                 PROVE  \E a, b \in DOMAIN ks : a < b /\ F[n] = ks[a] /\ F[m] = ks[b]
      OBVIOUS
    <3>1. \E a, b \in 1..Len(ks) : a < b /\ F[n] = ks[a] /\ F[m] = ks[b]
      BY <2>2, <2>5
    <3> QED
      BY <1>0, <3>1
  <2>7c. \A b \in DOMAIN ks : \E m \in DOMAIN F : F[m] = ks[b]
    BY <1>0, <2>2, <2>4, Zenon
  <2>7d. F \in Seq(Ids) /\ 1 \in DOMAIN F /\ F[1] = i
    BY <1>0, <2>2, <2>3, <2>6, Zenon
  <2> QED
    BY <2>7, <2>7a, <2>7b, <2>7c, <2>7d, Zenon DEF F, FrontOf
<1> QED
  BY <1>1, <1>2

\* Every step keeps the shapes.
LEMMA ShapesStep ==
    ASSUME WorkerInv, [WorkerNext]_workerVars
    PROVE  Shapes'
<1> USE OnionWorkerAssumption
<1>0. Shapes /\ Numbered
  BY Zenon DEF WorkerInv
<1>k. "none" \notin Levels
  OBVIOUS
<1>a. \A i \in Ids, k \in Levels \cup {"keys"} : Request(i, k) \in Commands
  BY DEF Request, Commands
<1>b. \A c \in OnionClients : id[c] # 0 => id[c] \in Ids
  BY <1>0 DEF Shapes, Ids
<1>c. ASSUME NEW c \in OnionClients, NEW k \in Levels \cup {"keys"}, id[c] # 0, Ask(c, k)
      PROVE  tasks' \in SUBSET Commands
  <2>1. Request(id[c], k) \in Commands
    BY <1>a, <1>b, <1>c, Zenon
  <2> QED
    BY <1>0, <1>c, <2>1, Zenon DEF Ask, Shapes
<1>d. ASSUME NEW c \in OnionClients, NEW w \in {"idle", "register", "first", "again", "retry"}, At(c, w)
      PROVE  /\ rpc' \in [OnionClients -> {"idle", "register", "first", "again", "retry"}]
             /\ rpc'[c] = w /\ \A d \in OnionClients \ {c} : rpc'[d] = rpc[d]
  BY <1>0, <1>d, Zenon DEF At, Shapes
<1>e. ASSUME NEW c \in OnionClients, NEW r, TakeReply(c, r)
      PROVE  replies' \in SUBSET replies /\ id[c] # 0
  BY <1>0, <1>e DEF TakeReply, Shapes, Ids
<1>f. ASSUME replies' \in SUBSET replies
      PROVE  /\ replies' \in SUBSET [id : Ids, kind : Levels \cup {"keys"}, out : Outs]
             /\ \A r \in replies' : Len(r.out) <= Slots
  BY <1>0, <1>f, Zenon DEF Shapes
<1>1. ASSUME NEW c \in OnionClients, connect(c)
      PROVE  Shapes'
  <2>1. /\ accepted' \in 0..MaxId /\ accepted' \in 0..MaxId
        /\ id' \in [OnionClients -> 0..MaxId]
    BY <1>0, <1>1 DEF connect, Shapes
  <2>2. registered' \in [OnionClients -> BOOLEAN]
    BY <1>0, <1>1, Zenon DEF connect, Shapes
  <2> QED
    BY <1>0, <1>1, <2>1, <2>2, ZenonT(60) DEF connect, Shapes
<1>2. ASSUME NEW c \in OnionClients, disconnect(c)
      PROVE  Shapes'
  <2>1. id' \in [OnionClients -> 0..MaxId]
    BY <1>0, <1>2 DEF disconnect, Shapes
  <2>2. registered' \in [OnionClients -> BOOLEAN]
    BY <1>0, <1>2, Zenon DEF disconnect, Shapes
  <2>3. replies' \in SUBSET replies
    BY <1>2, Zenon DEF disconnect
  <2>4. At(c, "idle")
    BY <1>2, Zenon DEF disconnect, At
  <2>5. /\ rpc' \in [OnionClients -> {"idle", "register", "first", "again", "retry"}]
        /\ rpc'[c] = "idle" /\ \A d \in OnionClients \ {c} : rpc'[d] = rpc[d]
    BY <1>d, <2>4, Zenon
  <2>6. \A d \in OnionClients : rpc'[d] # "idle" => level'[d] \in Levels
    BY <1>0, <1>2, <2>5, Zenon DEF disconnect, Shapes
  <2> QED
    BY <1>0, <1>2, <1>f, <2>1, <2>2, <2>3, <2>5, <2>6, ZenonT(60) DEF disconnect, Shapes
<1>3. ASSUME NEW c \in OnionClients, NEW l \in Levels, ensure_keys_registered(c, l)
      PROVE  Shapes'
  <2>1. PICK w \in {"register", "first"}, k \in Levels \cup {"keys"} : At(c, w) /\ Ask(c, k)
    BY <1>3, Zenon DEF ensure_keys_registered
  <2>2. tasks' \in SUBSET Commands
    BY <1>3, <1>c, <2>1, Zenon DEF ensure_keys_registered
  <2>3. /\ rpc' \in [OnionClients -> {"idle", "register", "first", "again", "retry"}]
        /\ rpc'[c] = w /\ \A d \in OnionClients \ {c} : rpc'[d] = rpc[d]
    BY <1>d, <2>1, Zenon
  <2>4. \A d \in OnionClients : rpc'[d] # "idle" => level'[d] \in Levels
    BY <1>0, <1>3, <2>3, Zenon DEF ensure_keys_registered, Shapes
  <2>5. calls' \in 0..MaxCalls
    BY <1>0, <1>3 DEF ensure_keys_registered, Shapes
  <2>6. DOMAIN level' = OnionClients
    BY <1>0, <1>3, Zenon DEF ensure_keys_registered, Shapes
  <2> QED
    BY <1>0, <1>3, <2>2, <2>3, <2>4, <2>5, <2>6, ZenonT(60) DEF ensure_keys_registered, Shapes
<1>4. ASSUME NEW c \in OnionClients, register_keys(c)
      PROVE  Shapes'
  <2>1. PICK w \in {"first", "retry"} : At(c, w) /\ Ask(c, level[c])
    BY <1>4, Zenon DEF register_keys
  <2>2. PICK r \in replies : TakeReply(c, r)
    BY <1>4, Zenon DEF register_keys
  <2>3. replies' \in SUBSET replies /\ id[c] # 0
    BY <1>e, <2>2
  <2>4. rpc[c] # "idle" /\ level[c] \in Levels
    <3>1. rpc[c] # "idle"
      BY <1>4 DEF register_keys
    <3> QED
      BY <1>0, <3>1, Zenon DEF Shapes
  <2>5. tasks' \in SUBSET Commands
    BY <1>c, <2>1, <2>3, <2>4, Zenon
  <2>6. /\ rpc' \in [OnionClients -> {"idle", "register", "first", "again", "retry"}]
        /\ rpc'[c] = w /\ \A d \in OnionClients \ {c} : rpc'[d] = rpc[d]
    BY <1>d, <2>1, Zenon
  <2>7. \A d \in OnionClients : rpc'[d] # "idle" => level'[d] \in Levels
    BY <1>0, <1>4, <2>4, <2>6, Zenon DEF register_keys, Shapes
  <2>8. registered' \in [OnionClients -> BOOLEAN]
    BY <1>0, <1>4, Zenon DEF register_keys, Shapes
  <2> QED
    BY <1>0, <1>4, <1>f, <2>3, <2>5, <2>6, <2>7, <2>8, ZenonT(60) DEF register_keys, Shapes
<1>5. ASSUME NEW c \in OnionClients, NEW r \in replies, onionpir_batch_rpc(c, r)
      PROVE  Shapes'
  <2>1. PICK w \in {"idle", "again"} : At(c, w) /\ (w = "again" => Ask(c, "keys")) /\ (w = "idle" => UNCHANGED tasks)
    <3>1. \/ At(c, "idle") /\ UNCHANGED tasks
          \/ At(c, "again") /\ Ask(c, "keys")
      BY <1>5, Zenon DEF onionpir_batch_rpc
    <3>2. "idle" # "again"
      OBVIOUS
    <3> QED
      BY <3>1, <3>2, Zenon
  <2>2. replies' \in SUBSET replies /\ id[c] # 0
    BY <1>e, <1>5, Zenon DEF onionpir_batch_rpc
  <2>3. rpc[c] # "idle" /\ level[c] \in Levels
    <3>1. rpc[c] # "idle"
      BY <1>5 DEF onionpir_batch_rpc
    <3> QED
      BY <1>0, <3>1, Zenon DEF Shapes
  <2>4. tasks' \in SUBSET Commands
    BY <1>0, <1>c, <2>1, <2>2, Zenon DEF Shapes
  <2>5. /\ rpc' \in [OnionClients -> {"idle", "register", "first", "again", "retry"}]
        /\ rpc'[c] = w /\ \A d \in OnionClients \ {c} : rpc'[d] = rpc[d]
    BY <1>d, <2>1, Zenon
  <2>6. \A d \in OnionClients : rpc'[d] # "idle" => level'[d] \in Levels
    BY <1>0, <1>5, <2>3, <2>5, Zenon DEF onionpir_batch_rpc, Shapes
  <2> QED
    BY <1>0, <1>5, <1>f, <2>2, <2>4, <2>5, <2>6, ZenonT(60) DEF onionpir_batch_rpc, Shapes
<1>6. ASSUME NEW c \in OnionClients, NEW r \in replies, verify_sub_tree(c, r)
      PROVE  Shapes'
  <2>1. replies' \in SUBSET replies
    BY <1>e, <1>6, Zenon DEF verify_sub_tree
  <2>2. /\ rpc' \in [OnionClients -> {"idle", "register", "first", "again", "retry"}]
        /\ rpc'[c] = "idle" /\ \A d \in OnionClients \ {c} : rpc'[d] = rpc[d]
    BY <1>d, <1>6, Zenon DEF verify_sub_tree
  <2>3. \A d \in OnionClients : rpc'[d] # "idle" => level'[d] \in Levels
    BY <1>0, <1>6, <2>2, Zenon DEF verify_sub_tree, Shapes
  <2> QED
    BY <1>0, <1>6, <1>f, <2>1, <2>2, <2>3, ZenonT(60) DEF verify_sub_tree, Shapes
<1>7. ASSUME NEW t \in tasks, dispatch(t)
      PROVE  Shapes'
  <2>1. t \in Commands /\ queue \in Seq(Commands) /\ QueueCap \in Nat
    BY <1>0, Zenon DEF Shapes
  <2>2. queue' \in Seq(Commands) /\ Len(queue') <= QueueCap
    BY <1>7, <2>1 DEF dispatch
  <2>3. tasks' \in SUBSET Commands
    BY <1>0, <1>7, Zenon DEF dispatch, Shapes
  <2> QED
    BY <1>0, <1>7, <2>2, <2>3, ZenonT(60) DEF dispatch, Shapes
<1>8. ASSUME blocking_recv
      PROVE  Shapes'
  <2>1. queue \in Seq(Commands) /\ queue # <<>> /\ Len(queue) <= QueueCap /\ QueueCap \in Nat
    BY <1>0, <1>8, Zenon DEF Shapes, blocking_recv
  <2>2. queue' \in Seq(Commands) /\ Len(queue') <= QueueCap /\ Head(queue) \in Commands
    BY <1>8, <2>1 DEF blocking_recv
  <2>3. <<>> \in Outs /\ Len(<<>>) <= Slots
    BY DEF Outs
  <2>4. job'.id \in Ids /\ job'.kind \in Levels \cup {"keys"} /\ job'.out = <<>>
    BY <1>8, <2>2 DEF blocking_recv, Commands
  <2>5. job' \in [id : 0..MaxId, kind : Levels \cup {"keys", "none"}, out : Outs]
    BY <1>8, <2>3, <2>4 DEF blocking_recv, Ids
  <2>6. job'.id # 0 /\ job'.kind # "none"
    BY <2>4 DEF Ids
  <2> QED
    BY <1>0, <1>8, <2>2, <2>3, <2>4, <2>5, <2>6, ZenonT(60) DEF blocking_recv, Shapes
<1>g. /\ NoJob \in [id : 0..MaxId, kind : Levels \cup {"keys", "none"}, out : Outs]
      /\ NoJob.id = 0 /\ NoJob.kind = "none" /\ NoJob.out = <<>> /\ Len(<<>>) <= Slots
      /\ <<>> \in Outs
  BY DEF NoJob, Outs
<1>h. \A i \in Ids : Active(i) => since' \in [Ids -> SUBSET Ids]
  BY <1>0 DEF Active, Shapes
<1>i. ASSUME job.kind # "none", NEW out \in Outs, Len(out) <= Slots, Send(out)
      PROVE  /\ replies' \in SUBSET [id : Ids, kind : Levels \cup {"keys"}, out : Outs]
             /\ \A r \in replies' : Len(r.out) <= Slots
  <2>1. job.id \in Ids /\ job.kind \in Levels \cup {"keys"}
    BY <1>0, <1>i DEF Shapes, Ids
  <2>2. [id |-> job.id, kind |-> job.kind, out |-> out] \in [id : Ids, kind : Levels \cup {"keys"}, out : Outs]
    BY <1>i, <2>1
  <2>3. [id |-> job.id, kind |-> job.kind, out |-> out].out = out
    OBVIOUS
  <2> QED
    BY <1>0, <1>i, <2>2, <2>3, Zenon DEF Shapes, Send
<1>j. keys \in Seq(Ids) /\ \A n, m \in DOMAIN keys : n < m => keys[n] # keys[m]
  BY Zenon DEF WorkerInv, Shapes, Recency
<1>9. ASSUME RegisterKeys
      PROVE  Shapes'
  <2>1. job.kind # "none" /\ job.id \in Ids
    BY <1>0, <1>9 DEF Shapes, RegisterKeys, Ids
  <2>2. Front(job.id, keys) \in Seq(Ids)
    BY <1>j, <2>1, FrontFacts, Zenon DEF FrontOf
  <2>3. keys' \in Seq(Ids) /\ Len(keys') <= Cap
    <3> DEFINE F == Front(job.id, keys)
    <3>1. keys' = SubSeq(F, 1, IF Len(F) > Cap THEN Cap ELSE Len(F)) /\ F \in Seq(Ids) /\ Cap \in Nat
      BY <1>9, <2>2, Zenon DEF RegisterKeys, evict_if_full
    <3> HIDE DEF F
    <3> QED
      BY <3>1
  <2> QED
    BY <1>0, <1>9, <1>g, <1>h, <1>i, <2>1, <2>3, ZenonT(60) DEF RegisterKeys, Shapes
<1>10. ASSUME answer_query
       PROVE  Shapes'
  <2>1. job.kind # "none" /\ job.id \in Ids
    <3>1. job.kind # "none"
      BY <1>10, <1>k, Zenon DEF answer_query
    <3> QED
      BY <1>0, <3>1 DEF Shapes, Ids
  <2>2. keys' \in Seq(Ids) /\ Len(keys') <= Cap
    <3>1. CASE job.id \in Known
      <4>1. \E n \in DOMAIN keys : keys[n] = job.id
        BY <1>j, <3>1 DEF Known
      <4>2. keys' = Front(job.id, keys)
        BY <1>10, <3>1, Zenon DEF answer_query
      <4>3. Front(job.id, keys) \in Seq(Ids) /\ Len(Front(job.id, keys)) = Len(keys)
        <5>1. /\ Front(job.id, keys) \in Seq(Ids)
              /\ Len(Front(job.id, keys)) =
                   IF \E n \in DOMAIN keys : keys[n] = job.id THEN Len(keys) ELSE Len(keys) + 1
          BY <1>j, <2>1, FrontFacts, Zenon DEF FrontOf
        <5> QED
          BY <4>1, <5>1, Zenon
      <4> QED
        BY <1>0, <4>2, <4>3, Zenon DEF Shapes
    <3>2. CASE ~(job.id \in Known)
      BY <1>0, <1>10, <3>2, Zenon DEF Shapes, answer_query
    <3> QED
      BY <3>1, <3>2
  <2>3. since' \in [Ids -> SUBSET Ids]
    BY <1>0, <1>10, <1>h, <2>1, Zenon DEF Shapes, answer_query
  <2>4. PICK o \in {"full", "empty"} : job' = [job EXCEPT !.out = Append(@, o)]
    BY <1>10, Zenon DEF answer_query
  <2>5. job.out \in Seq({"full", "empty"}) /\ Len(job.out) < Slots
    BY <1>0, <1>10 DEF answer_query, Shapes, Outs
  <2>6. Append(job.out, o) \in Outs /\ Len(Append(job.out, o)) <= Slots
    BY <2>5 DEF Outs
  <2>6a. job \in [id : 0..MaxId, kind : Levels \cup {"keys", "none"}, out : Outs]
    BY <1>0, Zenon DEF Shapes
  <2>7. job'.id = job.id /\ job'.kind = job.kind /\ job'.out = Append(job.out, o)
    BY <2>4, <2>6a
  <2>8. job' \in [id : 0..MaxId, kind : Levels \cup {"keys", "none"}, out : Outs]
    BY <2>4, <2>6, <2>6a, ZenonT(60)
  <2> QED
    BY <1>0, <1>10, <2>2, <2>3, <2>6, <2>7, <2>8, ZenonT(60) DEF answer_query, Shapes
<1>11. ASSUME AnswerBatch
       PROVE  Shapes'
  <2>1. job.kind # "none"
    BY <1>11 DEF AnswerBatch
  <2>2. Results(job) \in Outs /\ Len(Results(job)) <= Slots
    <3>1. job.out \in Outs /\ Len(job.out) <= Slots
      BY <1>0, Zenon DEF Shapes
    <3>2. [s \in 1..Slots |-> "empty"] \in Outs /\ Len([s \in 1..Slots |-> "empty"]) <= Slots
      BY DEF Outs
    <3> QED
      BY <3>1, <3>2, Zenon DEF Results
  <2> QED
    BY <1>0, <1>11, <1>g, <1>i, <2>1, <2>2, ZenonT(60) DEF AnswerBatch, Shapes
<1>12. CASE UNCHANGED workerVars
  BY <1>0, <1>12, ZenonT(60) DEF workerVars, Shapes
<1> QED
  BY <1>1, <1>2, <1>3, <1>4, <1>5, <1>6, <1>7, <1>8, <1>9, <1>10, <1>11, <1>12, ZenonT(60)
     DEF WorkerNext, Worker, Rpc, ReceiveReply

\* Every step moves the one request of a connection on, or takes up the next
\* one when the last was answered.
LEMMA OneStep ==
    ASSUME WorkerInv, Shapes', [WorkerNext]_workerVars
    PROVE  Numbered' /\ OneAtATime'
<1> USE OnionWorkerAssumption
<1>0. Shapes /\ Numbered /\ OneAtATime
  BY Zenon DEF WorkerInv
<1>b. \A c \in OnionClients : id[c] # 0 => id[c] \in Ids
  BY <1>0 DEF Shapes, Ids
<1>t. /\ \A t \in tasks : t.id \in Ids
      /\ \A n \in DOMAIN queue : queue[n].id \in Ids
      /\ \A r \in replies : r.id \in Ids
      /\ 0 \notin Ids /\ NoJob.id = 0
  <2>1. \A t \in Commands : t.id \in Ids
    BY DEF Commands
  <2>2. /\ tasks \in SUBSET Commands /\ queue \in Seq(Commands)
        /\ replies \in SUBSET [id : Ids, kind : Levels \cup {"keys"}, out : Outs]
    BY <1>0, Zenon DEF Shapes
  <2>3. \A n \in DOMAIN queue : queue[n] \in Commands
    BY <2>2
  <2>4. \A r \in [id : Ids, kind : Levels \cup {"keys"}, out : Outs] : r.id \in Ids
    OBVIOUS
  <2>5. 0 \notin Ids /\ NoJob.id = 0
    BY DEF Ids, NoJob
  <2> QED
    BY <2>1, <2>2, <2>3, <2>4, <2>5, Zenon
<1> DEFINE UniqueTasks == \A t, u \in tasks : t.id = u.id => t = u
           UniqueQueue == \A n, m \in DOMAIN queue : queue[n].id = queue[m].id => n = m
           UniqueReplies == \A r, s \in replies : r.id = s.id => r = s
<1>1. UniqueTasks /\ UniqueQueue /\ UniqueReplies
  BY <1>0, Zenon DEF OneAtATime
<1>2. ASSUME UNCHANGED tasks
      PROVE  UniqueTasks' /\ \A i \in Ids : Asked(i)' <=> Asked(i)
  BY <1>1, <1>2, Zenon DEF Asked
<1>3. ASSUME UNCHANGED queue
      PROVE  UniqueQueue' /\ \A i \in Ids : Queued(i)' <=> Queued(i)
  BY <1>1, <1>3, Zenon DEF Queued
<1>4. ASSUME UNCHANGED replies
      PROVE  UniqueReplies' /\ \A i \in Ids : Replied(i)' <=> Replied(i)
  BY <1>1, <1>4, Zenon DEF Replied
<1>5. ASSUME NEW c \in OnionClients, NEW k, Ask(c, k), id[c] # 0, ~Asked(id[c])
      PROVE  UniqueTasks' /\ \A i \in Ids : Asked(i)' <=> (Asked(i) \/ i = id[c])
  <2>1. Request(id[c], k).id = id[c]
    BY DEF Request
  <2> QED
    BY <1>1, <1>5, <2>1, Zenon DEF Asked, Ask
<1>6. ASSUME NEW c \in OnionClients, NEW r, TakeReply(c, r)
      PROVE  /\ UniqueReplies' /\ id[c] \in Ids /\ Replied(id[c])
             /\ \A i \in Ids : Replied(i)' <=> (Replied(i) /\ i # id[c])
  BY <1>1, <1>6, <1>t, Zenon DEF TakeReply, Replied
<1>7. ASSUME NEW c \in OnionClients, NEW w, At(c, w)
      PROVE  rpc'[c] = w /\ \A d \in OnionClients : d # c => rpc'[d] = rpc[d]
  BY <1>0, <1>7, Zenon DEF At, Shapes
<1>8. ASSUME NEW out, job.id \in Ids, Send(out)
      PROVE  /\ UniqueReplies'
             /\ \A i \in Ids : Replied(i)' =>  Replied(i) \/ (i = job.id /\ \E c \in OnionClients : id[c] = job.id)
  <2>1. [id |-> job.id, kind |-> job.kind, out |-> out].id = job.id
    OBVIOUS
  <2>2. \A r \in replies : r.id # job.id
    BY <1>0, <1>8, Zenon DEF OneAtATime, Replied
  <2> QED
    BY <1>1, <1>8, <2>1, <2>2, Zenon DEF Send, Replied
<1>11. ASSUME NEW c \in OnionClients, connect(c)
       PROVE  Numbered' /\ OneAtATime'
  <2>1. UNCHANGED <<tasks, queue, job, replies, rpc>>
    BY <1>11, Zenon DEF connect
  <2>2. /\ UniqueTasks' /\ UniqueQueue' /\ UniqueReplies'
        /\ \A i \in Ids : (Asked(i)' <=> Asked(i)) /\ (Queued(i)' <=> Queued(i)) /\ (Replied(i)' <=> Replied(i))
    BY <1>2, <1>3, <1>4, <2>1, Zenon
  <2>3. /\ id'[c] = accepted + 1 /\ accepted' = accepted + 1 /\ accepted \in Nat /\ accepted + 1 \in Ids
        /\ \A d \in OnionClients \ {c} : id'[d] = id[d]
    <3>1. id \in [OnionClients -> 0..MaxId] /\ accepted \in 0..MaxId
      BY <1>0, Zenon DEF Shapes
    <3>2. accepted < MaxId /\ accepted' = accepted + 1 /\ id' = [id EXCEPT ![c] = accepted + 1]
      BY <1>11, Zenon DEF connect
    <3> QED
      BY <3>1, <3>2 DEF Ids
  <2>4. \A i \in Ids : Asked(i) \/ Queued(i) \/ job.id = i \/ Replied(i) => i <= accepted /\ i <= accepted + 1 /\ i # accepted + 1
    <3>1. \A i \in Ids : Asked(i) \/ Queued(i) \/ job.id = i \/ Replied(i) => i <= accepted
      BY <1>0, Zenon DEF Numbered
    <3>2. \A i \in Ids : i <= accepted => i <= accepted + 1 /\ i # accepted + 1
      BY <2>3 DEF Ids
    <3> QED
      BY <3>1, <3>2, Zenon
  <2>5. \A d \in OnionClients : id[d] <= accepted + 1 /\ id[d] # accepted + 1 /\ accepted + 1 <= accepted + 1
    <3>1. \A d \in OnionClients : id[d] <= accepted /\ id[d] \in 0..MaxId
      BY <1>0, Zenon DEF Numbered, Shapes
    <3> QED
      BY <2>3, <3>1
  <2>6. Numbered'
    <3>1. \A d \in OnionClients : id'[d] <= accepted'
      BY <2>3, <2>5
    <3>2. \A d, e \in OnionClients : id'[d] = id'[e] /\ id'[d] # 0 => d = e
      BY <1>0, <2>3, <2>5, Zenon DEF Numbered
    <3>3. \A i \in Ids : Asked(i)' \/ Queued(i)' \/ job'.id = i \/ Replied(i)' => i <= accepted'
      BY <2>1, <2>2, <2>3, <2>4, Zenon
    <3> QED
      BY <3>1, <3>2, <3>3, Zenon DEF Numbered
  <2>7. \A i \in Ids : \A d \in OnionClients : id'[d] = i /\ rpc'[d] = "idle" =>
           ~Asked(i)' /\ ~Queued(i)' /\ job'.id # i /\ ~Replied(i)'
    <3> SUFFICES ASSUME NEW i \in Ids, NEW d \in OnionClients, id'[d] = i, rpc'[d] = "idle"
                 PROVE  ~Asked(i)' /\ ~Queued(i)' /\ job'.id # i /\ ~Replied(i)'
      BY Zenon
    <3>1. CASE d = c
      BY <2>1, <2>2, <2>3, <2>4, <3>1, Zenon
    <3>2. CASE d # c
      <4>1. id[d] = i /\ rpc[d] = "idle"
        BY <2>1, <2>3, <3>2, Zenon
      <4>2. ~Asked(i) /\ ~Queued(i) /\ job.id # i /\ ~Replied(i)
        BY <1>0, <4>1, Zenon DEF OneAtATime
      <4> QED
        BY <2>1, <2>2, <4>2, Zenon
    <3> QED
      BY <3>1, <3>2
  <2> QED
    BY <1>0, <2>1, <2>2, <2>6, <2>7, Zenon DEF OneAtATime
<1>12. ASSUME NEW c \in OnionClients, disconnect(c)
       PROVE  Numbered' /\ OneAtATime'
  <2>1. UNCHANGED <<tasks, queue, job, accepted>> /\ replies' = {r \in replies : r.id # id[c]}
    BY <1>12, Zenon DEF disconnect
  <2>2. /\ UniqueTasks' /\ UniqueQueue'
        /\ \A i \in Ids : (Asked(i)' <=> Asked(i)) /\ (Queued(i)' <=> Queued(i))
    BY <1>2, <1>3, <2>1, Zenon
  <2>3. UniqueReplies' /\ \A i \in Ids : Replied(i)' => Replied(i)
    BY <1>1, <2>1, Zenon DEF Replied
  <2>4. /\ id'[c] = 0 /\ \A d \in OnionClients \ {c} : id'[d] = id[d] /\ rpc'[d] = rpc[d]
    BY <1>0, <1>12, Zenon DEF disconnect, Shapes
  <2>5. Numbered'
    <3>1. \A d \in OnionClients : id'[d] <= accepted'
      <4>1. (\A d \in OnionClients : id[d] <= accepted) /\ accepted \in 0..MaxId
        BY <1>0, Zenon DEF Numbered, Shapes
      <4>2. 0 <= accepted
        BY <4>1
      <4> QED
        BY <2>1, <2>4, <4>1, <4>2, Zenon
    <3>2. \A d, e \in OnionClients : id'[d] = id'[e] /\ id'[d] # 0 => d = e
      BY <1>0, <2>4, Zenon DEF Numbered
    <3> QED
      BY <1>0, <2>1, <2>2, <2>3, <3>1, <3>2, Zenon DEF Numbered
  <2>6. \A i \in Ids : \A d \in OnionClients : id'[d] = i /\ rpc'[d] = "idle" =>
           ~Asked(i)' /\ ~Queued(i)' /\ job'.id # i /\ ~Replied(i)'
    <3> SUFFICES ASSUME NEW i \in Ids, NEW d \in OnionClients, id'[d] = i, rpc'[d] = "idle"
                 PROVE  ~Asked(i)' /\ ~Queued(i)' /\ job'.id # i /\ ~Replied(i)'
      OBVIOUS
    <3>1. d # c
      BY <1>t, <2>4, Zenon
    <3>2. id[d] = i /\ rpc[d] = "idle"
      BY <2>4, <3>1, Zenon
    <3>3. ~Asked(i) /\ ~Queued(i) /\ job.id # i /\ ~Replied(i)
      BY <1>0, <3>2, Zenon DEF OneAtATime
    <3> QED
      BY <2>1, <2>2, <2>3, <3>3, Zenon
  <2> QED
    BY <1>0, <2>1, <2>2, <2>3, <2>5, <2>6, Zenon DEF OneAtATime
\* Taking an answer and asking again, or asking after a pause.
<1>13. ASSUME NEW c \in OnionClients, NEW k, NEW w, w # "idle", id[c] \in Ids,
              UNCHANGED <<id, accepted, queue, job>>, At(c, w), Ask(c, k),
              \/ rpc[c] = "idle" /\ UNCHANGED replies
              \/ \E r : TakeReply(c, r)
       PROVE  Numbered' /\ OneAtATime'
  <2>1. /\ ~Asked(id[c]) /\ ~Queued(id[c]) /\ job.id # id[c] /\ id[c] # 0
    BY <1>0, <1>13, <1>6, <1>t, Zenon DEF OneAtATime
  <2>2. UniqueTasks' /\ \A i \in Ids : Asked(i)' <=> (Asked(i) \/ i = id[c])
    BY <1>5, <1>13, <2>1, Zenon
  <2>3. UniqueQueue' /\ \A i \in Ids : Queued(i)' <=> Queued(i)
    BY <1>3, <1>13, Zenon
  <2>4. UniqueReplies' /\ \A i \in Ids : Replied(i)' => Replied(i) /\ i # id[c]
    BY <1>0, <1>4, <1>6, <1>13, Zenon DEF OneAtATime
  <2>5. rpc'[c] = w /\ \A d \in OnionClients : d # c => rpc'[d] = rpc[d]
    BY <1>7, <1>13, Zenon
  <2>6. Numbered'
    <3>1. id[c] <= accepted
      BY <1>0, Zenon DEF Numbered
    <3> QED
      BY <1>0, <1>13, <2>2, <2>3, <2>4, <3>1, Zenon DEF Numbered
  <2>7. \A i \in Ids : \A d \in OnionClients : id'[d] = i /\ rpc'[d] = "idle" =>
           ~Asked(i)' /\ ~Queued(i)' /\ job'.id # i /\ ~Replied(i)'
    <3> SUFFICES ASSUME NEW i \in Ids, NEW d \in OnionClients, id'[d] = i, rpc'[d] = "idle"
                 PROVE  ~Asked(i)' /\ ~Queued(i)' /\ job'.id # i /\ ~Replied(i)'
      BY Zenon
    <3>1. d # c /\ id[d] = i /\ rpc[d] = "idle"
      BY <1>13, <2>5, Zenon
    <3>2. i # id[c]
      BY <1>0, <2>1, <3>1, Zenon DEF Numbered
    <3>3. ~Asked(i) /\ ~Queued(i) /\ job.id # i /\ ~Replied(i)
      BY <1>0, <3>1, Zenon DEF OneAtATime
    <3> QED
      BY <1>13, <2>2, <2>3, <2>4, <3>2, <3>3, Zenon
  <2>9. ASSUME NEW i \in Ids
        PROVE  /\ Asked(i)' => ~Queued(i)' /\ job'.id # i /\ ~Replied(i)'
               /\ Queued(i)' => job'.id # i /\ ~Replied(i)'
               /\ Replied(i)' => job'.id # i
    <3>1. /\ Asked(i) => ~Queued(i) /\ job.id # i /\ ~Replied(i)
          /\ Queued(i) => job.id # i /\ ~Replied(i)
          /\ Replied(i) => job.id # i
      BY <1>0, Zenon DEF OneAtATime
    <3> QED
      BY <1>13, <2>1, <2>2, <2>3, <2>4, <3>1, ZenonT(60)
  <2> QED
    BY <2>2, <2>3, <2>4, <2>6, <2>7, <2>9, Zenon DEF OneAtATime
\* Taking the last answer of a call.
<1>14. ASSUME NEW c \in OnionClients, NEW r, TakeReply(c, r), At(c, "idle"),
              UNCHANGED <<id, accepted, tasks, queue, job>>
       PROVE  Numbered' /\ OneAtATime'
  <2>1. /\ id[c] \in Ids /\ ~Asked(id[c]) /\ ~Queued(id[c]) /\ job.id # id[c]
    BY <1>0, <1>14, <1>6, Zenon DEF OneAtATime
  <2>2. UniqueTasks' /\ \A i \in Ids : Asked(i)' <=> Asked(i)
    BY <1>2, <1>14, Zenon
  <2>3. UniqueQueue' /\ \A i \in Ids : Queued(i)' <=> Queued(i)
    BY <1>3, <1>14, Zenon
  <2>4. UniqueReplies' /\ \A i \in Ids : Replied(i)' => Replied(i) /\ i # id[c]
    BY <1>6, <1>14, Zenon
  <2>5. rpc'[c] = "idle" /\ \A d \in OnionClients : d # c => rpc'[d] = rpc[d]
    BY <1>7, <1>14, Zenon
  <2>6. Numbered'
    BY <1>0, <1>14, <2>2, <2>3, <2>4, Zenon DEF Numbered
  <2>7. \A i \in Ids : \A d \in OnionClients : id'[d] = i /\ rpc'[d] = "idle" =>
           ~Asked(i)' /\ ~Queued(i)' /\ job'.id # i /\ ~Replied(i)'
    BY <1>0, <1>14, <2>1, <2>2, <2>3, <2>4, <2>5, ZenonT(60) DEF OneAtATime
  <2> QED
    BY <1>0, <1>14, <2>2, <2>3, <2>4, <2>6, <2>7, ZenonT(60) DEF OneAtATime
<1>15. ASSUME NEW c \in OnionClients, NEW l \in Levels, ensure_keys_registered(c, l)
       PROVE  Numbered' /\ OneAtATime'
  <2>1. id[c] \in Ids /\ rpc[c] = "idle" /\ UNCHANGED <<id, accepted, queue, job, replies>>
    BY <1>b, <1>15, Zenon DEF ensure_keys_registered
  <2>2. \/ At(c, "first") /\ Ask(c, l)
        \/ At(c, "register") /\ Ask(c, "keys")
    BY <1>15, Zenon DEF ensure_keys_registered
  <2>3. "first" # "idle" /\ "register" # "idle"
    OBVIOUS
  <2> QED
    BY <1>13, <2>1, <2>2, <2>3, Zenon
<1>16. ASSUME NEW c \in OnionClients, register_keys(c)
       PROVE  Numbered' /\ OneAtATime'
  <2>1. PICK r : TakeReply(c, r)
    BY <1>16, Zenon DEF register_keys
  <2>2. UNCHANGED <<id, accepted, queue, job>> /\ id[c] \in Ids
    BY <1>6, <1>16, <2>1, Zenon DEF register_keys
  <2>3. (At(c, "first") \/ At(c, "retry")) /\ Ask(c, level[c])
    BY <1>16, Zenon DEF register_keys
  <2>4. "first" # "idle" /\ "retry" # "idle"
    OBVIOUS
  <2> QED
    BY <1>13, <2>1, <2>2, <2>3, <2>4, Zenon
<1>17. ASSUME NEW c \in OnionClients, NEW r \in replies, onionpir_batch_rpc(c, r)
       PROVE  Numbered' /\ OneAtATime'
  <2>1. TakeReply(c, r) /\ UNCHANGED <<id, accepted, queue, job>>
    BY <1>17, Zenon DEF onionpir_batch_rpc
  <2>2. \/ At(c, "idle") /\ UNCHANGED tasks
        \/ At(c, "again") /\ Ask(c, "keys")
    BY <1>17, Zenon DEF onionpir_batch_rpc
  <2>3. "again" # "idle" /\ id[c] \in Ids
    BY <1>6, <2>1
  <2>4. CASE At(c, "idle") /\ UNCHANGED tasks
    BY <1>14, <2>1, <2>4, Zenon
  <2>5. CASE At(c, "again") /\ Ask(c, "keys")
    BY <1>13, <2>1, <2>3, <2>5, Zenon
  <2> QED
    BY <2>2, <2>4, <2>5, Zenon
<1>18. ASSUME NEW c \in OnionClients, NEW r \in replies, verify_sub_tree(c, r)
       PROVE  Numbered' /\ OneAtATime'
  BY <1>14, <1>18, Zenon DEF verify_sub_tree
<1>19. ASSUME NEW t \in tasks, dispatch(t)
       PROVE  Numbered' /\ OneAtATime'
  <2>0. queue \in Seq(Commands) /\ t \in Commands /\ t.id \in Ids /\ Asked(t.id)
    BY <1>0, <1>t, Zenon DEF Shapes, Asked
  <2>1. UNCHANGED <<id, accepted, job, replies, rpc>> /\ tasks' = tasks \ {t} /\ queue' = Append(queue, t)
    BY <1>19, Zenon DEF dispatch
  <2>2. /\ DOMAIN queue' = DOMAIN queue \cup {Len(queue) + 1} /\ Len(queue) + 1 \notin DOMAIN queue
        /\ queue'[Len(queue) + 1] = t /\ \A n \in DOMAIN queue : queue'[n] = queue[n]
    BY <2>0, <2>1
  <2>3. UniqueTasks' /\ \A i \in Ids : Asked(i)' => Asked(i) /\ i # t.id
    BY <1>1, <2>1, Zenon DEF Asked
  <2>4. ~Queued(t.id) /\ job.id # t.id /\ ~Replied(t.id)
    BY <1>0, <2>0, Zenon DEF OneAtATime
  <2>5. UniqueQueue' /\ \A i \in Ids : Queued(i)' => Queued(i) \/ i = t.id
    BY <1>1, <2>2, <2>4, ZenonT(60) DEF Queued
  <2>6. UniqueReplies' /\ \A i \in Ids : Replied(i)' <=> Replied(i)
    BY <1>4, <2>1, Zenon
  <2>7. Numbered'
    BY <1>0, <2>0, <2>1, <2>3, <2>5, <2>6, Zenon DEF Numbered
  <2>8. \A i \in Ids : \A d \in OnionClients : id'[d] = i /\ rpc'[d] = "idle" =>
           ~Asked(i)' /\ ~Queued(i)' /\ job'.id # i /\ ~Replied(i)'
    <3> SUFFICES ASSUME NEW i \in Ids, NEW d \in OnionClients, id'[d] = i, rpc'[d] = "idle"
                 PROVE  ~Asked(i)' /\ ~Queued(i)' /\ job'.id # i /\ ~Replied(i)'
      BY Zenon
    <3>1. id[d] = i /\ rpc[d] = "idle"
      BY <2>1, Zenon
    <3>2. ~Asked(i) /\ ~Queued(i) /\ job.id # i /\ ~Replied(i)
      BY <1>0, <3>1, Zenon DEF OneAtATime
    <3> QED
      BY <2>0, <2>1, <2>3, <2>5, <2>6, <3>2, Zenon
  <2>9. ASSUME NEW i \in Ids
        PROVE  /\ Asked(i)' => ~Queued(i)' /\ job'.id # i /\ ~Replied(i)'
               /\ Queued(i)' => job'.id # i /\ ~Replied(i)'
               /\ Replied(i)' => job'.id # i
    <3>1. /\ Asked(i) => ~Queued(i) /\ job.id # i /\ ~Replied(i)
          /\ Queued(i) => job.id # i /\ ~Replied(i)
          /\ Replied(i) => job.id # i
      BY <1>0, Zenon DEF OneAtATime
    <3> QED
      BY <2>0, <2>1, <2>3, <2>4, <2>5, <2>6, <3>1, Zenon
  <2> QED
    BY <2>3, <2>5, <2>6, <2>7, <2>8, <2>9, Zenon DEF OneAtATime
<1>20. ASSUME blocking_recv
       PROVE  Numbered' /\ OneAtATime'
  <2>0. queue \in Seq(Commands) /\ queue # <<>>
    BY <1>0, <1>20, Zenon DEF Shapes, blocking_recv
  <2>1. UNCHANGED <<id, accepted, tasks, replies, rpc>> /\ queue' = Tail(queue) /\ job'.id = Head(queue).id
    BY <1>20, Zenon DEF blocking_recv
  <2>2. /\ 1 \in DOMAIN queue /\ Head(queue) = queue[1]
        /\ \A n \in DOMAIN queue' : n + 1 \in DOMAIN queue /\ queue'[n] = queue[n + 1] /\ n + 1 # 1
        /\ \A n, m \in DOMAIN queue' : n + 1 = m + 1 => n = m
    BY <2>0, <2>1
  <2>3. Head(queue).id \in Ids /\ Queued(Head(queue).id)
    BY <1>t, <2>2, Zenon DEF Queued
  <2>4. UniqueQueue' /\ \A i \in Ids : Queued(i)' => Queued(i) /\ i # job'.id
    <3>1. UniqueQueue'
      <4> SUFFICES ASSUME NEW n \in DOMAIN queue', NEW m \in DOMAIN queue', queue'[n].id = queue'[m].id
                   PROVE  n = m
        BY Zenon
      <4>1. n + 1 \in DOMAIN queue /\ m + 1 \in DOMAIN queue /\ queue[n + 1].id = queue[m + 1].id
        BY <2>2, Zenon
      <4>2. n + 1 = m + 1
        BY <1>1, <4>1, Zenon
      <4> QED
        BY <2>2, <4>2, Zenon
    <3>2. ASSUME NEW i \in Ids, NEW n \in DOMAIN queue', queue'[n].id = i
          PROVE  Queued(i) /\ i # job'.id
      <4>1. n + 1 \in DOMAIN queue /\ queue[n + 1].id = i /\ n + 1 # 1
        BY <2>2, <3>2, Zenon
      <4>2. queue[n + 1].id # queue[1].id
        BY <1>1, <2>2, <4>1, Zenon
      <4> QED
        BY <2>1, <2>2, <4>1, <4>2, Zenon DEF Queued
    <3> QED
      BY <3>1, <3>2, Zenon DEF Queued
  <2>5. ~Asked(job'.id) /\ ~Replied(job'.id)
    BY <1>0, <2>1, <2>3, Zenon DEF OneAtATime
  <2>6. /\ UniqueReplies' /\ \A i \in Ids : Replied(i)' <=> Replied(i)
        /\ UniqueTasks' /\ \A i \in Ids : Asked(i)' <=> Asked(i)
    BY <1>2, <1>4, <2>1, Zenon
  <2>7. Numbered'
    BY <1>0, <2>1, <2>3, <2>4, <2>6, Zenon DEF Numbered
  <2>8. \A i \in Ids : \A d \in OnionClients : id'[d] = i /\ rpc'[d] = "idle" =>
           ~Asked(i)' /\ ~Queued(i)' /\ job'.id # i /\ ~Replied(i)'
    <3> SUFFICES ASSUME NEW i \in Ids, NEW d \in OnionClients, id'[d] = i, rpc'[d] = "idle"
                 PROVE  ~Asked(i)' /\ ~Queued(i)' /\ job'.id # i /\ ~Replied(i)'
      BY Zenon
    <3>1. id[d] = i /\ rpc[d] = "idle"
      BY <2>1, Zenon
    <3>2. ~Asked(i) /\ ~Queued(i) /\ job.id # i /\ ~Replied(i)
      BY <1>0, <3>1, Zenon DEF OneAtATime
    <3> QED
      BY <2>1, <2>3, <2>4, <2>6, <3>2, Zenon
  <2>9. ASSUME NEW i \in Ids
        PROVE  /\ Asked(i)' => ~Queued(i)' /\ job'.id # i /\ ~Replied(i)'
               /\ Queued(i)' => job'.id # i /\ ~Replied(i)'
               /\ Replied(i)' => job'.id # i
    <3>1. Asked(i)' => Asked(i) /\ ~Queued(i) /\ ~Replied(i)
      BY <1>0, <2>6, Zenon DEF OneAtATime
    <3>2. Queued(i)' => Queued(i) /\ ~Replied(i) /\ i # job'.id
      BY <1>0, <2>4, Zenon DEF OneAtATime
    <3> QED
      BY <2>4, <2>5, <2>6, <3>1, <3>2, Zenon
  <2> QED
    BY <2>4, <2>6, <2>7, <2>8, <2>9, Zenon DEF OneAtATime
\* The worker has finished a command.
<1>21. ASSUME NEW out, job.id \in Ids, Send(out), job' = NoJob,
              UNCHANGED <<id, accepted, tasks, queue, rpc>>
       PROVE  Numbered' /\ OneAtATime'
  <2>1. /\ UniqueReplies'
        /\ \A i \in Ids : Replied(i)' => Replied(i) \/ (i = job.id /\ \E c \in OnionClients : id[c] = job.id)
    BY <1>8, <1>21, Zenon
  <2>2. /\ UniqueTasks' /\ UniqueQueue'
        /\ \A i \in Ids : (Asked(i)' <=> Asked(i)) /\ (Queued(i)' <=> Queued(i))
    BY <1>2, <1>3, <1>21, Zenon
  <2>3. \A i \in Ids : job'.id # i
    BY <1>t, <1>21, Zenon
  <2>4. Numbered'
    BY <1>0, <1>21, <2>1, <2>2, <2>3, Zenon DEF Numbered
  <2>5. \A i \in Ids : \A d \in OnionClients : id'[d] = i /\ rpc'[d] = "idle" =>
           ~Asked(i)' /\ ~Queued(i)' /\ job'.id # i /\ ~Replied(i)'
    BY <1>0, <1>21, <2>1, <2>2, <2>3, ZenonT(60) DEF OneAtATime
  <2> QED
    BY <1>0, <1>21, <2>1, <2>2, <2>3, <2>4, <2>5, ZenonT(60) DEF OneAtATime
<1>22. ASSUME RegisterKeys \/ AnswerBatch
       PROVE  Numbered' /\ OneAtATime'
  <2>1. job.id \in Ids
    <3>1. "none" \notin Levels /\ "keys" # "none"
      OBVIOUS
    <3>2. job.kind # "none"
      BY <1>22, <3>1, Zenon DEF RegisterKeys, AnswerBatch
    <3> QED
      BY <1>0, <3>2 DEF Shapes, Ids
  <2> QED
    BY <1>21, <1>22, <2>1, Zenon DEF RegisterKeys, AnswerBatch
<1>23. ASSUME job'.id = job.id, UNCHANGED <<id, accepted, tasks, queue, replies, rpc>>
       PROVE  Numbered' /\ OneAtATime'
  <2>1. /\ UniqueTasks' /\ UniqueQueue' /\ UniqueReplies'
        /\ \A i \in Ids : (Asked(i)' <=> Asked(i)) /\ (Queued(i)' <=> Queued(i)) /\ (Replied(i)' <=> Replied(i))
    BY <1>2, <1>3, <1>4, <1>23, Zenon
  <2> QED
    BY <1>0, <1>23, <2>1, ZenonT(60) DEF Numbered, OneAtATime
<1>24. ASSUME answer_query
       PROVE  Numbered' /\ OneAtATime'
  <2>1. job'.id = job.id
    BY <1>0, <1>24 DEF answer_query, Shapes
  <2> QED
    BY <1>23, <1>24, <2>1, Zenon DEF answer_query
<1>25. CASE UNCHANGED workerVars
  BY <1>23, <1>25, Zenon DEF workerVars
<1> QED
  BY <1>11, <1>12, <1>15, <1>16, <1>17, <1>18, <1>19, <1>20, <1>22, <1>24, <1>25, ZenonT(60)
     DEF WorkerNext, Worker, Rpc, ReceiveReply

\* What the proof needs to know of counting: a set that holds n different
\* connections has at least n members, and one that grows gets no fewer.
CrowdFacts ==
    /\ \A ks : \A S \in SUBSET Ids, n \in Nat :
          (\A a \in 1..n : ks[a] \in S) /\ (\A a, b \in 1..n : a < b => ks[a] # ks[b])
            => Cardinality(S) >= n
    /\ \A S, T \in SUBSET Ids : S \subseteq T /\ Cardinality(S) >= Cap => Cardinality(T) >= Cap

LEMMA CrowdCounts ==
    ASSUME CrowdFacts, NEW S \in SUBSET Ids, NEW n \in Nat, NEW ks,
           \A a \in 1..n : ks[a] \in S,
           \A a, b \in 1..n : a < b => ks[a] # ks[b]
    PROVE  Cardinality(S) >= n
BY Zenon DEF CrowdFacts

LEMMA CrowdGrows ==
    ASSUME CrowdFacts, NEW S \in SUBSET Ids, NEW T \in SUBSET Ids, S \subseteq T, Cardinality(S) >= Cap
    PROVE  Cardinality(T) >= Cap
BY Zenon DEF CrowdFacts

\* What the key store does when connection i is active: i is at the front,
\* and who falls off the end has seen Cap others since.
LEMMA StoreFacts ==
    ASSUME CrowdFacts, Shapes, Recency, NEW i \in Ids, Active(i), keys' \in Seq(Ids),
           Len(keys') = IF Len(Front(i, keys)) > Cap THEN Cap ELSE Len(Front(i, keys)),
           \A n \in DOMAIN keys' : keys'[n] = Front(i, keys)[n]
    PROVE  /\ Recency' /\ i \in Known'
           /\ \A j \in Ids : j # i =>
                 /\ j \in Known => j \in Known' \/ Cardinality(since'[j]) >= Cap
                 /\ Cardinality(since[j]) >= Cap => Cardinality(since'[j]) >= Cap
<1> USE OnionWorkerAssumption
<1> DEFINE F == Front(i, keys)
<1>1. keys \in Seq(Ids) /\ \A n, m \in DOMAIN keys : n < m => keys[n] # keys[m]
  BY Zenon DEF Shapes, Recency
<1>2. /\ F \in Seq(Ids)
      /\ Len(F) = IF \E n \in DOMAIN keys : keys[n] = i THEN Len(keys) ELSE Len(keys) + 1
      /\ 1 \in DOMAIN F /\ F[1] = i
      /\ \A m \in DOMAIN F : m > 1 => F[m] # i /\ \E b \in DOMAIN keys : F[m] = keys[b]
      /\ \A n, m \in DOMAIN F : 1 < n /\ n < m =>
            \E a, b \in DOMAIN keys : a < b /\ F[n] = keys[a] /\ F[m] = keys[b]
      /\ \A b \in DOMAIN keys : \E m \in DOMAIN F : F[m] = keys[b]
  <2>1. FrontOf(F, i, keys)
    BY <1>1, FrontFacts, Zenon
  <2> QED
    BY <2>1, Zenon DEF FrontOf
<1>2a. /\ Len(keys') = IF Len(F) > Cap THEN Cap ELSE Len(F)
       /\ \A n \in DOMAIN keys' : keys'[n] = F[n]
  OBVIOUS
<1> HIDE DEF F
<1>3. /\ \A j \in Ids : j # i => since'[j] = since[j] \cup {i}
      /\ since' \in [Ids -> SUBSET Ids] /\ since \in [Ids -> SUBSET Ids]
  BY DEF Active, Shapes
<1>4. DOMAIN F = 1..Len(F) /\ Len(F) \in Nat /\ Len(F) >= 1 /\ \A m \in DOMAIN F : F[m] \in Ids
  BY <1>2
<1>5. DOMAIN keys' = 1..Len(keys') /\ DOMAIN keys' \subseteq DOMAIN F /\ 1 \in DOMAIN keys'
  BY <1>2a, <1>4
<1>6. ASSUME NEW n \in DOMAIN F, NEW m \in DOMAIN F, n < m
      PROVE  F[n] # F[m] /\ F[n] \in since'[F[m]]
  <2>1. F[m] # i /\ F[m] \in Ids
    BY <1>2, <1>4, <1>6
  <2>2. CASE n = 1
    BY <1>2, <1>3, <2>1, <2>2
  <2>3. CASE n # 1
    <3>1. PICK a \in DOMAIN keys, b \in DOMAIN keys : a < b /\ F[n] = keys[a] /\ F[m] = keys[b]
      <4>1. 1 < n /\ n < m
        BY <1>4, <1>6, <2>3
      <4> QED
        BY <1>2, <4>1, ZenonT(60)
    <3>2. keys[a] # keys[b] /\ keys[a] \in since[keys[b]]
      BY <3>1, Zenon DEF Recency
    <3> QED
      BY <1>3, <2>1, <3>1, <3>2, Zenon
  <2> QED
    BY <2>2, <2>3
<1>7. Recency'
  <2> SUFFICES ASSUME NEW n \in DOMAIN keys', NEW m \in DOMAIN keys', n < m
               PROVE  keys'[n] # keys'[m] /\ keys'[n] \in since'[keys'[m]]
    BY Zenon DEF Recency
  <2> QED
    BY <1>2a, <1>5, <1>6, Zenon
<1>8. i \in Known'
  <2>1. keys'[1] = i /\ DOMAIN keys' = 1..Len(keys') /\ 1 \in DOMAIN keys'
    BY <1>2, <1>2a, <1>5, Zenon
  <2> QED
    BY <2>1, Zenon DEF Known
<1>9. ASSUME NEW j \in Ids, j # i
      PROVE  /\ j \in Known => j \in Known' \/ Cardinality(since'[j]) >= Cap
             /\ Cardinality(since[j]) >= Cap => Cardinality(since'[j]) >= Cap
  <2>1. since[j] \in SUBSET Ids /\ since'[j] \in SUBSET Ids /\ since[j] \subseteq since'[j]
    BY <1>3, <1>9, Zenon
  <2>2. Cardinality(since[j]) >= Cap => Cardinality(since'[j]) >= Cap
    BY <2>1, CrowdGrows, Zenon
  <2>3. ASSUME j \in Known, j \notin Known'
        PROVE  Cardinality(since'[j]) >= Cap
    <3>1. PICK b \in DOMAIN keys : keys[b] = j
      BY <1>1, <2>3 DEF Known
    <3>2. PICK m \in DOMAIN F : F[m] = j
      BY <1>2, <3>1, Zenon
    <3>3. m \notin DOMAIN keys'
      BY <1>2a, <1>5, <2>3, <3>2, Zenon DEF Known
    <3>4. m > Cap /\ Cap \in Nat /\ \A a \in 1..Cap : a \in DOMAIN F /\ a < m
      <4>1. Len(keys') = (IF Len(F) > Cap THEN Cap ELSE Len(F)) /\ m \in 1..Len(F) /\ m \notin 1..Len(keys')
        BY <1>2a, <1>4, <1>5, <3>2, <3>3, Zenon
      <4>2. Cap \in Nat /\ Len(F) \in Nat
        BY <1>4
      <4>3. m > Cap /\ \A a \in 1..Cap : a \in 1..Len(F) /\ a < m
        BY <4>1, <4>2
      <4> QED
        BY <1>4, <4>2, <4>3, Zenon
    <3>5. \A a \in 1..Cap : F[a] \in since'[j]
      BY <1>6, <3>2, <3>4, Zenon
    <3>6. \A a, b1 \in 1..Cap : a < b1 => F[a] # F[b1]
      BY <1>6, <3>4, Zenon
    <3> QED
      BY <2>1, <3>4, <3>5, <3>6, CrowdCounts, Zenon
  <2> QED
    BY <2>2, <2>3, Zenon
<1> QED
  BY <1>7, <1>8, <1>9, Zenon

\* Only the worker's own steps touch the key store, and they leave who
\* registered either known or crowded out.
LEMMA StoreStep ==
    ASSUME CrowdFacts, WorkerInv, Shapes', [WorkerNext]_workerVars
    PROVE  Recency' /\ KeptOrCrowded'
<1> USE OnionWorkerAssumption
<1>0. Shapes /\ Numbered /\ OneAtATime /\ Recency /\ KeptOrCrowded
  BY Zenon DEF WorkerInv
<1>n. "none" \notin Levels /\ "keys" \notin Levels /\ NoJob.id = 0 /\ 0 \notin Ids
  BY DEF NoJob, Ids
\* The store is left alone and nobody else has registered.
<1>a. ASSUME UNCHANGED <<keys, since>>, \A i \in Ids : HasRegistered(i)' => HasRegistered(i)
      PROVE  Recency' /\ KeptOrCrowded'
  <2>1. Known' = Known
    BY <1>a, Zenon DEF Known
  <2>2. Recency'
    BY <1>0, <1>a, Zenon DEF Recency
  <2>3. KeptOrCrowded'
    BY <1>0, <1>a, <2>1, Zenon DEF KeptOrCrowded
  <2> QED
    BY <2>2, <2>3
<1>1. ASSUME NEW c \in OnionClients, connect(c)
      PROVE  Recency' /\ KeptOrCrowded'
  <2>1. \A d \in OnionClients : registered'[d] => registered[d] /\ id'[d] = id[d]
    BY <1>0, <1>1, Zenon DEF connect, Shapes
  <2>2. \A i \in Ids : HasRegistered(i)' => HasRegistered(i)
    BY <1>1, <2>1, Zenon DEF connect, HasRegistered, Replied
  <2> QED
    BY <1>1, <1>a, <2>2, Zenon DEF connect
<1>2. ASSUME NEW c \in OnionClients, disconnect(c)
      PROVE  Recency' /\ KeptOrCrowded'
  <2>1. \A d \in OnionClients : registered'[d] => registered[d] /\ id'[d] = id[d]
    BY <1>0, <1>2, Zenon DEF disconnect, Shapes
  <2>2. \A i \in Ids : HasRegistered(i)' => HasRegistered(i)
    BY <1>2, <2>1, Zenon DEF disconnect, HasRegistered, Replied
  <2> QED
    BY <1>2, <1>a, <2>2, Zenon DEF disconnect
\* A client asks for a batch once it knows that its keys are registered.
<1>3. ASSUME NEW c \in OnionClients, NEW k, Ask(c, k), k # "keys" => HasRegistered(id[c]),
             UNCHANGED <<id, keys, queue, job, since>>, replies' \in SUBSET replies,
             \A d \in OnionClients : registered'[d] => registered[d] \/ (d = c /\ HasRegistered(id[c]))
      PROVE  Recency' /\ KeptOrCrowded'
  <2>1. Request(id[c], k).id = id[c] /\ Request(id[c], k).kind = k
    BY DEF Request
  <2>2. \A t \in tasks' : t \in tasks \/ t = Request(id[c], k)
    BY <1>3, Zenon DEF Ask
  <2>3. ASSUME NEW i \in Ids, HasRegistered(i)'
        PROVE  HasRegistered(i)
    <3>1. CASE \E d \in OnionClients : id'[d] = i /\ registered'[d]
      BY <1>3, <3>1, Zenon DEF HasRegistered
    <3>2. CASE \E t \in tasks' : t.id = i /\ t.kind # "keys"
      BY <1>3, <2>1, <2>2, <3>2, Zenon DEF HasRegistered
    <3>3. CASE \/ \E n \in DOMAIN queue' : queue'[n].id = i /\ queue'[n].kind # "keys"
               \/ job'.id = i /\ job'.kind # "keys"
               \/ \E r \in replies' : r.id = i
      BY <1>3, <3>3, Zenon DEF HasRegistered, Replied
    <3> QED
      BY <2>3, <3>1, <3>2, <3>3, Zenon DEF HasRegistered, Replied
  <2> QED
    BY <1>3, <1>a, <2>3, Zenon
<1>4. ASSUME NEW c \in OnionClients, NEW l \in Levels, ensure_keys_registered(c, l)
      PROVE  Recency' /\ KeptOrCrowded'
  <2>1. /\ UNCHANGED <<id, keys, queue, job, since, registered>> /\ replies' \in SUBSET replies
    BY <1>4, Zenon DEF ensure_keys_registered
  <2>2. PICK k : Ask(c, k) /\ (k # "keys" => registered[c])
    BY <1>4, <1>n, Zenon DEF ensure_keys_registered
  <2>3. k # "keys" => HasRegistered(id[c])
    BY <2>2, Zenon DEF HasRegistered
  <2> QED
    BY <1>3, <2>1, <2>2, <2>3, Zenon
<1>5. ASSUME NEW c \in OnionClients, NEW r, TakeReply(c, r)
      PROVE  HasRegistered(id[c]) /\ replies' \in SUBSET replies
  BY <1>5, Zenon DEF TakeReply, HasRegistered, Replied
<1>6. ASSUME NEW c \in OnionClients, register_keys(c)
      PROVE  Recency' /\ KeptOrCrowded'
  <2>1. /\ UNCHANGED <<id, keys, queue, job, since>> /\ Ask(c, level[c])
        /\ HasRegistered(id[c]) /\ replies' \in SUBSET replies
    BY <1>5, <1>6, Zenon DEF register_keys
  <2>2. \A d \in OnionClients : registered'[d] => registered[d] \/ d = c
    BY <1>0, <1>6, Zenon DEF register_keys, Shapes
  <2> QED
    BY <1>3, <2>1, <2>2, Zenon
<1>7. ASSUME NEW c \in OnionClients, NEW r \in replies, onionpir_batch_rpc(c, r) \/ verify_sub_tree(c, r)
      PROVE  Recency' /\ KeptOrCrowded'
  <2>1. /\ UNCHANGED <<id, keys, queue, job, since, registered>>
        /\ HasRegistered(id[c]) /\ replies' \in SUBSET replies
    BY <1>5, <1>7, Zenon DEF onionpir_batch_rpc, verify_sub_tree
  <2>2. Ask(c, "keys") \/ UNCHANGED tasks
    BY <1>7, Zenon DEF onionpir_batch_rpc, verify_sub_tree
  <2>3. CASE Ask(c, "keys")
    BY <1>3, <2>1, <2>3, Zenon
  <2>4. CASE UNCHANGED tasks
    <3>1. \A i \in Ids : HasRegistered(i)' => HasRegistered(i)
      BY <2>1, <2>4, Zenon DEF HasRegistered, Replied
    <3> QED
      BY <1>a, <2>1, <3>1, Zenon
  <2> QED
    BY <2>2, <2>3, <2>4
<1>8. ASSUME NEW t \in tasks, dispatch(t)
      PROVE  Recency' /\ KeptOrCrowded'
  <2>0. queue \in Seq(Commands) /\ t \in Commands
    BY <1>0, Zenon DEF Shapes
  <2>1. UNCHANGED <<id, keys, job, replies, registered, since>> /\ tasks' = tasks \ {t} /\ queue' = Append(queue, t)
    BY <1>8, Zenon DEF dispatch
  <2>2. \A n \in DOMAIN queue' : (n \in DOMAIN queue /\ queue'[n] = queue[n]) \/ queue'[n] = t
    BY <2>0, <2>1
  <2>3. \A i \in Ids : HasRegistered(i)' => HasRegistered(i)
    BY <2>1, <2>2, ZenonT(60) DEF HasRegistered, Replied
  <2> QED
    BY <1>a, <2>1, <2>3, Zenon
<1>9. ASSUME blocking_recv
      PROVE  Recency' /\ KeptOrCrowded'
  <2>0. queue \in Seq(Commands) /\ queue # <<>>
    BY <1>0, <1>9, Zenon DEF Shapes, blocking_recv
  <2>1. /\ UNCHANGED <<id, keys, tasks, replies, registered, since>> /\ queue' = Tail(queue)
        /\ job'.id = Head(queue).id /\ job'.kind = Head(queue).kind
    BY <1>9 DEF blocking_recv
  <2>2. /\ 1 \in DOMAIN queue /\ Head(queue) = queue[1]
        /\ \A n \in DOMAIN queue' : n + 1 \in DOMAIN queue /\ queue'[n] = queue[n + 1]
    BY <2>0, <2>1
  <2>3. \A n \in DOMAIN queue' : \E m \in DOMAIN queue : queue'[n] = queue[m]
    BY <2>2, Zenon
  <2>4. ASSUME NEW i \in Ids, HasRegistered(i)'
        PROVE  HasRegistered(i)
    <3>1. CASE \E n \in DOMAIN queue' : queue'[n].id = i /\ queue'[n].kind # "keys"
      <4>1. PICK n \in DOMAIN queue' : queue'[n].id = i /\ queue'[n].kind # "keys"
        BY <3>1, Zenon
      <4>2. PICK m \in DOMAIN queue : queue'[n] = queue[m]
        BY <2>3, Zenon
      <4>3. queue[m].id = i /\ queue[m].kind # "keys"
        BY <4>1, <4>2
      <4> QED
        BY <4>3, Zenon DEF HasRegistered
    <3>2. CASE job'.id = i /\ job'.kind # "keys"
      <4>1. queue[1].id = i /\ queue[1].kind # "keys"
        BY <2>1, <2>2, <3>2
      <4> QED
        BY <2>2, <4>1, Zenon DEF HasRegistered
    <3> QED
      BY <2>1, <2>4, <3>1, <3>2, Zenon DEF HasRegistered, Replied
  <2> QED
    BY <1>a, <2>1, <2>4, Zenon
<1>10. ASSUME AnswerBatch
       PROVE  Recency' /\ KeptOrCrowded'
  <2>1. /\ UNCHANGED <<id, keys, tasks, queue, registered, since>> /\ job' = NoJob
        /\ Send(Results(job)) /\ job.kind # "keys"
    BY <1>10, <1>n, Zenon DEF AnswerBatch
  <2>2. [id |-> job.id, kind |-> job.kind, out |-> Results(job)].id = job.id
    OBVIOUS
  <2>3. \A r \in replies' : r \in replies \/ r.id = job.id
    BY <2>1, <2>2, Zenon DEF Send
  <2>4. \A i \in Ids : HasRegistered(i)' => HasRegistered(i)
    BY <1>n, <2>1, <2>3, ZenonT(60) DEF HasRegistered, Replied
  <2> QED
    BY <1>a, <2>1, <2>4, Zenon
\* Connection i is active.
<1>11. ASSUME NEW i \in Ids, Active(i),
              Len(keys') = IF Len(Front(i, keys)) > Cap THEN Cap ELSE Len(Front(i, keys)),
              \A n \in DOMAIN keys' : keys'[n] = Front(i, keys)[n],
              \A j \in Ids : j # i /\ HasRegistered(j)' => HasRegistered(j)
       PROVE  Recency' /\ KeptOrCrowded'
  <2>0. keys' \in Seq(Ids)
    BY Zenon DEF Shapes
  <2>1. /\ Recency' /\ i \in Known'
        /\ \A j \in Ids : j # i =>
              /\ j \in Known => j \in Known' \/ Cardinality(since'[j]) >= Cap
              /\ Cardinality(since[j]) >= Cap => Cardinality(since'[j]) >= Cap
    BY <1>0, <1>11, <2>0, StoreFacts, Zenon
  <2>2. KeptOrCrowded'
    BY <1>0, <1>11, <2>1, Zenon DEF KeptOrCrowded
  <2> QED
    BY <2>1, <2>2
<1>12. ASSUME RegisterKeys
       PROVE  Recency' /\ KeptOrCrowded'
  <2>1. /\ UNCHANGED <<id, tasks, queue, registered>> /\ job' = NoJob /\ Send(<<>>) /\ Active(job.id)
        /\ keys' = evict_if_full(Front(job.id, keys)) /\ job.kind = "keys"
    BY <1>12, Zenon DEF RegisterKeys
  <2>2. job.id \in Ids
    BY <1>0, <2>1 DEF Shapes, Ids
  <2>3. [id |-> job.id, kind |-> job.kind, out |-> <<>>].id = job.id
    OBVIOUS
  <2>4. \A r \in replies' : r \in replies \/ r.id = job.id
    BY <2>1, <2>3, Zenon DEF Send
  <2>5. \A j \in Ids : j # job.id /\ HasRegistered(j)' => HasRegistered(j)
    BY <1>n, <2>1, <2>4, ZenonT(60) DEF HasRegistered, Replied
  <2>6. FrontOf(Front(job.id, keys), job.id, keys)
    <3>1. keys \in Seq(Ids) /\ \A n, m \in DOMAIN keys : n < m => keys[n] # keys[m]
      BY <1>0, Zenon DEF Shapes, Recency
    <3> QED
      BY <2>2, <3>1, FrontFacts, Zenon
  <2>7. /\ Len(keys') = IF Len(Front(job.id, keys)) > Cap THEN Cap ELSE Len(Front(job.id, keys))
        /\ \A n \in DOMAIN keys' : keys'[n] = Front(job.id, keys)[n]
    <3> DEFINE F == Front(job.id, keys)
    <3>1. keys' = SubSeq(F, 1, IF Len(F) > Cap THEN Cap ELSE Len(F)) /\ F \in Seq(Ids) /\ Cap \in Nat
      BY <2>1, <2>6, Zenon DEF evict_if_full, FrontOf
    <3> HIDE DEF F
    <3>2. Len(keys') = (IF Len(F) > Cap THEN Cap ELSE Len(F)) /\ \A n \in DOMAIN keys' : keys'[n] = F[n]
      BY <3>1
    <3> QED
      BY <3>2 DEF F
  <2> QED
    BY <1>11, <2>1, <2>2, <2>5, <2>7, Zenon
<1>13. ASSUME answer_query
       PROVE  Recency' /\ KeptOrCrowded'
  <2>1. UNCHANGED <<id, tasks, queue, replies, registered>>
    BY <1>13, Zenon DEF answer_query
  <2>a. PICK o : job' = [job EXCEPT !.out = Append(@, o)]
    BY <1>13, Zenon DEF answer_query
  <2>b. job \in [id : 0..MaxId, kind : Levels \cup {"keys", "none"}, out : Outs]
    BY <1>0, Zenon DEF Shapes
  <2>2. job'.id = job.id /\ job'.kind = job.kind
    BY <2>a, <2>b
  <2>3. \A j \in Ids : HasRegistered(j)' => HasRegistered(j)
    BY <2>1, <2>2, ZenonT(60) DEF HasRegistered, Replied
  <2>4. CASE job.id \notin Known
    BY <1>13, <1>a, <2>3, <2>4, Zenon DEF answer_query
  <2>5. CASE job.id \in Known
    <3>1. job.id \in Ids
      <4>1. job.kind # "none"
        BY <1>13, <1>n, Zenon DEF answer_query
      <4> QED
        BY <1>0, <4>1 DEF Shapes, Ids
    <3>2. keys' = Front(job.id, keys) /\ Active(job.id)
      BY <1>13, <2>5, Zenon DEF answer_query
    <3>3. Len(keys') <= Cap /\ Len(keys') \in Nat /\ Cap \in Nat
      <4>1. Len(keys') <= Cap /\ keys' \in Seq(Ids)
        BY Zenon DEF Shapes
      <4> QED
        BY <4>1
    <3>4. Len(keys') = IF Len(keys') > Cap THEN Cap ELSE Len(keys')
      BY <3>3
    <3> QED
      BY <1>11, <2>3, <3>1, <3>2, <3>4, Zenon
  <2> QED
    BY <2>4, <2>5
<1>14. CASE UNCHANGED workerVars
  <2>1. \A i \in Ids : HasRegistered(i)' => HasRegistered(i)
    BY <1>14, ZenonT(60) DEF workerVars, HasRegistered, Replied
  <2> QED
    BY <1>14, <1>a, <2>1, Zenon DEF workerVars
<1> QED
  BY <1>1, <1>2, <1>4, <1>6, <1>7, <1>8, <1>9, <1>10, <1>12, <1>13, <1>14, ZenonT(60)
     DEF WorkerNext, Worker, Rpc, ReceiveReply

\* No registration gets between the slots of a batch, and nobody's keys are
\* gone without a crowd.
LEMMA SlotsStep ==
    ASSUME CrowdFacts, WorkerInv, Shapes', [WorkerNext]_workerVars
    PROVE  SlotsAgree' /\ AllOrNothing' /\ EvictedByCrowd'
<1> USE OnionWorkerAssumption
<1>0. Shapes /\ OneAtATime /\ Recency /\ KeptOrCrowded /\ SlotsAgree /\ AllOrNothing /\ EvictedByCrowd
  BY Zenon DEF WorkerInv
<1>n. /\ "none" \notin Levels /\ "keys" \notin Levels /\ "full" # "empty"
      /\ NoJob.kind = "none" /\ NoJob.out = <<>>
  BY DEF NoJob
\* Answers are only taken away and nobody is active.
<1>a. ASSUME replies' \in SUBSET replies, UNCHANGED since
      PROVE  AllOrNothing' /\ EvictedByCrowd'
  BY <1>0, <1>a, Zenon DEF AllOrNothing, EvictedByCrowd
<1>b. ASSUME UNCHANGED <<keys, job>>
      PROVE  SlotsAgree'
  BY <1>0, <1>b, Zenon DEF SlotsAgree, Known
<1>c. ASSUME job' = NoJob
      PROVE  SlotsAgree'
  BY <1>c, <1>n, Zenon DEF SlotsAgree
\* The connection the worker is at is active; those with an answer are others.
<1>d. ASSUME Active(job.id), job.id \in Ids, NEW r \in replies
      PROVE  Cardinality(since[r.id]) >= Cap => Cardinality(since'[r.id]) >= Cap
  <2>1. r.id \in Ids /\ r.id # job.id
    <3>1. r.id \in Ids
      BY <1>0 DEF Shapes
    <3>2. Replied(r.id)
      BY Zenon DEF Replied
    <3> QED
      BY <1>0, <3>1, <3>2, Zenon DEF OneAtATime
  <2> QED
    <3>1. since'[r.id] = since[r.id] \cup {job.id}
      BY <1>d, <2>1, Zenon DEF Active
    <3>2. since[r.id] \in SUBSET Ids
      BY <1>0, <2>1, Zenon DEF Shapes
    <3>3. since[r.id] \subseteq since'[r.id] /\ since'[r.id] \in SUBSET Ids
      BY <1>d, <3>1, <3>2, Zenon
    <3> QED
      BY <3>2, <3>3, CrowdGrows, Zenon
<1>1. ASSUME NEW c \in OnionClients, connect(c) \/ disconnect(c)
      PROVE  SlotsAgree' /\ AllOrNothing' /\ EvictedByCrowd'
  <2>1. replies' \in SUBSET replies /\ UNCHANGED <<keys, job, since>>
    BY <1>1, Zenon DEF connect, disconnect
  <2> QED
    BY <1>a, <1>b, <2>1, Zenon
<1>2. ASSUME NEW c \in OnionClients, Rpc(c)
      PROVE  SlotsAgree' /\ AllOrNothing' /\ EvictedByCrowd'
  <2>1. replies' \in SUBSET replies /\ UNCHANGED <<keys, job, since>>
    BY <1>2, Zenon DEF Rpc, ReceiveReply, register_keys, onionpir_batch_rpc, verify_sub_tree,
                       ensure_keys_registered, TakeReply
  <2> QED
    BY <1>a, <1>b, <2>1, Zenon
<1>3. ASSUME NEW t \in tasks, dispatch(t)
      PROVE  SlotsAgree' /\ AllOrNothing' /\ EvictedByCrowd'
  <2>1. replies' \in SUBSET replies /\ UNCHANGED <<keys, job, since>>
    BY <1>3, Zenon DEF dispatch
  <2> QED
    BY <1>a, <1>b, <2>1, Zenon
<1>4. ASSUME blocking_recv
      PROVE  SlotsAgree' /\ AllOrNothing' /\ EvictedByCrowd'
  <2>1. replies' \in SUBSET replies /\ UNCHANGED since
    BY <1>4, Zenon DEF blocking_recv
  <2>2. DOMAIN job'.out = {}
    BY <1>4 DEF blocking_recv
  <2>3. SlotsAgree'
    BY <2>2, Zenon DEF SlotsAgree
  <2> QED
    BY <1>a, <2>1, <2>3, Zenon
<1>5. ASSUME RegisterKeys
      PROVE  SlotsAgree' /\ AllOrNothing' /\ EvictedByCrowd'
  <2>1. job' = NoJob /\ Send(<<>>) /\ Active(job.id) /\ job.kind = "keys"
    BY <1>5, Zenon DEF RegisterKeys
  <2>2. job.id \in Ids
    BY <1>0, <2>1 DEF Shapes, Ids
  <2>3. [id |-> job.id, kind |-> job.kind, out |-> <<>>].kind = "keys"
    BY <2>1
  <2>4. \A r \in replies' : r.kind # "keys" => r \in replies
    BY <2>1, <2>3, Zenon DEF Send
  <2>5. AllOrNothing'
    BY <1>0, <2>4, Zenon DEF AllOrNothing
  <2>6. EvictedByCrowd'
    BY <1>0, <1>d, <2>1, <2>2, <2>4, Zenon DEF EvictedByCrowd
  <2> QED
    BY <1>c, <2>1, <2>5, <2>6, Zenon
<1>6. ASSUME answer_query
      PROVE  SlotsAgree' /\ AllOrNothing' /\ EvictedByCrowd'
  <2>1. job.kind \in Levels /\ UNCHANGED replies
    BY <1>6, Zenon DEF answer_query
  <2>2. job.id \in Ids
    BY <1>0, <1>n, <2>1 DEF Shapes, Ids
  <2>3. CASE job.id \notin Known
    <3>1. UNCHANGED <<keys, since>> /\ job' = [job EXCEPT !.out = Append(@, "empty")]
      BY <1>6, <2>3, Zenon DEF answer_query
    <3>2. \A s \in DOMAIN job.out : job.out[s] = "empty"
      BY <1>0, <2>1, <2>3, Zenon DEF SlotsAgree
    <3>3. job'.id = job.id /\ \A s \in DOMAIN job'.out : job'.out[s] = "empty"
      <4>1. job.out \in Outs
        BY <1>0 DEF Shapes
      <4>2. job'.id = job.id /\ job'.out = Append(job.out, "empty")
        BY <1>0, <3>1 DEF Shapes
      <4>3. \A s \in DOMAIN job'.out : job'.out[s] = "empty"
        BY <3>2, <4>1, <4>2 DEF Outs
      <4> QED
        BY <4>2, <4>3
    <3>4. job'.id \notin Known'
      BY <2>3, <3>1, <3>3, Zenon DEF Known
    <3>5. SlotsAgree'
      BY <3>3, <3>4, Zenon DEF SlotsAgree
    <3> QED
      BY <1>a, <2>1, <3>1, <3>5, Zenon
  <2>4. CASE job.id \in Known
    <3>1. keys' = Front(job.id, keys) /\ Active(job.id) /\ job' = [job EXCEPT !.out = Append(@, "full")]
      BY <1>6, <2>4, Zenon DEF answer_query
    <3>2. \A s \in DOMAIN job.out : job.out[s] = "full"
      BY <1>0, <2>1, <2>4, Zenon DEF SlotsAgree
    <3>3. job'.id = job.id /\ \A s \in DOMAIN job'.out : job'.out[s] = "full"
      <4>1. job.out \in Outs
        BY <1>0 DEF Shapes
      <4>2. job'.id = job.id /\ job'.out = Append(job.out, "full")
        BY <1>0, <3>1 DEF Shapes
      <4>3. \A s \in DOMAIN job'.out : job'.out[s] = "full"
        BY <3>2, <4>1, <4>2 DEF Outs
      <4> QED
        BY <4>2, <4>3
    <3>4. job'.id \in Known'
      <4>1. keys \in Seq(Ids) /\ \A n, m \in DOMAIN keys : n < m => keys[n] # keys[m]
        BY <1>0, Zenon DEF Shapes, Recency
      <4>2. FrontOf(keys', job.id, keys)
        BY <2>2, <3>1, <4>1, FrontFacts, Zenon
      <4>3. 1 \in 1..Len(keys') /\ keys'[1] = job.id
        BY <4>2 DEF FrontOf
      <4> QED
        BY <3>3, <4>3, Zenon DEF Known
    <3>5. SlotsAgree'
      BY <3>3, <3>4, Zenon DEF SlotsAgree
    <3>6. AllOrNothing'
      BY <1>0, <2>1, Zenon DEF AllOrNothing
    <3>7. EvictedByCrowd'
      BY <1>0, <1>d, <2>1, <2>2, <3>1, Zenon DEF EvictedByCrowd
    <3> QED
      BY <3>5, <3>6, <3>7
  <2> QED
    BY <2>3, <2>4
<1>7. ASSUME AnswerBatch
      PROVE  SlotsAgree' /\ AllOrNothing' /\ EvictedByCrowd'
  <2>1. /\ job.kind \in Levels /\ Len(job.out) = Slots /\ Send(Results(job)) /\ job' = NoJob
        /\ UNCHANGED since
    BY <1>7, Zenon DEF AnswerBatch
  <2>2. job.id \in Ids /\ job.out \in Outs
    BY <1>0, <1>n, <2>1 DEF Shapes, Ids
  <2>3. DOMAIN job.out = 1..Slots
    BY <2>1, <2>2 DEF Outs
  <2>4. HasRegistered(job.id)
    BY <1>n, <2>1, Zenon DEF HasRegistered
  \* The same for every slot, and empty only without keys.
  <2>5. /\ DOMAIN Results(job) = 1..Slots
        /\ \A s \in 1..Slots : Results(job)[s] = (IF job.id \in Known THEN "full" ELSE "empty")
    <3>1. \A s \in 1..Slots : job.out[s] = (IF job.id \in Known THEN "full" ELSE "empty")
      BY <1>0, <2>1, <2>3, Zenon DEF SlotsAgree
    <3>2. CASE job.kind = "chunk" /\ \E s \in 1..Slots : job.out[s] = "empty"
      <4>1. Results(job) = [s \in 1..Slots |-> "empty"] /\ job.id \notin Known
        BY <1>n, <3>1, <3>2, Zenon DEF Results
      <4> QED
        BY <4>1, Zenon
    <3>3. CASE ~(job.kind = "chunk" /\ \E s \in 1..Slots : job.out[s] = "empty")
      BY <2>3, <3>1, <3>3, Zenon DEF Results
    <3> QED
      BY <3>2, <3>3
  <2> DEFINE new == [id |-> job.id, kind |-> job.kind, out |-> Results(job)]
  <2>6. new.id = job.id /\ new.out = Results(job)
    OBVIOUS
  <2>7. \A r \in replies' : r \in replies \/ r = new
    BY <2>1, Zenon DEF Send
  <2>8. new \in replies' => 1..Len(new.out) = 1..Slots
    <3>1. new \in replies' => new.out \in Outs
      BY DEF Shapes
    <3> QED
      BY <2>5, <2>6, <3>1 DEF Outs
  <2> HIDE DEF new
  <2>9. AllOrNothing'
    <3> SUFFICES ASSUME NEW r \in replies', r.kind # "keys",
                        NEW s \in 1..Len(r.out), NEW t \in 1..Len(r.out)
                 PROVE  r.out[s] = r.out[t]
      BY Zenon DEF AllOrNothing
    <3>1. CASE r \in replies
      BY <1>0, <3>1, Zenon DEF AllOrNothing
    <3>2. CASE r = new
      <4>1. s \in 1..Slots /\ t \in 1..Slots
        BY <2>8, <3>2, Zenon
      <4>2. Results(job)[s] = Results(job)[t]
        BY <2>5, <4>1, Zenon
      <4> QED
        BY <2>6, <3>2, <4>2, Zenon
    <3> QED
      BY <2>7, <3>1, <3>2, Zenon
  <2>10. (\E s \in 1..Slots : Results(job)[s] = "empty") => Cardinality(since[job.id]) >= Cap
    BY <1>0, <1>n, <2>2, <2>4, <2>5, Zenon DEF KeptOrCrowded
  <2>11. EvictedByCrowd'
    BY <1>0, <2>1, <2>6, <2>7, <2>8, <2>10, Zenon DEF EvictedByCrowd
  <2> QED
    BY <1>c, <2>1, <2>9, <2>11, Zenon
<1>8. CASE UNCHANGED workerVars
  <2>1. replies' \in SUBSET replies /\ UNCHANGED <<keys, job, since>>
    BY <1>8, Zenon DEF workerVars
  <2> QED
    BY <1>a, <1>b, <2>1, Zenon
<1> QED
  BY <1>1, <1>2, <1>3, <1>4, <1>5, <1>6, <1>7, <1>8, ZenonT(60) DEF WorkerNext, Worker

LEMMA WorkerInvInit == WorkerInit => WorkerInv
<1> SUFFICES ASSUME WorkerInit
             PROVE  WorkerInv
  OBVIOUS
<1> USE OnionWorkerAssumption
<1>1. Shapes
  <2>1. /\ keys \in Seq(Ids) /\ Len(keys) <= Cap /\ queue \in Seq(Commands) /\ Len(queue) <= QueueCap
        /\ id \in [OnionClients -> 0..MaxId] /\ accepted \in 0..MaxId /\ calls \in 0..MaxCalls
    BY DEF WorkerInit
  <2>2. /\ job \in [id : 0..MaxId, kind : Levels \cup {"keys", "none"}, out : Outs]
        /\ ((job.id = 0) <=> (job.kind = "none")) /\ Len(job.out) <= Slots
    BY DEF WorkerInit, NoJob, Outs
  <2>3. /\ tasks = {} /\ replies = {} /\ DOMAIN level = OnionClients
        /\ \A c \in OnionClients : rpc[c] = "idle"
    BY Zenon DEF WorkerInit
  <2>4. rpc \in [OnionClients -> {"idle", "register", "first", "again", "retry"}]
    BY DEF WorkerInit
  <2>5. registered \in [OnionClients -> BOOLEAN] /\ since \in [Ids -> SUBSET Ids]
    BY Zenon DEF WorkerInit
  <2> QED
    BY <2>1, <2>2, <2>3, <2>4, <2>5, Zenon DEF Shapes
<1>2. \A i \in Ids : ~Asked(i) /\ ~Queued(i) /\ job.id # i /\ ~Replied(i)
  BY DEF WorkerInit, NoJob, Ids, Asked, Queued, Replied
<1>3. Numbered
  BY <1>2, SMT DEF WorkerInit, Numbered
<1>4. OneAtATime
  <2>1. tasks = {} /\ DOMAIN queue = {} /\ replies = {}
    BY DEF WorkerInit
  <2> QED
    BY <1>2, <2>1, Zenon DEF OneAtATime
<1>5. DOMAIN keys = {} /\ DOMAIN queue = {} /\ replies = {} /\ tasks = {}
  BY DEF WorkerInit
<1>6. Recency
  BY <1>5, Zenon DEF Recency
<1>7. KeptOrCrowded
  <2>1. \A c \in OnionClients : registered[c] = FALSE
    BY Zenon DEF WorkerInit
  <2> QED
    BY <1>2, <1>5, <2>1, Zenon DEF KeptOrCrowded, HasRegistered
<1>8. SlotsAgree
  <2>1. job.kind = "none" /\ "none" \notin Levels
    BY DEF WorkerInit, NoJob
  <2> QED
    BY <2>1, Zenon DEF SlotsAgree
<1>9. AllOrNothing /\ EvictedByCrowd
  BY <1>5, Zenon DEF AllOrNothing, EvictedByCrowd
<1> QED
  BY <1>1, <1>3, <1>4, <1>6, <1>7, <1>8, <1>9, Zenon DEF WorkerInv

-----------------------------------------------------------------------------
INSTANCE FiniteSetTheorems

LEMMA CrowdFactsHold == CrowdFacts
<1>1. ASSUME NEW ks, NEW S \in SUBSET Ids, NEW n \in Nat,
             \A a \in 1..n : ks[a] \in S,
             \A a, b \in 1..n : a < b => ks[a] # ks[b]
      PROVE  Cardinality(S) >= n
  <2> DEFINE f == [a \in 1..n |-> ks[a]]
  <2>1. f \in Injection(1..n, S)
    <3>1. f \in [1..n -> S]
      BY <1>1
    <3>2. \A a, b \in 1..n : a # b => a < b \/ b < a
      OBVIOUS
    <3>3. \A a, b \in 1..n : f[a] = f[b] => a = b
      BY <1>1, <3>2
    <3> HIDE DEF f
    <3> QED
      BY <3>1, <3>3 DEF Injection, IsInjective
  <2>2. IsFiniteSet(S)
    <3>1. MaxId \in Int /\ 1 \in Int
      BY OnionWorkerAssumption
    <3>2. IsFiniteSet(1..MaxId)
      BY <3>1, FS_Interval
    <3> QED
      BY <3>2, FS_Subset, Zenon DEF Ids
  <2>3. Cardinality(1..n) = n
    BY FS_Interval
  <2>4. Cardinality(1..n) <= Cardinality(S)
    BY <2>1, <2>2, FS_Injection
  <2>5. Cardinality(S) \in Nat
    BY <2>2, FS_CardinalityType
  <2> QED
    BY <2>3, <2>4, <2>5
<1>2. ASSUME NEW S \in SUBSET Ids, NEW T \in SUBSET Ids, S \subseteq T, Cardinality(S) >= Cap
      PROVE  Cardinality(T) >= Cap
  <2>1. MaxId \in Int /\ 1 \in Int /\ Cap \in Nat
    BY OnionWorkerAssumption
  <2>2. IsFiniteSet(1..MaxId)
    BY <2>1, FS_Interval
  <2>3. IsFiniteSet(T) /\ IsFiniteSet(S)
    BY <2>2, FS_Subset, Zenon DEF Ids
  <2>4. Cardinality(S) <= Cardinality(T)
    BY <1>2, <2>3, FS_Subset, Zenon
  <2>5. Cardinality(S) \in Nat /\ Cardinality(T) \in Nat
    BY <2>3, FS_CardinalityType
  <2> QED
    BY <1>2, <2>1, <2>4, <2>5
<1> QED
  BY <1>1, <1>2, Zenon DEF CrowdFacts

\* What the OnionPIR worker promises for any number of clients, size of the
\* key store, of the command channel and of a batch: answers belong to
\* connections that were accepted, a batch is answered in full or not at all,
\* and a client is forgotten only after as many others as the store holds
\* were active since its last request.
THEOREM WorkerIsSafe == WorkerSpec => []WorkerSafe
<1>1. WorkerInit => WorkerInv
  BY WorkerInvInit
<1>2. WorkerInv /\ [WorkerNext]_workerVars => WorkerInv'
  <2> SUFFICES ASSUME WorkerInv, [WorkerNext]_workerVars
               PROVE  WorkerInv'
    OBVIOUS
  <2>1. Shapes'
    BY ShapesStep, Zenon
  <2>2. Numbered' /\ OneAtATime'
    BY <2>1, OneStep, Zenon
  <2>3. Recency' /\ KeptOrCrowded'
    BY <2>1, StoreStep, CrowdFactsHold, Zenon
  <2>4. SlotsAgree' /\ AllOrNothing' /\ EvictedByCrowd'
    BY <2>1, SlotsStep, CrowdFactsHold, Zenon
  <2> QED
    BY <2>1, <2>2, <2>3, <2>4, Zenon DEF WorkerInv
<1>3. WorkerInv => WorkerSafe
  <2> SUFFICES ASSUME WorkerInv
               PROVE  WorkerSafe
    OBVIOUS
  <2> USE OnionWorkerAssumption
  <2>1. Shapes /\ Numbered /\ AllOrNothing /\ EvictedByCrowd
    BY Zenon DEF WorkerInv
  <2>2. id \in [OnionClients -> 0..accepted]
    BY <2>1 DEF Shapes, Numbered
  <2>3. \A r \in replies : r.id \in 1..accepted
    <3>1. \A r \in replies : r.id \in Ids /\ Replied(r.id)
      BY <2>1 DEF Shapes, Replied
    <3>2. \A r \in replies : r.id \in Ids /\ r.id <= accepted
      BY <2>1, <3>1, Zenon DEF Numbered
    <3> QED
      BY <2>1, <3>2 DEF Shapes, Ids
  <2>4. WorkerTypeOK
    BY <2>1, <2>2, <2>3, Zenon DEF Shapes, WorkerTypeOK
  <2> QED
    BY <2>1, <2>4, Zenon DEF WorkerSafe
<1> QED
  BY <1>1, <1>2, <1>3, PTL DEF WorkerSpec
=============================================================================
