------------------------------ MODULE ScanBatch ------------------------------
(***************************************************************************)
(* The shared table scan of the PIR server                                 *)
(* (apps/server/src/bin/unified_server/scan_batch.rs).                     *)
(*                                                                         *)
(* One lane, that is one (table, free?) entry of ScanBatcher::lanes.  Each *)
(* element of Queries is one call of ScanBatcher::scan, running on a       *)
(* thread of its own.  A thread sleeps only on the receiving end of its    *)
(* private channel; the lane mutex is held for one step at a time, so a    *)
(* critical section is one action.                                         *)
(***************************************************************************)
EXTENDS Naturals, Sequences, Folds

CONSTANTS Queries,      \* the calls of scan() on this lane
          Keys,         \* Keys[q][g]: the DPF keys call q brings for group g,
                        \* each the bits it selects in its own domain
          BinsPerTable, \* bins of a group's table
          MAX_KEYS_PER_GROUP

VARIABLES scanning,     \* Lane.scanning
          queued,       \* Lane.queued, oldest first
          reply,        \* reply[q]: messages in q's channel, oldest first
          pc,           \* where the call stands
          jobs,         \* jobs[q]: the batch q drained
          sent,         \* sent[q]: how many of jobs[q] have their result
          result        \* result[q]: what the call returned

vars == <<scanning, queued, reply, pc, jobs, sent, result>>

-----------------------------------------------------------------------------
(* scan_jobs: how one scan evaluates the keys of several queries and how   *)
(* the flat list of accumulators of each group is cut up again.  A query   *)
(* brings a sequence of groups, each a sequence of keys; queries of one    *)
(* batch may differ in both lengths.                                       *)

\* get_dpf_bit: a key's bits past its own domain count as zero.
Bit(key, bin) == bin \in DOMAIN key /\ key[bin]

\* Dpf::eval_partial: the bins of the table a key says something about.
Evaluated(key) == DOMAIN key \cap 1..BinsPerTable

\* One pass over the table of group g: every bin some key of the pass covers
\* is read once and added to the accumulators of the keys that select it.
process_pass(g, keys) ==
    LET blocks == UNION {Evaluated(keys[k]) : k \in DOMAIN keys}
    IN  [k \in DOMAIN keys |-> {<<g, bin>> : bin \in {b \in blocks : Bit(keys[k], b)}}]

\* Passes of at most MAX_KEYS_PER_GROUP keys, their accumulators in order.
process_table_group(g, keys) ==
    [k \in DOMAIN keys |->
        LET before == ((k - 1) \div MAX_KEYS_PER_GROUP) * MAX_KEYS_PER_GROUP
        IN  process_pass(g, SubSeq(keys, before + 1,
                IF before + MAX_KEYS_PER_GROUP < Len(keys)
                THEN before + MAX_KEYS_PER_GROUP ELSE Len(keys)))[k - before]]

\* job.keys.get(g): the query's keys for group g, none past its last group.
KeysAt(keys, g) == IF g \in DOMAIN keys THEN keys[g] ELSE <<>>

Least(S) == CHOOSE i \in S : \A j \in S : i <= j

\* The keys of every job that has group g, in job order.
GroupKeys(all, batch, g) ==
    MapThenFoldSet(\o, <<>>, LAMBDA i : KeysAt(all[batch[i]], g), Least, DOMAIN batch)

Accumulators(all, batch, g) == process_table_group(g, GroupKeys(all, batch, g))

\* Mutant of Taken: every job reads from the first accumulator.
TakenNone(all, batch, g, i) == 0

\* How many accumulators of group g the jobs before the i-th have taken.
Taken(all, batch, g, i) ==
    Len(GroupKeys(all, SubSeq(batch, 1, i - 1), g))

\* The i-th entry is the per-group results of batch[i].
ScanJobs(all, batch) ==
    [i \in DOMAIN batch |->
        [g \in DOMAIN all[batch[i]] |->
            LET first == Taken(all, batch, g, i)
            IN  SubSeq(Accumulators(all, batch, g),
                       first + 1, first + Len(all[batch[i]][g]))]]

\* Reference: what a scan for this query alone returns.
SeparateScan(keys) ==
    [g \in DOMAIN keys |->
        [k \in DOMAIN keys[g] |->
            {<<g, bin>> : bin \in {b \in 1..BinsPerTable : Bit(keys[g][k], b)}}]]

-----------------------------------------------------------------------------
NoResult == <<"none">>

\* Reply::Scan and Reply::Done(result).
ScanRole == [kind |-> "Scan", groups |-> NoResult]

Done(groups) == [kind |-> "Done", groups |-> groups]

Init ==
    /\ scanning = FALSE
    /\ queued = <<>>
    /\ reply = [q \in Queries |-> <<>>]
    /\ pc = [q \in Queries |-> "start"]
    /\ jobs = [q \in Queries |-> <<>>]
    /\ sent = [q \in Queries |-> 0]
    /\ result = [q \in Queries |-> NoResult]

-----------------------------------------------------------------------------
(* The first critical section: queue the job and raise the scanning flag.  *)
(* Whoever found it lowered scans; everyone else waits for a reply.        *)

Enqueue(q) ==
    /\ pc[q] = "start"
    /\ queued' = Append(queued, q)
    /\ scanning' = TRUE
    /\ pc' = [pc EXCEPT ![q] = IF scanning THEN "wait" ELSE "drain"]
    /\ UNCHANGED <<reply, jobs, sent, result>>

\* A waiting call is answered by somebody else's scan ...
RecvDone(q) ==
    /\ pc[q] = "wait"
    /\ reply[q] # <<>> /\ Head(reply[q]).kind = "Done"
    /\ reply' = [reply EXCEPT ![q] = Tail(@)]
    /\ result' = [result EXCEPT ![q] = Head(reply[q]).groups]
    /\ pc' = [pc EXCEPT ![q] = "returned"]
    /\ UNCHANGED <<scanning, queued, jobs, sent>>

\* ... or is handed the scan role.
RecvScan(q) ==
    /\ pc[q] = "wait"
    /\ reply[q] # <<>> /\ Head(reply[q]).kind = "Scan"
    /\ reply' = [reply EXCEPT ![q] = Tail(@)]
    /\ pc' = [pc EXCEPT ![q] = "drain"]
    /\ UNCHANGED <<scanning, queued, jobs, sent, result>>

\* Mutant of Drain: the batch is only what was queued before this call.
DrainOthers(q) ==
    /\ pc[q] = "drain"
    /\ jobs' = [jobs EXCEPT ![q] = SelectSeq(queued, LAMBDA p : p # q)]
    /\ queued' = <<>>
    /\ pc' = [pc EXCEPT ![q] = "scan"]
    /\ UNCHANGED <<scanning, reply, sent, result>>

\* The second critical section: take every queued job.
Drain(q) ==
    /\ pc[q] = "drain"
    /\ jobs' = [jobs EXCEPT ![q] = queued]
    /\ queued' = <<>>
    /\ pc' = [pc EXCEPT ![q] = "scan"]
    /\ UNCHANGED <<scanning, reply, sent, result>>

\* scan_jobs(table, &jobs) runs to completion; its value is a function of
\* jobs, so it is taken where it is sent.
Scan(q) ==
    /\ pc[q] = "scan"
    /\ pc' = [pc EXCEPT ![q] = "send"]
    /\ UNCHANGED <<scanning, queued, reply, jobs, sent, result>>

\* One round of the loop that hands each job its result, outside the lock.
SendDone(q) ==
    /\ pc[q] = "send" /\ sent[q] < Len(jobs[q])
    /\ LET i == sent[q] + 1 IN
         /\ reply' = [reply EXCEPT ![jobs[q][i]] =
                         Append(@, Done(ScanJobs(Keys, jobs[q])[i]))]
         /\ sent' = [sent EXCEPT ![q] = i]
    /\ UNCHANGED <<scanning, queued, pc, jobs, result>>

\* Mutant of HandOff: the flag is lowered although calls are queued.
HandOffDropped(q) ==
    /\ pc[q] = "send" /\ sent[q] = Len(jobs[q])
    /\ scanning' = FALSE
    /\ pc' = [pc EXCEPT ![q] = "own"]
    /\ UNCHANGED <<queued, reply, jobs, sent, result>>

\* The third critical section: pass the role to the front call, which stays
\* queued, or lower the flag.
HandOff(q) ==
    /\ pc[q] = "send" /\ sent[q] = Len(jobs[q])
    /\ IF queued = <<>>
         THEN scanning' = FALSE /\ UNCHANGED reply
         ELSE /\ reply' = [reply EXCEPT ![Head(queued)] = Append(@, ScanRole)]
              /\ UNCHANGED scanning
    /\ pc' = [pc EXCEPT ![q] = "own"]
    /\ UNCHANGED <<queued, jobs, sent, result>>

\* The scanner collects its own result; Reply::Scan here is unreachable!().
RecvOwn(q) ==
    /\ pc[q] = "own" /\ reply[q] # <<>>
    /\ reply' = [reply EXCEPT ![q] = Tail(@)]
    /\ IF Head(reply[q]).kind = "Done"
         THEN /\ result' = [result EXCEPT ![q] = Head(reply[q]).groups]
              /\ pc' = [pc EXCEPT ![q] = "returned"]
         ELSE /\ pc' = [pc EXCEPT ![q] = "panic"]
              /\ UNCHANGED result
    /\ UNCHANGED <<scanning, queued, jobs, sent>>

Step(q) ==
    \/ Enqueue(q) \/ RecvDone(q) \/ RecvScan(q) \/ Drain(q)
    \/ Scan(q) \/ SendDone(q) \/ HandOff(q) \/ RecvOwn(q)

Next == \E q \in Queries : Step(q)

\* A thread that can run does run: the calls of the paid lane each hold a
\* thread of the blocking pool, which the operating system schedules.
Fairness == \A q \in Queries : WF_vars(Step(q))

Spec == Init /\ [][Next]_vars

FairSpec == Spec /\ Fairness

-----------------------------------------------------------------------------
Steps == {"start", "wait", "drain", "scan", "send", "own", "returned", "panic"}

TypeOK ==
    /\ scanning \in BOOLEAN
    /\ queued \in Seq(Queries)
    /\ pc \in [Queries -> Steps]
    /\ jobs \in [Queries -> Seq(Queries)]
    /\ sent \in [Queries -> Nat]
    /\ DOMAIN reply = Queries
    /\ \A q \in Queries : Len(reply[q]) <= 1

\* q owns the scan role: it is between finding the flag lowered (or being
\* handed the role) and the hand-off, or the role is on its way to it.
HasRole(q) ==
    \/ pc[q] \in {"drain", "scan", "send"}
    \/ \E i \in DOMAIN reply[q] : reply[q][i].kind = "Scan"

(***************************************************************************)
(* "one thread scans for everyone queued": at no time do two calls of a    *)
(* lane hold the scan role, and the flag is up exactly while one does.  A  *)
(* raised flag without an owner would strand every later query.            *)
(***************************************************************************)
OneScanRole ==
    /\ \A p, q \in Queries : HasRole(p) /\ HasRole(q) => p = q
    /\ scanning <=> \E q \in Queries : HasRole(q)

(***************************************************************************)
(* "a scanned query is never handed the scan": once a call has drained a   *)
(* batch no Reply::Scan is in, or will enter, its channel, so the          *)
(* unreachable!() of scan() cannot abort the server.                       *)
(***************************************************************************)
ScannedNeverHanded ==
    \A q \in Queries :
       /\ pc[q] # "panic"
       /\ pc[q] \in {"scan", "send", "own", "returned"} =>
             \A i \in DOMAIN reply[q] : reply[q][i].kind = "Done"

(***************************************************************************)
(* Every call that is waiting for an answer is accounted for exactly once: *)
(* it is queued, or in the unsent rest of the running scan's batch, or its *)
(* result is in its channel.  In particular the batch a scanner drains     *)
(* contains the scanner itself ("This query is queued, so the batch taken  *)
(* here contains it").                                                     *)
(***************************************************************************)
Unsent(q) == {jobs[q][i] : i \in (sent[q] + 1)..Len(jobs[q])}

Answered(q) == \E i \in DOMAIN reply[q] : reply[q][i].kind = "Done"

NoJobLost ==
    \A q \in Queries :
       pc[q] \in {"wait", "drain", "scan", "send", "own"} =>
          \/ \E i \in DOMAIN queued : queued[i] = q
          \/ \E p \in Queries : pc[p] \in {"scan", "send"} /\ q \in Unsent(p)
          \/ Answered(q)

(***************************************************************************)
(* "a shared scan answers exactly what separate scans would": whatever was *)
(* batched together, with whatever numbers of groups and keys, a call      *)
(* returns the results of its own keys.                                    *)
(***************************************************************************)
SharedScanExact ==
    \A q \in Queries :
       pc[q] = "returned" => result[q] = SeparateScan(Keys[q])

(***************************************************************************)
(* A query that is queued is eventually answered: no hand-off is lost and  *)
(* nobody waits for a scan that nobody runs.                               *)
(***************************************************************************)
EveryQueryReturns ==
    \A q \in Queries : pc[q] # "start" ~> pc[q] = "returned"

\* What the lane of ScanBatcher promises at every instant: well-formed state,
\* one scanning query at a time and the flag raised exactly then, no hand-off
\* to a query that was scanned, and no waiting job without a way to its reply.
ScanSafe == TypeOK /\ OneScanRole /\ ScannedNeverHanded /\ NoJobLost

-----------------------------------------------------------------------------
(***************************************************************************)
(* The shared scan as the best-effort free lane runs it.                   *)
(* spawn_heavy (dispatch.rs) runs a free frame's work inside pool.install  *)
(* on the small rayon pool of the access gate, so ScanBatcher::scan, its   *)
(* blocking receives included, executes on the pool's own workers, and so  *)
(* do the pieces of the parallel scan.                                     *)
(*                                                                         *)
(* A worker has a stack of what it is executing (innermost first) and a    *)
(* deque of pieces it has split off.  The pool (vendor/rayon-core) is      *)
(* modelled from join_context and wait_until: a worker whose half was      *)
(* stolen executes other jobs on top of its stack until the half is done.  *)
(* One split per scan is enough to show what the stealing does; the code   *)
(* splits further.                                                         *)
(***************************************************************************)

CONSTANT Workers        \* --free-threads

VARIABLES injected,     \* jobs install() has queued, oldest first
          stack,        \* stack[w]: what worker w executes, innermost first
          deque,        \* deque[w]: halves w has split off, oldest first
          phase         \* phase[q]: how far the parallel scan of q is

poolVars == <<injected, stack, deque, phase>>
laneVars == <<vars, poolVars>>

\* A frame on a worker's stack: a whole query, or the half of its scan that
\* join_context split off.
Query(q) == [job |-> "query", of |-> q]
Half(q) == [job |-> "half", of |-> q]

LaneInit ==
    /\ Init
    /\ injected = <<>>
    /\ stack = [w \in Workers |-> <<>>]
    /\ deque = [w \in Workers |-> <<>>]
    /\ phase = [q \in Queries |-> "none"]

Runs(w, frame) == stack[w] # <<>> /\ Head(stack[w]) = frame
OnStack(q) == \E w \in Workers : \E i \in DOMAIN stack[w] : stack[w][i] = Query(q)

\* spawn_heavy: the blocking thread injects the work and sleeps.
Install(q) ==
    /\ pc[q] = "start" /\ ~OnStack(q) /\ \A i \in DOMAIN injected : injected[i] # q
    /\ injected' = Append(injected, q)
    /\ UNCHANGED <<vars, stack, deque, phase>>

-----------------------------------------------------------------------------
(* The steps of scan() that touch the lane, taken by the worker whose      *)
(* innermost frame the query is.                                           *)

LaneStep(w, q) ==
    /\ Runs(w, Query(q))
    /\ \/ Enqueue(q) \/ RecvDone(q) \/ RecvScan(q) \/ Drain(q)
       \/ SendDone(q) \/ HandOff(q) \/ RecvOwn(q)
    /\ UNCHANGED poolVars

Return(w, q) ==
    /\ Runs(w, Query(q)) /\ pc[q] = "returned"
    /\ stack' = [stack EXCEPT ![w] = Tail(@)]
    /\ UNCHANGED <<vars, injected, deque, phase>>

-----------------------------------------------------------------------------
(* The parallel scan: join_context.                                        *)

Split(w, q) ==
    /\ Runs(w, Query(q)) /\ pc[q] = "scan" /\ phase[q] = "none"
    /\ deque' = [deque EXCEPT ![w] = Append(@, q)]
    /\ phase' = [phase EXCEPT ![q] = "first"]
    /\ UNCHANGED <<vars, injected, stack>>

FirstHalfDone(w, q) ==
    /\ Runs(w, Query(q)) /\ phase[q] = "first"
    /\ phase' = [phase EXCEPT ![q] = "join"]
    /\ UNCHANGED <<vars, injected, stack, deque>>

HalfDone(w, q) ==
    /\ Runs(w, Half(q))
    /\ stack' = [stack EXCEPT ![w] = Tail(@)]
    /\ phase' = [phase EXCEPT ![q] = IF @ = "join" THEN "done" ELSE "half"]
    /\ UNCHANGED <<vars, injected, deque>>

\* The thief was faster than the first half.
FirstHalfLast(w, q) ==
    /\ Runs(w, Query(q)) /\ phase[q] = "half"
    /\ phase' = [phase EXCEPT ![q] = "done"]
    /\ UNCHANGED <<vars, injected, stack, deque>>

\* Mutant of Joined: the join does not wait for the half.
JoinedEarly(w, q) ==
    /\ Runs(w, Query(q)) /\ phase[q] \in {"join", "done"}
    /\ Scan(q)
    /\ UNCHANGED poolVars

Joined(w, q) ==
    /\ Runs(w, Query(q)) /\ phase[q] = "done"
    /\ Scan(q)
    /\ UNCHANGED poolVars

-----------------------------------------------------------------------------
(* Looking for work: an idle worker, or one that waits for a stolen half.  *)

LooksForWork(w) ==
    \/ stack[w] = <<>>
    \/ \E q \in Queries : Runs(w, Query(q)) /\ phase[q] = "join"

Execute(w, frame) == stack' = [stack EXCEPT ![w] = <<frame>> \o @]

TakeLocal(w) ==
    /\ LooksForWork(w) /\ deque[w] # <<>>
    /\ Execute(w, Half(deque[w][Len(deque[w])]))
    /\ deque' = [deque EXCEPT ![w] = SubSeq(@, 1, Len(@) - 1)]
    /\ UNCHANGED <<vars, injected, phase>>

Steal(w, victim) ==
    /\ LooksForWork(w) /\ deque[w] = <<>> /\ deque[victim] # <<>>
    /\ Execute(w, Half(Head(deque[victim])))
    /\ deque' = [deque EXCEPT ![victim] = Tail(@)]
    /\ UNCHANGED <<vars, injected, phase>>

\* Mutant of TakeInjected: injected jobs go before the worker's own.
TakeInjectedFirst(w) ==
    /\ LooksForWork(w) /\ injected # <<>>
    /\ Execute(w, Query(Head(injected)))
    /\ injected' = Tail(injected)
    /\ UNCHANGED <<vars, deque, phase>>

\* The look at the other deques is no snapshot: one may fill up meanwhile.
TakeInjected(w) ==
    /\ LooksForWork(w) /\ injected # <<>> /\ deque[w] = <<>>
    /\ Execute(w, Query(Head(injected)))
    /\ injected' = Tail(injected)
    /\ UNCHANGED <<vars, deque, phase>>

WorkerStep(w) ==
    \/ \E q \in Queries :
          \/ LaneStep(w, q) \/ Return(w, q) \/ Split(w, q) \/ FirstHalfDone(w, q)
          \/ HalfDone(w, q) \/ FirstHalfLast(w, q) \/ Joined(w, q)
    \/ TakeLocal(w) \/ TakeInjected(w)
    \/ \E v \in Workers \ {w} : Steal(w, v)

LaneNext ==
    \/ \E q \in Queries : Install(q)
    \/ \E w \in Workers : WorkerStep(w)

\* A worker that can take a step takes one: it is a thread of its own.
LaneSpec == LaneInit /\ [][LaneNext]_laneVars
            /\ \A w \in Workers : WF_laneVars(WorkerStep(w))

(***************************************************************************)
(* No piece of a query's scan is queued or executing once scan_jobs has    *)
(* returned for it: the answers are sent from complete accumulators,       *)
(* whichever workers stole the halves and whatever they nested meanwhile.  *)
(***************************************************************************)
Outstanding(q) == \E w \in Workers :
    \/ \E i \in DOMAIN deque[w] : deque[w][i] = q
    \/ \E i \in DOMAIN stack[w] : stack[w][i] = Half(q)

SentFromWholeScan ==
    \A q \in Queries : pc[q] \in {"send", "own", "returned"} => ~Outstanding(q)

(***************************************************************************)
(* "queries that arrive while a scan of the same table is running wait and *)
(* then share the next scan" (scan_batch.rs): every query given to the     *)
(* pool is answered.                                                       *)
(***************************************************************************)
EveryInstalledReturns ==
    \A q \in Queries :
       (\E i \in DOMAIN injected : injected[i] = q) ~> pc[q] = "returned"
=============================================================================
