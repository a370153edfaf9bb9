------------------------------ MODULE AccessGate ------------------------------
(***************************************************************************)
(* What a connection of the PIR server may do and what it pays for it:     *)
(* the gas balance of a connection (credit_gate.rs), the access gate and   *)
(* one best-effort free lane with its hourly budget (access_gate.rs), the  *)
(* presentation handlers (dispatch.rs) and the part of the connection loop *)
(* that admits a frame and settles it afterwards (serve.rs).  All files    *)
(* are in apps/server/src/bin/unified_server.                              *)
(*                                                                         *)
(* A connection is a task that handles one frame at a time.  The awaits of *)
(* enter_lane, and its single operations on state shared between           *)
(* connections, are separate actions.  Gas is a mathematical integer here: *)
(* i64 saturates only beyond 2^63.  Time advances in ticks, at Rate gas of *)
(* refill per tick, HourTicks ticks an hour.                               *)
(***************************************************************************)
EXTENDS Integers, Sequences, FiniteSets

CONSTANTS Conns,             \* connections
          Concurrency,       \* free_concurrency of the lane
          QueuePerSlot,      \* QUEUE_PER_SLOT
          Rate,              \* per_hour / HourTicks
          HourTicks,         \* ticks of the clock in one hour
          Costs,             \* admission gas of the frames considered
          EgressCosts,       \* egress gas of the responses considered
          TopUps,            \* gas bought by a presentation
          MaxFailures,       \* MAX_PRESENTATION_FAILURES_PER_CONNECTION
          MaxPresentations,  \* bound: successful presentations per connection
          MaxTime            \* bound: the last tick

ASSUME GateAssumption ==
    /\ IsFiniteSet(Conns)
    /\ Concurrency \in Nat \ {0} /\ QueuePerSlot \in Nat \ {0}
    /\ Rate \in Nat \ {0} /\ HourTicks \in Nat \ {0}
    /\ Costs \subseteq Nat /\ EgressCosts \subseteq Nat /\ TopUps \subseteq Nat
    /\ MaxFailures \in Nat \ {0}
    /\ MaxPresentations \in Nat /\ MaxTime \in Nat

VARIABLES gas,           \* gas[c]: GasBalanceV1.gas
          failures,      \* failures[c]: GasBalanceV1.presentation_failures
          apiKey,        \* apiKey[c]: whether an API key was accepted
          presented,     \* presented[c]: successful presentations so far
          pc,            \* pc[c]: where the connection's task stands
          cost,          \* cost[c]: admission gas of the frame in hand
          charged,       \* charged[c]: the frame in hand was charged
          stamp,         \* stamp[c]: enter_lane's reading of the clock
          permits,       \* free permits of the lane's semaphore
          queue,         \* tasks waiting on the semaphore, oldest first
          waiting,       \* FreeLane.waiting
          tokens,        \* GasBudget.tokens
          refilled,      \* GasBudget.refilled
          now,           \* Instant::now()
          freeGas,       \* admission part of FreeLane.free_gas
          taken,         \* history: gas try_take took, less the refunds
          recounted      \* history: ticks that are refilled more than once

connVars == <<gas, failures, apiKey, presented>>
laneVars == <<permits, queue, waiting>>
budgetVars == <<tokens, refilled, taken, recounted>>
frameVars == <<cost, charged, stamp>>
vars == <<connVars, pc, frameVars, laneVars, budgetVars, now, freeGas>>

PerHour == Rate * HourTicks
MaxWaiting == Concurrency * QueuePerSlot

Least(a, b) == IF a <= b THEN a ELSE b
Greatest(a, b) == IF a <= b THEN b ELSE a

Init ==
    /\ gas = [c \in Conns |-> 0]
    /\ failures = [c \in Conns |-> 0]
    /\ apiKey = [c \in Conns |-> FALSE]
    /\ presented = [c \in Conns |-> 0]
    /\ pc = [c \in Conns |-> "idle"]
    /\ cost = [c \in Conns |-> 0]
    /\ charged = [c \in Conns |-> FALSE]
    /\ stamp = [c \in Conns |-> 0]
    /\ permits = Concurrency
    /\ queue = <<>>
    /\ waiting = 0
    /\ tokens = PerHour
    /\ refilled = 0
    /\ now = 0
    /\ freeGas = 0
    /\ taken = 0
    /\ recounted = 0

Goto(c, step) == pc' = [pc EXCEPT ![c] = step]

\* The cost of a frame is a local of the code that decides it.
Forget(c) == cost' = [cost EXCEPT ![c] = 0]

-----------------------------------------------------------------------------
(* Presentations (REQ_CREDIT_PRESENT, REQ_API_KEY): unmetered frames.  The *)
(* redeem call suspends this connection only, so a presentation is one     *)
(* step.  The loop leaves after too many failures.                         *)

PresentOk(c) ==
    /\ pc[c] = "idle" /\ presented[c] < MaxPresentations
    /\ \E g \in TopUps : gas' = [gas EXCEPT ![c] = @ + g]
    /\ presented' = [presented EXCEPT ![c] = @ + 1]
    /\ UNCHANGED <<failures, apiKey, pc, frameVars, laneVars, budgetVars,
                   now, freeGas>>

AcceptApiKey(c) ==
    /\ pc[c] = "idle"
    /\ apiKey' = [apiKey EXCEPT ![c] = TRUE]
    /\ UNCHANGED <<gas, failures, presented, pc, frameVars, laneVars,
                   budgetVars, now, freeGas>>

PresentFailed(c) ==
    /\ pc[c] = "idle"
    /\ failures' = [failures EXCEPT ![c] = @ + 1]
    /\ Goto(c, IF failures'[c] >= MaxFailures THEN "closed" ELSE "idle")
    /\ UNCHANGED <<gas, apiKey, presented, frameVars, laneVars,
                   budgetVars, now, freeGas>>

-----------------------------------------------------------------------------
(* AccessGateV1::admit.  A frame of a free backend, or of a connection     *)
(* with an API key, is dispatched uncharged.                               *)

AdmitFree(c) ==
    /\ pc[c] = "idle"
    /\ Goto(c, "serving")
    /\ UNCHANGED <<connVars, frameVars, laneVars, budgetVars, now, freeGas>>

\* A paid or best-effort frame that the balance covers.
Charge(c, g) ==
    /\ pc[c] = "idle" /\ ~apiKey[c] /\ gas[c] >= g
    /\ gas' = [gas EXCEPT ![c] = @ - g]
    /\ charged' = [charged EXCEPT ![c] = TRUE]
    /\ Goto(c, "serving")
    /\ UNCHANGED <<failures, apiKey, presented, cost, stamp, laneVars, budgetVars, now,
                   freeGas>>

\* A paid frame that the balance does not cover is refused and changes
\* nothing; a best-effort one enters the lane, which reads the clock first.
EnterLane(c, g) ==
    /\ pc[c] = "idle" /\ ~apiKey[c] /\ gas[c] < g
    /\ cost' = [cost EXCEPT ![c] = g]
    /\ stamp' = [stamp EXCEPT ![c] = now]
    /\ Goto(c, "enter")
    /\ UNCHANGED <<connVars, charged, laneVars, budgetVars, now, freeGas>>

-----------------------------------------------------------------------------
(* GasBudget.                                                              *)

\* refill at time t; saturating_duration_since makes a step back in time zero.
Refill(t) == Least(tokens + Greatest(t - refilled, 0) * Rate, PerHour)

\* try_take under the budget's mutex, with the time read before it was locked:
\* a frame the budget cannot cover is refused as busy.
TryTake(c) ==
    /\ pc[c] = "enter"
    /\ LET full == Refill(stamp[c]) IN
         IF full >= cost[c]
           THEN /\ tokens' = full - cost[c] /\ taken' = taken + cost[c]
                /\ Goto(c, "join") /\ UNCHANGED cost
           ELSE /\ tokens' = full /\ UNCHANGED taken
                /\ Goto(c, "idle") /\ Forget(c)
    /\ refilled' = stamp[c]
    /\ recounted' = recounted + Greatest(refilled - stamp[c], 0)
    /\ stamp' = [stamp EXCEPT ![c] = 0]
    /\ UNCHANGED <<connVars, charged, laneVars, now, freeGas>>

-----------------------------------------------------------------------------
(* The rest of enter_lane.                                                 *)

\* waiting.fetch_add, and the test of its result.
JoinQueue(c) ==
    /\ pc[c] = "join"
    /\ waiting' = waiting + 1
    /\ Goto(c, IF waiting + 1 > MaxWaiting THEN "refund" ELSE "acquire")
    /\ UNCHANGED <<connVars, frameVars, permits, queue, budgetVars, now,
                   freeGas>>

\* The semaphore is fair: a permit goes to the oldest waiter, so one is left
\* over only when nobody waits.
Acquire(c) ==
    /\ pc[c] = "acquire"
    /\ IF permits > 0
         THEN permits' = permits - 1 /\ Goto(c, "granted") /\ UNCHANGED queue
         ELSE queue' = Append(queue, c) /\ Goto(c, "queued") /\ UNCHANGED permits
    /\ UNCHANGED <<connVars, frameVars, waiting, budgetVars, now, freeGas>>

\* Mutant of Timeout: the wait for a slot has no timer.
TimeoutNever(c) == FALSE

\* The wait for a slot times out; the acquire future leaves the queue.
Timeout(c) ==
    /\ pc[c] = "queued"
    /\ \E i \in DOMAIN queue :
         /\ queue[i] = c
         /\ queue' = SubSeq(queue, 1, i - 1) \o SubSeq(queue, i + 1, Len(queue))
    /\ Goto(c, "refund")
    /\ UNCHANGED <<connVars, frameVars, permits, waiting, budgetVars, now,
                   freeGas>>

\* Mutant of Refund: the gas of a refused frame is not given back.
RefundNothing(c) ==
    /\ pc[c] = "refund"
    /\ Goto(c, "leave")
    /\ Forget(c)
    /\ UNCHANGED <<connVars, charged, stamp, laneVars, budgetVars, now, freeGas>>

\* refund gives back what try_take took, up to the cap.
Refund(c) ==
    /\ pc[c] = "refund"
    /\ tokens' = Least(tokens + cost[c], PerHour)
    /\ taken' = taken - cost[c]
    /\ Goto(c, "leave")
    /\ Forget(c)
    /\ UNCHANGED <<connVars, charged, stamp, laneVars, refilled, recounted, now,
                   freeGas>>

\* The refusal returns and drops the Waiting guard.
Leave(c) ==
    /\ pc[c] = "leave"
    /\ waiting' = waiting - 1
    /\ Goto(c, "idle")
    /\ UNCHANGED <<connVars, frameVars, permits, queue, budgetVars, now,
                   freeGas>>

\* The permit arrived: the ticket is made and the Waiting guard dropped.
Admitted(c) ==
    /\ pc[c] = "granted"
    /\ waiting' = waiting - 1
    /\ freeGas' = freeGas + cost[c]
    /\ Goto(c, "lane")
    /\ Forget(c)
    /\ UNCHANGED <<connVars, charged, stamp, permits, queue, budgetVars, now>>

-----------------------------------------------------------------------------
(* After dispatch (serve.rs): egress is charged to whoever paid, or spent  *)
(* from the lane's budget before the ticket's permit is dropped.           *)

\* Mutant of FinishServing: a free frame's egress is charged as well.
FinishServingAll(c, e) ==
    /\ pc[c] = "serving"
    /\ gas' = [gas EXCEPT ![c] = @ - e]
    /\ charged' = [charged EXCEPT ![c] = FALSE]
    /\ Goto(c, "idle")
    /\ UNCHANGED <<failures, apiKey, presented, cost, stamp, laneVars, budgetVars, now,
                   freeGas>>

FinishServing(c, e) ==
    /\ pc[c] = "serving"
    /\ gas' = [gas EXCEPT ![c] = IF charged[c] THEN @ - e ELSE @]
    /\ charged' = [charged EXCEPT ![c] = FALSE]
    /\ Goto(c, "idle")
    /\ UNCHANGED <<failures, apiKey, presented, cost, stamp, laneVars, budgetVars, now,
                   freeGas>>

\* FreeLaneTicket::finish spends the egress, at the time of the call.
Spend(c, e) ==
    /\ pc[c] = "lane"
    /\ refilled' = now
    /\ tokens' = Greatest(Refill(now) - e, -PerHour)
    /\ Goto(c, "release")
    /\ UNCHANGED <<connVars, frameVars, laneVars, taken, recounted, now, freeGas>>

\* Mutant of Release: the permit is returned to the pool although somebody
\* waits for it.
ReleaseNoHandOff(c) ==
    /\ pc[c] = "release"
    /\ permits' = permits + 1
    /\ Goto(c, "idle")
    /\ UNCHANGED <<connVars, frameVars, queue, waiting, budgetVars, now, freeGas>>

\* The ticket's permit is dropped.
Release(c) ==
    /\ pc[c] = "release"
    /\ IF queue = <<>>
         THEN permits' = permits + 1 /\ Goto(c, "idle") /\ UNCHANGED queue
         ELSE /\ queue' = Tail(queue)
              /\ pc' = [pc EXCEPT ![c] = "idle", ![Head(queue)] = "granted"]
              /\ UNCHANGED permits
    /\ UNCHANGED <<connVars, frameVars, waiting, budgetVars, now, freeGas>>

\* The peer goes away, or stays silent for the idle timeout, between frames.
Disconnect(c) ==
    /\ pc[c] = "idle"
    /\ Goto(c, "closed")
    /\ UNCHANGED <<connVars, frameVars, laneVars, budgetVars, now, freeGas>>

Tick ==
    /\ now < MaxTime
    /\ now' = now + 1
    /\ UNCHANGED <<connVars, pc, frameVars, laneVars, budgetVars, freeGas>>

Request(c) ==
    \/ PresentOk(c) \/ AcceptApiKey(c) \/ PresentFailed(c) \/ AdmitFree(c)
    \/ \E g \in Costs : Charge(c, g) \/ EnterLane(c, g)
    \/ Disconnect(c)

Decide(c) ==
    \/ TryTake(c) \/ JoinQueue(c) \/ Acquire(c) \/ Timeout(c)
    \/ Refund(c) \/ Leave(c) \/ Admitted(c) \/ Release(c)

Serve(c) ==
    \/ Decide(c)
    \/ \E e \in EgressCosts : FinishServing(c, e) \/ Spend(c, e)

Next == Tick \/ \E c \in Conns : Request(c) \/ Serve(c)

\* The runtime polls every task that is ready and its timers fire.  That the
\* work of an admitted frame ends is not assumed.
Fairness == \A c \in Conns : WF_vars(Decide(c))

Spec == Init /\ [][Next]_vars

FairSpec == Spec /\ Fairness

-----------------------------------------------------------------------------
Steps == {"idle", "enter", "join", "acquire", "queued", "granted", "refund",
          "leave", "lane", "release", "serving", "closed"}

TypeOK ==
    /\ gas \in [Conns -> Int]
    /\ failures \in [Conns -> 0..MaxFailures]
    /\ apiKey \in [Conns -> BOOLEAN]
    /\ presented \in [Conns -> 0..MaxPresentations]
    /\ pc \in [Conns -> Steps]
    /\ cost \in [Conns -> Nat]
    /\ charged \in [Conns -> BOOLEAN]
    /\ stamp \in [Conns -> 0..now]
    /\ permits \in 0..Concurrency
    /\ queue \in Seq(Conns)
    /\ waiting \in Nat
    /\ tokens \in -PerHour..PerHour
    /\ refilled \in 0..now /\ now \in 0..MaxTime
    /\ freeGas \in Nat /\ taken \in Int /\ recounted \in Nat

(***************************************************************************)
(* "egress is charged after the response is known, so the balance may dip  *)
(* below zero by one response" (credit_gate.rs): whatever the order of     *)
(* presentations, admissions and egress charges, a connection never owes   *)
(* more than the egress of a single response.                              *)
(***************************************************************************)
DeficitBounded ==
    \A c \in Conns : gas[c] < 0 => \E e \in EgressCosts : gas[c] >= -e

\* A frame that holds, or has been handed, a permit of the lane.
Holders == {c \in Conns : pc[c] \in {"granted", "lane", "release"}}

(***************************************************************************)
(* "at most `free_concurrency` free frames of this backend run at once":   *)
(* no permit is lost or duplicated by a hand-off, a timeout or a refusal,  *)
(* and no permit lies idle while a frame waits for one.                    *)
(***************************************************************************)
PermitsConserved ==
    /\ permits + Cardinality(Holders) = Concurrency
    /\ permits > 0 => queue = <<>>

(***************************************************************************)
(* The semaphore's queue holds exactly the frames that wait, each once: a  *)
(* permit is never handed to a frame whose wait has timed out.             *)
(***************************************************************************)
QueueIsWaiters ==
    /\ \A c \in Conns : pc[c] = "queued" <=> \E i \in DOMAIN queue : queue[i] = c
    /\ \A i, j \in DOMAIN queue : queue[i] = queue[j] => i = j

(***************************************************************************)
(* FreeLane.waiting, which decides whether a frame is refused because the  *)
(* queue is full, counts exactly the frames inside enter_lane, "however    *)
(* the wait ends": it neither drifts up, which would close the lane for    *)
(* good, nor down, which would wrap the unsigned counter.                  *)
(***************************************************************************)
Inside == {c \in Conns : pc[c] \in {"acquire", "queued", "granted", "refund", "leave"}}

WaitingCounts == waiting = Cardinality(Inside)

(***************************************************************************)
(* A refused frame costs the lane's budget nothing: what try_take took and *)
(* refund did not return is what was served, or is still being decided.    *)
(***************************************************************************)
Undecided == {c \in Conns : pc[c] \in {"join", "acquire", "queued", "granted", "refund"}}

\* The gas of a frame, and of all undecided ones, unit by unit.
GasUnits(c) == {c} \X (1..cost[c])
UndecidedGas == UNION {GasUnits(c) : c \in Undecided}

BudgetAccounted == taken = freeGas + Cardinality(UndecidedGas)

(***************************************************************************)
(* What the continuous refill guarantees: since the start of the server    *)
(* the lane admitted no more free work than one full budget plus the       *)
(* refill of the time passed, however takes, refunds, egress charges and   *)
(* ticks of the clock interleave.  enter_lane reads the clock before it    *)
(* locks the budget, so a frame that is overtaken sets the refill time     *)
(* back and that stretch of time is refilled again; the bound allows for   *)
(* these stretches and nothing else.                                       *)
(***************************************************************************)
BudgetBound == taken <= PerHour + Rate * (now + recounted)

(***************************************************************************)
(* "with `free_gas_per_hour` set the lane also stops once that much free   *)
(* work was done in the last hour" (crates/trust/pir-credit/src/access.rs, *)
(* Access::BestEffort): within the first hour, the gas of all frames the   *)
(* lane served stays within the hourly budget.                             *)
(***************************************************************************)
HourlyBudgetKept == now <= HourTicks => freeGas <= PerHour

(***************************************************************************)
(* "the next ones wait in a FIFO queue for a bounded time" (access.rs):    *)
(* every frame that enters the lane is admitted or refused, even if the    *)
(* frames that hold its slots never finish.                                *)
(***************************************************************************)
EveryFrameDecided ==
    \A c \in Conns :
       pc[c] \in {"enter", "join", "acquire", "queued", "granted", "refund", "leave"}
          ~> pc[c] \in {"idle", "lane"}

\* A free lane is consistent: no permit of its semaphore is lost or made by a
\* timeout that races a hand-over, the semaphore's queue holds the frames that
\* wait for it, and the count that closes the lane is exact.
LaneSafe == TypeOK /\ PermitsConserved /\ QueueIsWaiters /\ WaitingCounts

\* The budget of a free lane is kept: what was taken is the work done and the
\* work not decided yet, and it never exceeds the full budget and the refill.
BudgetSafe == BudgetAccounted /\ BudgetBound
=============================================================================
