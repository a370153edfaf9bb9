--------------------------- MODULE ScanBatchProofs ---------------------------
(***************************************************************************)
(* The promises of the shared scan, for any number of concurrent queries,  *)
(* and of the free lane that runs it on any number of pool workers.        *)
(***************************************************************************)
EXTENDS ScanBatch, Integers, SequenceTheorems, TLAPS

InQueue(q) == \E i \in DOMAIN queued : queued[i] = q

\* p is between draining its batch and handing the role on.
Working(p) == pc[p] \in {"scan", "send"}

\* The jobs of p's batch whose result has not been sent.
Rest(p) == (sent[p] + 1)..Len(jobs[p])

\* A call is queued at most once.
QueueOnce == \A i, j \in DOMAIN queued : queued[i] = queued[j] => i = j

\* A queued call waits or is about to drain, and has at most the scan role in
\* its channel; any other call has at most its result there.
CallOk(q) ==
    /\ pc[q] # "panic"
    /\ pc[q] = "start" => reply[q] = <<>> /\ ~InQueue(q)
    /\ pc[q] = "drain" => reply[q] = <<>> /\ InQueue(q)
    /\ pc[q] = "own" => reply[q] # <<>>
    /\ pc[q] \in {"start", "wait", "drain", "scan"} => sent[q] = 0
    /\ InQueue(q) => /\ pc[q] \in {"wait", "drain"}
                     /\ reply[q] = <<>> \/ reply[q] = <<ScanRole>>
    /\ ~InQueue(q) => \A i \in DOMAIN reply[q] : reply[q][i].kind = "Done"
    /\ Len(reply[q]) <= 1

CallsInv == \A q \in Queries : CallOk(q)

\* The rest of a running batch: calls without an answer that nobody else will
\* answer, the scanner among them until it has its own.
BatchOk(p) ==
    /\ sent[p] <= Len(jobs[p])
    /\ \A i, j \in DOMAIN jobs[p] : jobs[p][i] = jobs[p][j] => i = j
    /\ \A i \in Rest(p) : /\ ~InQueue(jobs[p][i]) /\ reply[jobs[p][i]] = <<>>
                          /\ jobs[p][i] = p \/ pc[jobs[p][i]] = "wait"
    /\ reply[p] # <<>> \/ \E i \in Rest(p) : jobs[p][i] = p

BatchInv == \A p \in Queries : Working(p) => BatchOk(p)

\* A waiting call that is neither queued nor answered is in a running batch.
WaitersInv ==
    \A q \in Queries :
       pc[q] = "wait" /\ ~InQueue(q) /\ reply[q] = <<>> =>
          \E p \in Queries : Working(p) /\ \E i \in Rest(p) : jobs[p][i] = q

\* The scan role, given that a channel holds at most one message.
Role(q) == pc[q] \in {"drain", "scan", "send"} \/ reply[q] = <<ScanRole>>

RoleInv ==
    /\ \A p, q \in Queries : Role(p) /\ Role(q) => p = q
    /\ scanning <=> \E q \in Queries : Role(q)

\* What may be in a channel.
Messages == {ScanRole} \cup {Done(ScanJobs(Keys, s)[i]) : s \in Seq(Queries), i \in Nat}

Shape ==
    /\ scanning \in BOOLEAN
    /\ queued \in Seq(Queries)
    /\ pc \in [Queries -> Steps]
    /\ jobs \in [Queries -> Seq(Queries)]
    /\ sent \in [Queries -> Nat]
    /\ reply \in [Queries -> Seq(Messages)]

Inv == Shape /\ QueueOnce /\ CallsInv /\ BatchInv /\ WaitersInv /\ RoleInv

-----------------------------------------------------------------------------
\* A message is the role or a result, and the two differ in kind.
LEMMA MessageKinds ==
    /\ ScanRole \in Messages /\ ScanRole.kind = "Scan"
    /\ \A groups : Done(groups).kind = "Done" /\ Done(groups) # ScanRole
    /\ \A m \in Messages : m.kind \in {"Scan", "Done"} /\ (m.kind = "Scan" => m = ScanRole)
BY DEF Messages, ScanRole, Done

\* A channel with one message, and what receiving and sending make of it.
LEMMA ChannelFacts ==
    ASSUME NEW S, NEW s \in Seq(S), NEW m \in S
    PROVE  /\ s # <<>> /\ Len(s) <= 1 => /\ Tail(s) = <<>> /\ Head(s) = s[1]
                                         /\ s = <<s[1]>> /\ DOMAIN s = {1} /\ s[1] \in S
           /\ s = <<>> => Append(s, m) = <<m>>
           /\ <<m>> \in Seq(S) /\ <<m>> # <<>> /\ Len(<<m>>) = 1 /\ DOMAIN <<m>> = {1}
           /\ <<m>>[1] = m
           /\ <<>> \in Seq(S) /\ Len(<<>>) = 0 /\ DOMAIN <<>> = {}
<1>1. ASSUME s # <<>>, Len(s) <= 1
      PROVE  /\ Tail(s) = <<>> /\ Head(s) = s[1]
             /\ s = <<s[1]>> /\ DOMAIN s = {1} /\ s[1] \in S
  <2>0. Len(s) \in Nat \ {0}
    BY <1>1, EmptySeq
  <2>1. Len(s) = 1 /\ DOMAIN s = {1} /\ s[1] \in S
    <3>1. \A n \in Nat \ {0} : n <= 1 => n = 1
      OBVIOUS
    <3>2. Len(s) = 1
      BY <1>1, <2>0, <3>1, Zenon
    <3>3. DOMAIN s = 1..1 /\ s[1] \in S
      BY <3>2, LenProperties, ElementOfSeq, SMTT(60)
    <3>4. 1..1 = {1}
      OBVIOUS
    <3> QED
      BY <3>2, <3>3, <3>4
  <2>2. Head(s) = s[1]
    BY <1>1
  <2>3. Tail(s) = <<>>
    <3>1. Tail(s) \in Seq(S) /\ Len(Tail(s)) = 0
      BY <1>1, <2>1, HeadTailProperties
    <3> QED
      BY <3>1, EmptySeq, Zenon
  <2>4. s = <<s[1]>>
    BY <2>1
  <2> QED
    BY <2>1, <2>2, <2>3, <2>4
<1>2. s = <<>> => Append(s, m) = <<m>>
  OBVIOUS
<1>3. /\ <<m>> \in Seq(S) /\ <<m>> # <<>> /\ Len(<<m>>) = 1 /\ DOMAIN <<m>> = {1}
      /\ <<m>>[1] = m
      /\ <<>> \in Seq(S) /\ Len(<<>>) = 0 /\ DOMAIN <<>> = {}
  OBVIOUS
<1> QED
  BY <1>1, <1>2, <1>3

\* An empty channel holds neither the role nor a result.
LEMMA EmptyChannel == Len(<<>>) = 0 /\ DOMAIN <<>> = {} /\ <<>> # <<ScanRole>>
OBVIOUS

\* Every step keeps the variables' shape.
LEMMA ShapeStep ==
    ASSUME Shape, [Next]_vars
    PROVE  Shape'
<1> USE DEF Shape, Steps
<1>1. ASSUME NEW q \in Queries, Enqueue(q)
      PROVE  Shape'
  <2>1. Append(queued, q) \in Seq(Queries)
    OBVIOUS
  <2> QED
    BY <1>1, <2>1 DEF Enqueue
<1>2. ASSUME NEW q \in Queries, RecvDone(q) \/ RecvScan(q) \/ RecvOwn(q)
      PROVE  Shape'
  <2>1. reply[q] # <<>> /\ reply' = [reply EXCEPT ![q] = Tail(@)]
    BY <1>2 DEF RecvDone, RecvScan, RecvOwn
  <2>2. Tail(reply[q]) \in Seq(Messages)
    BY <2>1
  <2>3. reply' \in [Queries -> Seq(Messages)]
    BY <2>1, <2>2
  <2>4. pc' \in [Queries -> Steps] /\ UNCHANGED <<scanning, queued, jobs, sent>>
    BY <1>2, Zenon DEF RecvDone, RecvScan, RecvOwn
  <2> QED
    BY <2>3, <2>4
<1>3. ASSUME NEW q \in Queries, Drain(q)
      PROVE  Shape'
  BY <1>3 DEF Drain
<1>4. ASSUME NEW q \in Queries, Scan(q)
      PROVE  Shape'
  BY <1>4 DEF Scan
<1>5. ASSUME NEW q \in Queries, SendDone(q)
      PROVE  Shape'
  <2> DEFINE i == sent[q] + 1
             m == Done(ScanJobs(Keys, jobs[q])[i])
  <2>1. m \in Messages /\ i \in Nat
    <3>1. i \in Nat /\ jobs[q] \in Seq(Queries)
      OBVIOUS
    <3> HIDE DEF i, Shape
    <3>2. \E s \in Seq(Queries), k \in Nat : m = Done(ScanJobs(Keys, s)[k])
      BY <3>1, Zenon DEF m
    <3> HIDE DEF m
    <3> QED
      BY <3>1, <3>2 DEF Messages
  <2>2. jobs[q][i] \in Queries
    BY <1>5 DEF SendDone
  <2>3. reply' = [reply EXCEPT ![jobs[q][i]] = Append(@, m)] /\ sent' = [sent EXCEPT ![q] = i]
    BY <1>5 DEF SendDone
  <2> HIDE DEF m
  <2>4. reply' \in [Queries -> Seq(Messages)]
    BY <2>1, <2>2, <2>3
  <2> QED
    BY <1>5, <2>1, <2>3, <2>4, ZenonT(60) DEF SendDone
<1>6. ASSUME NEW q \in Queries, HandOff(q)
      PROVE  Shape'
  <2>1. reply' \in [Queries -> Seq(Messages)] /\ scanning' \in BOOLEAN
    <3>1. CASE queued = <<>>
      BY <1>6, <3>1, Zenon DEF HandOff
    <3>2. CASE queued # <<>>
      <4>1. Head(queued) \in Queries /\ ScanRole \in Messages
        BY <3>2, MessageKinds
      <4>2. Append(reply[Head(queued)], ScanRole) \in Seq(Messages)
        BY <4>1
      <4> QED
        BY <1>6, <3>2, <4>1, <4>2, Zenon DEF HandOff
    <3> QED
      BY <3>1, <3>2
  <2> QED
    BY <1>6, <2>1, Zenon DEF HandOff
<1>7. CASE UNCHANGED vars
  BY <1>7 DEF vars
<1> QED
  BY <1>1, <1>2, <1>3, <1>4, <1>5, <1>6, <1>7, SMTT(60) DEF Next, Step

\* A call in the rest of a batch is a call.
LEMMA RestFacts ==
    ASSUME Shape, NEW p \in Queries, NEW i \in Rest(p)
    PROVE  i \in DOMAIN jobs[p] /\ jobs[p][i] \in Queries
BY DEF Shape, Rest

\* What queueing a call does to the queue.
LEMMA AppendFacts ==
    ASSUME NEW S, NEW s \in Seq(S), NEW e \in S
    PROVE  /\ DOMAIN Append(s, e) = DOMAIN s \cup {Len(s) + 1}
           /\ \A i \in DOMAIN s : Append(s, e)[i] = s[i] /\ i # Len(s) + 1
           /\ Append(s, e)[Len(s) + 1] = e
OBVIOUS

\* A call that enqueues itself behind a scan waits for it; one that finds the
\* flag lowered gets the role, which then nobody else has.
LEMMA EnqueueKeeps ==
    ASSUME Inv, NEW q \in Queries, Enqueue(q)
    PROVE  (QueueOnce /\ CallsInv /\ BatchInv /\ WaitersInv /\ RoleInv)'
<1>1. /\ pc[q] = "start"
      /\ queued' = Append(queued, q)
      /\ scanning' = TRUE
      /\ pc' = [pc EXCEPT ![q] = IF scanning THEN "wait" ELSE "drain"]
      /\ reply' = reply /\ jobs' = jobs /\ sent' = sent
  BY DEF Enqueue
<1>2. \A p \in Queries : pc'[p] = IF p = q THEN IF scanning THEN "wait" ELSE "drain" ELSE pc[p]
  BY <1>1 DEF Inv, Shape
<1>3. reply[q] = <<>> /\ ~InQueue(q) /\ sent[q] = 0
  BY <1>1 DEF Inv, CallsInv, CallOk
<1>4. /\ DOMAIN queued' = DOMAIN queued \cup {Len(queued) + 1}
      /\ \A i \in DOMAIN queued : queued'[i] = queued[i] /\ i # Len(queued) + 1
      /\ queued'[Len(queued) + 1] = q
  BY <1>1, AppendFacts DEF Inv, Shape
<1>5. \A p \in Queries : InQueue(p)' <=> InQueue(p) \/ p = q
  BY <1>4 DEF InQueue
<1>6. QueueOnce'
  BY <1>3, <1>4 DEF Inv, QueueOnce, InQueue
<1>7. CallsInv'
  <2> SUFFICES ASSUME NEW p \in Queries
               PROVE  CallOk(p)'
    BY DEF CallsInv
  <2>1. CASE p = q
    BY <2>1, <1>1, <1>2, <1>3, <1>5, EmptyChannel DEF CallOk
  <2>2. CASE p # q
    BY <2>2, <1>1, <1>2, <1>5 DEF CallOk, Inv, CallsInv
  <2> QED
    BY <2>1, <2>2
<1>8. \A p \in Queries : Working(p)' <=> Working(p)
  BY <1>1, <1>2 DEF Working
<1>9. \A p \in Queries : Rest(p)' = Rest(p)
  BY <1>1 DEF Rest
<1>10. BatchInv'
  <2> SUFFICES ASSUME NEW p \in Queries, Working(p)'
               PROVE  BatchOk(p)'
    BY DEF BatchInv
  <2>1. Working(p) /\ BatchOk(p) /\ p # q
    BY <1>1, <1>8 DEF Inv, BatchInv, Working
  <2>2. ASSUME NEW i \in Rest(p)
        PROVE  /\ ~InQueue(jobs[p][i])'
               /\ jobs[p][i] = p \/ pc'[jobs[p][i]] = "wait"
    <3>1. jobs[p][i] \in Queries /\ jobs[p][i] # q
      BY <1>1, <2>1, <2>2, RestFacts DEF BatchOk, Inv
    <3>2. ~InQueue(jobs[p][i]) /\ (jobs[p][i] = p \/ pc[jobs[p][i]] = "wait")
      BY <2>1 DEF BatchOk
    <3> QED
      BY <3>1, <3>2, <1>1, <1>2, <1>5 DEF InQueue
  <2> QED
    BY <1>1, <1>9, <2>1, <2>2 DEF BatchOk, InQueue
<1>11. WaitersInv'
  BY <1>1, <1>2, <1>5, <1>8, <1>9 DEF Inv, WaitersInv
<1>12. RoleInv'
  BY <1>1, <1>2, <1>3, EmptyChannel DEF Inv, RoleInv, Role
<1> QED
  BY <1>6, <1>7, <1>10, <1>11, <1>12

\* A call that receives its result from somebody's scan, or its own, was in
\* no queue and in no rest of a batch.
LEMMA ResultKeeps ==
    ASSUME Inv, NEW q \in Queries, RecvDone(q) \/ RecvOwn(q)
    PROVE  (QueueOnce /\ CallsInv /\ BatchInv /\ WaitersInv /\ RoleInv)'
<1>1. /\ pc[q] \in {"wait", "own"} /\ reply[q] # <<>>
      /\ reply' = [reply EXCEPT ![q] = Tail(@)]
      /\ scanning' = scanning /\ queued' = queued /\ jobs' = jobs /\ sent' = sent
  BY DEF RecvDone, RecvOwn
<1>2. /\ CallOk(q) /\ reply[q] \in Seq(Messages) /\ ScanRole \in Messages
  BY MessageKinds DEF Inv, CallsInv, Shape
<1>3. /\ Tail(reply[q]) = <<>> /\ Head(reply[q]) = reply[q][1]
      /\ reply[q] = <<reply[q][1]>> /\ DOMAIN reply[q] = {1}
      /\ <<ScanRole>>[1] = ScanRole
  BY <1>1, <1>2, ChannelFacts DEF CallOk
<1>4. ~InQueue(q) /\ Head(reply[q]).kind = "Done"
  <2>1. CASE RecvDone(q)
    <3>1. reply[q] # <<ScanRole>>
      BY <1>3, <2>1, MessageKinds DEF RecvDone
    <3> QED
      BY <1>1, <1>2, <2>1, <3>1 DEF CallOk, RecvDone
  <2>2. CASE RecvOwn(q)
    BY <1>2, <1>3, <2>2 DEF CallOk, RecvOwn
  <2> QED
    BY <2>1, <2>2
<1>5. pc' = [pc EXCEPT ![q] = "returned"]
  BY <1>4 DEF RecvDone, RecvOwn
<1>6. \A p \in Queries : /\ pc'[p] = IF p = q THEN "returned" ELSE pc[p]
                         /\ reply'[p] = IF p = q THEN <<>> ELSE reply[p]
  BY <1>1, <1>3, <1>5, Zenon DEF Inv, Shape
<1>7. \A p : InQueue(p)' <=> InQueue(p)
  BY <1>1 DEF InQueue
<1>8. QueueOnce'
  BY <1>1 DEF Inv, QueueOnce
<1>9. CallsInv'
  <2> SUFFICES ASSUME NEW p \in Queries
               PROVE  CallOk(p)'
    BY DEF CallsInv
  <2>1. CASE p = q
    BY <2>1, <1>4, <1>6, <1>7, EmptyChannel DEF CallOk
  <2>2. CASE p # q
    BY <2>2, <1>1, <1>6, <1>7 DEF CallOk, Inv, CallsInv
  <2> QED
    BY <2>1, <2>2
<1>10. \A p \in Queries : Rest(p)' = Rest(p) /\ (Working(p)' <=> Working(p))
  BY <1>1, <1>6 DEF Rest, Working
<1>11. BatchInv'
  <2> SUFFICES ASSUME NEW p \in Queries, Working(p)'
               PROVE  BatchOk(p)'
    BY DEF BatchInv
  <2>1. Working(p) /\ BatchOk(p) /\ p # q
    BY <1>1, <1>10 DEF Inv, BatchInv, Working
  <2>2. ASSUME NEW i \in Rest(p)
        PROVE  /\ reply'[jobs[p][i]] = <<>>
               /\ jobs[p][i] = p \/ pc'[jobs[p][i]] = "wait"
    <3>1. jobs[p][i] \in Queries /\ jobs[p][i] # q
      BY <1>1, <2>1, <2>2, RestFacts DEF BatchOk, Inv
    <3>2. reply[jobs[p][i]] = <<>> /\ (jobs[p][i] = p \/ pc[jobs[p][i]] = "wait")
      BY <2>1 DEF BatchOk
    <3> QED
      BY <3>1, <3>2, <1>6
  <2> QED
    BY <1>1, <1>6, <1>7, <1>10, <2>1, <2>2 DEF BatchOk
<1>12. WaitersInv'
  BY <1>1, <1>6, <1>7, <1>10 DEF Inv, WaitersInv
<1>13. RoleInv'
  <2>1. reply[q] # <<ScanRole>>
    BY <1>3, <1>4, MessageKinds
  <2>2. \A p \in Queries : Role(p)' <=> Role(p)
    BY <1>1, <1>6, <2>1, EmptyChannel, Zenon DEF Role
  <2> QED
    BY <1>1, <2>2 DEF Inv, RoleInv
<1> QED
  BY <1>8, <1>9, <1>11, <1>12, <1>13

\* The call that receives the role still is in the queue.
LEMMA RecvScanKeeps ==
    ASSUME Inv, NEW q \in Queries, RecvScan(q)
    PROVE  (QueueOnce /\ CallsInv /\ BatchInv /\ WaitersInv /\ RoleInv)'
<1>1. /\ pc[q] = "wait" /\ reply[q] # <<>> /\ Head(reply[q]).kind = "Scan"
      /\ reply' = [reply EXCEPT ![q] = Tail(@)]
      /\ pc' = [pc EXCEPT ![q] = "drain"]
      /\ scanning' = scanning /\ queued' = queued /\ jobs' = jobs /\ sent' = sent
  BY DEF RecvScan
<1>2. /\ CallOk(q) /\ reply[q] \in Seq(Messages) /\ ScanRole \in Messages
  BY MessageKinds DEF Inv, CallsInv, Shape
<1>3. /\ Tail(reply[q]) = <<>> /\ Head(reply[q]) = reply[q][1]
      /\ DOMAIN reply[q] = {1}
  BY <1>1, <1>2, ChannelFacts DEF CallOk
<1>4. InQueue(q) /\ reply[q] = <<ScanRole>>
  BY <1>1, <1>2, <1>3 DEF CallOk
<1>5. \A p \in Queries : /\ pc'[p] = IF p = q THEN "drain" ELSE pc[p]
                         /\ reply'[p] = IF p = q THEN <<>> ELSE reply[p]
  BY <1>1, <1>3, Zenon DEF Inv, Shape
<1>6. \A p : InQueue(p)' <=> InQueue(p)
  BY <1>1 DEF InQueue
<1>7. QueueOnce'
  BY <1>1 DEF Inv, QueueOnce
<1>8. CallsInv'
  <2> SUFFICES ASSUME NEW p \in Queries
               PROVE  CallOk(p)'
    BY DEF CallsInv
  <2>1. CASE p = q
    BY <2>1, <1>1, <1>2, <1>4, <1>5, <1>6, EmptyChannel DEF CallOk
  <2>2. CASE p # q
    BY <2>2, <1>1, <1>5, <1>6 DEF CallOk, Inv, CallsInv
  <2> QED
    BY <2>1, <2>2
<1>9. \A p \in Queries : Rest(p)' = Rest(p) /\ (Working(p)' <=> Working(p))
  BY <1>1, <1>5, SMTT(60) DEF Rest, Working
<1>10. BatchInv'
  <2> SUFFICES ASSUME NEW p \in Queries, Working(p)'
               PROVE  BatchOk(p)'
    BY DEF BatchInv
  <2>1. Working(p) /\ BatchOk(p) /\ p # q
    BY <1>1, <1>9 DEF Inv, BatchInv, Working
  <2>2. ASSUME NEW i \in Rest(p)
        PROVE  /\ reply'[jobs[p][i]] = <<>>
               /\ jobs[p][i] = p \/ pc'[jobs[p][i]] = "wait"
    <3>1. jobs[p][i] \in Queries /\ jobs[p][i] # q
      BY <1>4, <2>1, <2>2, RestFacts DEF BatchOk, Inv
    <3>2. reply[jobs[p][i]] = <<>> /\ (jobs[p][i] = p \/ pc[jobs[p][i]] = "wait")
      BY <2>1 DEF BatchOk
    <3> QED
      BY <3>1, <3>2, <1>5
  <2> QED
    BY <1>1, <1>5, <1>6, <1>9, <2>1, <2>2 DEF BatchOk
<1>11. WaitersInv'
  BY <1>1, <1>5, <1>6, <1>9 DEF Inv, WaitersInv
<1>12. RoleInv'
  <2>1. \A p \in Queries : Role(p)' <=> Role(p)
    BY <1>1, <1>4, <1>5, EmptyChannel DEF Role
  <2> QED
    BY <1>1, <2>1 DEF Inv, RoleInv
<1> QED
  BY <1>7, <1>8, <1>10, <1>11, <1>12

\* Whoever has the role is the only call that has it or works on a batch.
LEMMA RoleIsAlone ==
    ASSUME Inv, NEW q \in Queries, pc[q] \in {"drain", "scan", "send"}
    PROVE  /\ scanning
           /\ \A p \in Queries \ {q} : /\ pc[p] \notin {"drain", "scan", "send"}
                                       /\ reply[p] # <<ScanRole>> /\ ~Working(p)
BY DEF Inv, RoleInv, Role, Working

\* The batch is what was queued: every queued call but the scanner waits, with
\* nothing in its channel, and the scanner is among them.
LEMMA DrainKeeps ==
    ASSUME Inv, NEW q \in Queries, Drain(q)
    PROVE  (QueueOnce /\ CallsInv /\ BatchInv /\ WaitersInv /\ RoleInv)'
<1>1. /\ pc[q] = "drain" /\ queued' = <<>>
      /\ jobs' = [jobs EXCEPT ![q] = queued]
      /\ pc' = [pc EXCEPT ![q] = "scan"]
      /\ scanning' = scanning /\ reply' = reply /\ sent' = sent
  BY DEF Drain
<1>2. CallOk(q) /\ \A p \in Queries \ {q} : /\ pc[p] \notin {"drain", "scan", "send"}
                                            /\ reply[p] # <<ScanRole>> /\ ~Working(p)
  BY <1>1, RoleIsAlone DEF Inv, CallsInv
<1>3. InQueue(q) /\ reply[q] = <<>> /\ sent[q] = 0
  BY <1>1, <1>2 DEF CallOk
<1>4. \A p \in Queries : /\ pc'[p] = IF p = q THEN "scan" ELSE pc[p]
                         /\ jobs'[p] = IF p = q THEN queued ELSE jobs[p]
  BY <1>1 DEF Inv, Shape
<1>5. \A p : ~InQueue(p)'
  BY <1>1, EmptyChannel DEF InQueue
<1>6. QueueOnce'
  BY <1>1, EmptyChannel DEF QueueOnce
<1>7. CallsInv'
  <2> SUFFICES ASSUME NEW p \in Queries
               PROVE  CallOk(p)'
    BY DEF CallsInv
  <2>1. CASE p = q
    BY <2>1, <1>1, <1>3, <1>4, <1>5, EmptyChannel, SMTT(60) DEF CallOk
  <2>2. CASE p # q
    <3>1. CallOk(p) /\ reply[p] # <<ScanRole>> /\ pc[p] # "drain"
      BY <1>2, <2>2 DEF Inv, CallsInv
    <3>2. \A i \in DOMAIN reply[p] : reply[p][i].kind = "Done"
      BY <3>1, EmptyChannel DEF CallOk
    <3> QED
      BY <2>2, <1>1, <1>4, <1>5, <3>1, <3>2 DEF CallOk
  <2> QED
    BY <2>1, <2>2
<1>8. queued \in Seq(Queries) /\ DOMAIN queued = 1..Len(queued) /\ Len(queued) \in Nat
  BY DEF Inv, Shape
<1>9. Rest(q)' = DOMAIN queued
  BY <1>1, <1>3, <1>4, <1>8, SMTT(60) DEF Rest
<1>10. BatchInv'
  <2> SUFFICES ASSUME NEW p \in Queries, Working(p)'
               PROVE  BatchOk(p)'
    BY DEF BatchInv
  <2>1. p = q
    BY <1>2, <1>4, SMTT(60) DEF Working
  <2>2. ASSUME NEW i \in DOMAIN queued
        PROVE  /\ reply[queued[i]] = <<>>
               /\ queued[i] = q \/ pc'[queued[i]] = "wait"
    <3>1. queued[i] \in Queries /\ InQueue(queued[i])
      BY <1>8 DEF InQueue
    <3>2. CallOk(queued[i])
      BY <3>1 DEF Inv, CallsInv
    <3> QED
      BY <1>2, <1>3, <1>4, <3>1, <3>2 DEF CallOk
  <2>3. \A i, j \in DOMAIN queued : queued[i] = queued[j] => i = j
    BY DEF Inv, QueueOnce
  <2>4. \E i \in DOMAIN queued : queued[i] = q
    BY <1>3 DEF InQueue
  <2>5. sent'[q] <= Len(jobs'[q])
    BY <1>1, <1>3, <1>4, <1>8
  <2> QED
    BY <1>1, <1>4, <1>5, <1>9, <2>1, <2>2, <2>3, <2>4, <2>5, SMTT(60) DEF BatchOk
<1>11. WaitersInv'
  <2> SUFFICES ASSUME NEW p \in Queries, pc'[p] = "wait", reply'[p] = <<>>
               PROVE  \E w \in Queries : Working(w)' /\ \E i \in Rest(w)' : jobs'[w][i] = p
    BY DEF WaitersInv
  <2>1. InQueue(p)
    BY <1>1, <1>2, <1>4 DEF Inv, WaitersInv, Working
  <2>2. Working(q)' /\ jobs'[q] = queued
    BY <1>4 DEF Working
  <2> QED
    BY <1>9, <2>1, <2>2 DEF InQueue
<1>12. RoleInv'
  <2>1. \A p \in Queries : Role(p)' <=> Role(p)
    BY <1>1, <1>4 DEF Role
  <2> QED
    BY <1>1, <2>1 DEF Inv, RoleInv
<1> QED
  BY <1>6, <1>7, <1>10, <1>11, <1>12

\* Scanning itself touches nothing that is shared.
LEMMA ScanKeeps ==
    ASSUME Inv, NEW q \in Queries, Scan(q)
    PROVE  (QueueOnce /\ CallsInv /\ BatchInv /\ WaitersInv /\ RoleInv)'
<1>1. /\ pc[q] = "scan" /\ pc' = [pc EXCEPT ![q] = "send"]
      /\ scanning' = scanning /\ queued' = queued /\ reply' = reply
      /\ jobs' = jobs /\ sent' = sent
  BY DEF Scan
<1>2. \A p \in Queries : pc'[p] = IF p = q THEN "send" ELSE pc[p]
  BY <1>1 DEF Inv, Shape
<1>3. \A p : InQueue(p)' <=> InQueue(p)
  BY <1>1 DEF InQueue
<1>4. \A p \in Queries : /\ Rest(p)' = Rest(p) /\ (Working(p)' <=> Working(p))
                         /\ Role(p)' <=> Role(p)
  BY <1>1, <1>2 DEF Rest, Working, Role
<1>5. QueueOnce'
  BY <1>1, SMTT(60) DEF Inv, QueueOnce
<1>6. CallsInv'
  <2> SUFFICES ASSUME NEW p \in Queries
               PROVE  CallOk(p)'
    BY DEF CallsInv
  <2>1. CallOk(p)
    BY ZenonT(60) DEF Inv, CallsInv
  <2> QED
    BY <1>1, <1>2, <1>3, <2>1 DEF CallOk
<1>7. BatchInv'
  <2> SUFFICES ASSUME NEW p \in Queries, Working(p)'
               PROVE  BatchOk(p)'
    BY DEF BatchInv
  <2>1. BatchOk(p)
    BY <1>4 DEF Inv, BatchInv
  <2>2. ASSUME NEW i \in Rest(p)
        PROVE  jobs[p][i] = p \/ pc'[jobs[p][i]] = "wait"
    <3>1. jobs[p][i] \in Queries /\ (jobs[p][i] = p \/ pc[jobs[p][i]] = "wait")
      BY <2>1, RestFacts, SMTT(60) DEF BatchOk, Inv
    <3> QED
      BY <1>1, <1>2, <3>1, SMTT(60)
  <2> QED
    BY <1>1, <1>3, <1>4, <2>1, <2>2 DEF BatchOk
<1>8. WaitersInv'
  BY <1>1, <1>2, <1>3, <1>4 DEF Inv, WaitersInv
<1>9. RoleInv'
  BY <1>1, <1>4, ZenonT(60) DEF Inv, RoleInv
<1> QED
  BY <1>5, <1>6, <1>7, <1>8, <1>9

\* A result goes to the next call of the batch, whose channel is empty, and to
\* no other.
LEMMA SendDoneKeeps ==
    ASSUME Inv, NEW q \in Queries, SendDone(q)
    PROVE  (QueueOnce /\ CallsInv /\ BatchInv /\ WaitersInv /\ RoleInv)'
<1> DEFINE n == sent[q] + 1
           m == Done(ScanJobs(Keys, jobs[q])[n])
           r == jobs[q][n]
<1>1. /\ pc[q] = "send" /\ sent[q] < Len(jobs[q])
      /\ reply' = [reply EXCEPT ![r] = Append(@, m)]
      /\ sent' = [sent EXCEPT ![q] = n]
      /\ scanning' = scanning /\ queued' = queued /\ jobs' = jobs /\ pc' = pc
  BY SMTT(60) DEF SendDone
<1>2. /\ \A p \in Queries \ {q} : ~Working(p)
      /\ Working(q) /\ BatchOk(q)
  BY <1>1, RoleIsAlone, SMTT(60) DEF Inv, BatchInv, Working
<1>3. n \in Rest(q) /\ sent[q] \in Nat /\ Len(jobs[q]) \in Nat
  <2>1. sent[q] \in Nat /\ jobs[q] \in Seq(Queries)
    BY DEF Inv, Shape
  <2>2. Len(jobs[q]) \in Nat
    BY <2>1, LenProperties
  <2> QED
    BY <1>1, <2>1, <2>2 DEF Rest
<1>4. n \in DOMAIN jobs[q] /\ r \in Queries
  BY <1>3, RestFacts, SMTT(60) DEF Inv
<1>5. /\ ~InQueue(r) /\ reply[r] = <<>> /\ (r = q \/ pc[r] = "wait")
      /\ \A i, j \in DOMAIN jobs[q] : jobs[q][i] = jobs[q][j] => i = j
  BY <1>2, <1>3, SMTT(60) DEF BatchOk
<1>6. /\ m.kind = "Done" /\ m # ScanRole
  BY MessageKinds
<1> HIDE DEF m
<1>7. /\ Append(<<>>, m) = <<m>> /\ <<m>> # <<>> /\ <<m>> # <<ScanRole>>
      /\ Len(<<m>>) = 1 /\ DOMAIN <<m>> = {1} /\ <<m>>[1] = m
  BY <1>6
<1>8. \A p \in Queries : reply'[p] = IF p = r THEN <<m>> ELSE reply[p]
  BY <1>1, <1>4, <1>5, <1>7, SMTT(60) DEF Inv, Shape
<1>9. \A p \in Queries : sent'[p] = IF p = q THEN n ELSE sent[p]
  BY <1>1, ZenonT(60) DEF Inv, Shape
<1>10. \A p : InQueue(p)' <=> InQueue(p)
  BY <1>1, SMTT(60) DEF InQueue
<1>11. Rest(q)' = Rest(q) \ {n}
  BY <1>1, <1>3, <1>9, SMTT(60) DEF Rest
<1>12. \A p \in Queries : Working(p)' <=> Working(p)
  BY <1>1, ZenonT(60) DEF Working
<1>13. QueueOnce'
  BY <1>1 DEF Inv, QueueOnce
<1>14. CallsInv'
  <2> SUFFICES ASSUME NEW p \in Queries
               PROVE  CallOk(p)'
    BY DEF CallsInv
  <2>1. CallOk(p)
    BY DEF Inv, CallsInv
  <2>2. pc[p] \in {"start", "wait", "drain", "scan"} => sent'[p] = 0
    BY <1>1, <1>9, <2>1, SMTT(60) DEF CallOk
  <2>3. CASE p = r
    <3>1. pc[p] \in {"wait", "send"} /\ reply'[p] = <<m>> /\ ~InQueue(p)'
      BY <1>1, <1>5, <1>8, <1>10, <2>3
    <3>2. Len(reply'[p]) <= 1 /\ \A i \in DOMAIN reply'[p] : reply'[p][i].kind = "Done"
      BY <1>6, <1>7, <3>1, SMTT(60)
    <3> HIDE DEF r
    <3> QED
      BY <1>1, <2>2, <3>1, <3>2, ZenonT(60) DEF CallOk
  <2>4. CASE p # r
    <3>1. reply'[p] = reply[p]
      BY <1>8, <2>4, ZenonT(60)
    <3> HIDE DEF r
    <3> QED
      BY <1>1, <1>10, <2>1, <2>2, <3>1, Zenon DEF CallOk
  <2> QED
    BY <2>3, <2>4, ZenonT(60)
<1>15. BatchInv'
  <2> SUFFICES BatchOk(q)'
    BY <1>2, <1>12 DEF BatchInv
  <2>1. sent'[q] <= Len(jobs'[q])
    BY <1>1, <1>3, <1>9
  <2>2. ASSUME NEW i \in Rest(q)'
        PROVE  /\ ~InQueue(jobs[q][i])' /\ reply'[jobs[q][i]] = <<>>
               /\ jobs[q][i] = q \/ pc[jobs[q][i]] = "wait"
    <3>1. i \in Rest(q) /\ i # n
      BY <1>11
    <3>2. i \in DOMAIN jobs[q] /\ jobs[q][i] \in Queries
      BY <3>1, RestFacts, SMTT(60) DEF Inv
    <3>3. jobs[q][i] # r
      BY <1>4, <1>5, <3>1, <3>2, SMTT(60)
    <3>4. /\ ~InQueue(jobs[q][i]) /\ reply[jobs[q][i]] = <<>>
          /\ jobs[q][i] = q \/ pc[jobs[q][i]] = "wait"
      BY <1>2, <3>1 DEF BatchOk
    <3> QED
      BY <1>1, <1>8, <3>2, <3>3, <3>4 DEF InQueue
  <2>3. reply'[q] # <<>> \/ \E i \in Rest(q)' : jobs[q][i] = q
    <3>1. CASE r = q
      BY <1>7, <1>8, <3>1, SMTT(60)
    <3>2. CASE r # q
      BY <1>2, <1>8, <1>11, <3>2 DEF BatchOk
    <3> QED
      BY <3>1, <3>2
  <2> QED
    BY <1>1, <1>5, <2>1, <2>2, <2>3 DEF BatchOk
<1>16. WaitersInv'
  <2> SUFFICES ASSUME NEW p \in Queries, pc[p] = "wait", ~InQueue(p), reply'[p] = <<>>
               PROVE  \E i \in Rest(q)' : jobs[q][i] = p
    BY <1>1, <1>2, <1>10, <1>12 DEF WaitersInv
  <2>1. p # r /\ reply[p] = <<>>
    BY <1>7, <1>8, SMTT(60)
  <2>2. \E i \in Rest(q) : jobs[q][i] = p
    BY <1>2, <2>1, SMTT(60) DEF Inv, WaitersInv
  <2> QED
    BY <1>11, <2>1, <2>2, ZenonT(60)
<1>17. RoleInv'
  <2>1. \A p \in Queries : Role(p)' <=> Role(p)
    BY <1>1, <1>5, <1>7, <1>8, EmptyChannel DEF Role
  <2> QED
    BY <1>1, <2>1, SMTT(60) DEF Inv, RoleInv
<1> QED
  BY <1>13, <1>14, <1>15, <1>16, <1>17

\* When the batch is answered the role goes to the front call, which has an
\* empty channel and waits, or to nobody.
LEMMA HandOffKeeps ==
    ASSUME Inv, NEW q \in Queries, HandOff(q)
    PROVE  (QueueOnce /\ CallsInv /\ BatchInv /\ WaitersInv /\ RoleInv)'
<1>1. /\ pc[q] = "send" /\ sent[q] = Len(jobs[q])
      /\ pc' = [pc EXCEPT ![q] = "own"]
      /\ queued' = queued /\ jobs' = jobs /\ sent' = sent
  BY SMTT(60) DEF HandOff
<1>2. /\ scanning /\ CallOk(q) /\ BatchOk(q)
      /\ \A p \in Queries \ {q} : /\ pc[p] \notin {"drain", "scan", "send"}
                                  /\ reply[p] # <<ScanRole>> /\ ~Working(p)
  BY <1>1, RoleIsAlone DEF Inv, CallsInv, BatchInv, Working
<1>3. Rest(q) = {}
  BY <1>1 DEF Rest, Inv, Shape
<1>4. reply[q] # <<>> /\ ~InQueue(q) /\ reply[q] # <<ScanRole>>
  <2>1. reply[q] # <<>> /\ ~InQueue(q)
    BY <1>1, <1>2, <1>3, SMTT(60) DEF CallOk, BatchOk
  <2>2. \A i \in DOMAIN reply[q] : reply[q][i].kind = "Done"
    BY <1>2, <2>1 DEF CallOk
  <2>3. DOMAIN <<ScanRole>> = {1} /\ <<ScanRole>>[1].kind = "Scan"
    BY MessageKinds
  <2> QED
    BY <2>1, <2>2, <2>3, SMTT(60)
<1>5. \A p \in Queries : pc'[p] = IF p = q THEN "own" ELSE pc[p]
  BY <1>1 DEF Inv, Shape
<1>6. \A p : InQueue(p)' <=> InQueue(p)
  BY <1>1 DEF InQueue
<1>7. QueueOnce'
  BY <1>1, ZenonT(60) DEF Inv, QueueOnce
<1>8. BatchInv'
  BY <1>2, <1>5, ZenonT(60) DEF BatchInv, Working
<1>9. \A p \in Queries : pc[p] = "wait" /\ ~InQueue(p) => reply[p] # <<>>
  BY <1>2, <1>3 DEF Inv, WaitersInv
<1>10. CASE queued = <<>>
  <2>1. reply' = reply /\ scanning' = FALSE
    BY <1>10, ZenonT(60) DEF HandOff
  <2>2. CallsInv'
    <3> SUFFICES ASSUME NEW p \in Queries
                 PROVE  CallOk(p)'
      BY DEF CallsInv
    <3>1. CallOk(p)
      BY DEF Inv, CallsInv
    <3> QED
      BY <1>1, <1>4, <1>5, <1>6, <2>1, <3>1, SMTT(60) DEF CallOk
  <2>3. WaitersInv'
    BY <1>5, <1>6, <1>9, <2>1, SMTT(60) DEF WaitersInv
  <2>4. RoleInv'
    BY <1>2, <1>4, <1>5, <2>1 DEF RoleInv, Role
  <2> QED
    BY <1>7, <1>8, <2>2, <2>3, <2>4, SMTT(60)
<1>11. CASE queued # <<>>
  <2>1. PICK h \in Queries : h = Head(queued) /\ InQueue(h)
    <3>1. Head(queued) \in Queries /\ 1 \in DOMAIN queued /\ queued[1] = Head(queued)
      BY <1>11, SMTT(60) DEF Inv, Shape
    <3> QED
      BY <3>1 DEF InQueue
  <2>2. h # q /\ pc[h] = "wait" /\ reply[h] = <<>>
    BY <1>2, <1>4, <2>1, SMTT(60) DEF Inv, CallsInv, CallOk
  <2>3. scanning' = TRUE /\ reply' = [reply EXCEPT ![h] = Append(@, ScanRole)]
    BY <1>2, <1>11, <2>1 DEF HandOff
  <2>4. /\ Append(<<>>, ScanRole) = <<ScanRole>> /\ <<ScanRole>> # <<>>
        /\ Len(<<ScanRole>>) = 1
    OBVIOUS
  <2>5. \A p \in Queries : reply'[p] = IF p = h THEN <<ScanRole>> ELSE reply[p]
    BY <2>2, <2>3, <2>4 DEF Inv, Shape
  <2>6. CallsInv'
    <3> SUFFICES ASSUME NEW p \in Queries
                 PROVE  CallOk(p)'
      BY DEF CallsInv
    <3>1. CallOk(p)
      BY DEF Inv, CallsInv
    <3>2. CASE p = h
      <4>1. pc'[p] = "wait" /\ InQueue(p)' /\ reply'[p] = <<ScanRole>> /\ sent'[p] = 0
        BY <1>1, <1>5, <1>6, <2>1, <2>2, <2>5, <3>1, <3>2, SMTT(60) DEF CallOk
      <4>2. Len(reply'[p]) <= 1
        BY <4>1, <2>4, SMTT(60)
      <4> QED
        BY <4>1, <4>2, SMTT(60) DEF CallOk
    <3>3. CASE p # h
      BY <1>1, <1>4, <1>5, <1>6, <2>5, <3>1, <3>3, SMTT(60) DEF CallOk
    <3> QED
      BY <3>2, <3>3
  <2>7. WaitersInv'
    BY <1>5, <1>6, <1>9, <2>4, <2>5 DEF WaitersInv
  <2>8. RoleInv'
    <3>1. \A p \in Queries : Role(p)' <=> p = h
      BY <1>2, <1>4, <1>5, <2>2, <2>5 DEF Role
    <3> QED
      BY <2>3, <3>1, SMTT(60) DEF RoleInv
  <2> QED
    BY <1>7, <1>8, <2>6, <2>7, <2>8
<1> QED
  BY <1>10, <1>11

-----------------------------------------------------------------------------
LEMMA InitInv == Init => Inv
<1> SUFFICES ASSUME Init
             PROVE  Inv
  OBVIOUS
<1>1. Shape
  BY EmptySeq, Zenon DEF Init, Shape, Steps
<1>2. \A q \in Queries : /\ pc[q] = "start" /\ reply[q] = <<>> /\ sent[q] = 0
                         /\ ~InQueue(q) /\ ~Working(q) /\ ~Role(q)
  BY EmptyChannel DEF Init, InQueue, Working, Role
<1>3. QueueOnce
  BY EmptyChannel DEF Init, QueueOnce
<1>4. CallsInv
  BY <1>2, EmptyChannel DEF CallsInv, CallOk
<1>5. BatchInv /\ WaitersInv
  BY <1>2 DEF BatchInv, WaitersInv
<1>6. RoleInv
  BY <1>2 DEF RoleInv, Init
<1> QED
  BY <1>1, <1>3, <1>4, <1>5, <1>6 DEF Inv

LEMMA NextInv == Inv /\ [Next]_vars => Inv'
<1> SUFFICES ASSUME Inv, [Next]_vars
             PROVE  Inv'
  OBVIOUS
<1>1. Shape'
  BY ShapeStep DEF Inv
<1>2. (QueueOnce /\ CallsInv /\ BatchInv /\ WaitersInv /\ RoleInv)'
  <2>1. ASSUME NEW q \in Queries, Step(q)
        PROVE  (QueueOnce /\ CallsInv /\ BatchInv /\ WaitersInv /\ RoleInv)'
    BY <2>1, EnqueueKeeps, ResultKeeps, RecvScanKeeps, DrainKeeps, ScanKeeps,
       SendDoneKeeps, HandOffKeeps, ZenonT(60) DEF Step
  <2>2. CASE UNCHANGED vars
    BY <2>2
       DEF vars, Inv, QueueOnce, CallsInv, BatchInv, WaitersInv, RoleInv, CallOk,
                BatchOk, InQueue, Working, Rest, Role
  <2> QED
    BY <2>1, <2>2 DEF Next
<1> QED
  BY <1>1, <1>2 DEF Inv

LEMMA ScanBatchInv == Spec => []Inv
BY InitInv, NextInv, PTL DEF Spec

\* A channel with at most one message holds the role exactly when it is the
\* role's message.
LEMMA RoleIsHasRole ==
    ASSUME Inv, NEW q \in Queries
    PROVE  HasRole(q) <=> Role(q)
<1>1. reply[q] \in Seq(Messages) /\ Len(reply[q]) <= 1 /\ ScanRole \in Messages
  BY MessageKinds DEF Inv, Shape, CallsInv, CallOk
<1>2. DOMAIN <<ScanRole>> = {1} /\ <<ScanRole>>[1] = ScanRole
  OBVIOUS
<1>3. CASE reply[q] = <<>>
  BY <1>3, EmptyChannel DEF HasRole, Role
<1>4. CASE reply[q] # <<>>
  <2>1. reply[q] = <<reply[q][1]>> /\ DOMAIN reply[q] = {1} /\ reply[q][1] \in Messages
    BY <1>1, <1>4, ChannelFacts
  <2>2. reply[q] = <<ScanRole>> <=> reply[q][1].kind = "Scan"
    BY <1>2, <2>1, MessageKinds
  <2> QED
    BY <2>1, <2>2 DEF HasRole, Role
<1> QED
  BY <1>3, <1>4, SMTT(60)

(***************************************************************************)
(* For any number of concurrent calls of scan(), one at a time has the     *)
(* scan role and Lane.scanning is raised exactly while one has.            *)
(***************************************************************************)
THEOREM ScanRoleUnique == Spec => []OneScanRole
<1>1. Inv => OneScanRole
  BY RoleIsHasRole, SMTT(60) DEF Inv, RoleInv, OneScanRole
<1> QED
  BY <1>1, ScanBatchInv, PTL

(***************************************************************************)
(* For any number of concurrent calls, the unreachable!() of scan() is not *)
(* reached: a call that has drained its batch is never handed the role.    *)
(***************************************************************************)
THEOREM ScanNeverPanics == Spec => []ScannedNeverHanded
<1>1. Inv => ScannedNeverHanded
  BY SMTT(60) DEF Inv, CallsInv, CallOk, ScannedNeverHanded
<1> QED
  BY <1>1, ScanBatchInv, PTL

(***************************************************************************)
(* For any number of concurrent calls, a call between its enqueue and its  *)
(* return is queued, in the unsent rest of a batch, or answered.           *)
(***************************************************************************)
THEOREM ScanLosesNoJob == Spec => []NoJobLost
<1>1. Inv => NoJobLost
  <2> SUFFICES ASSUME Inv, NEW q \in Queries,
                      pc[q] \in {"wait", "drain", "scan", "send", "own"}
               PROVE  \/ InQueue(q)
                      \/ \E p \in Queries : Working(p) /\ \E i \in Rest(p) : jobs[p][i] = q
                      \/ Answered(q)
    BY DEF NoJobLost, InQueue, Working, Rest, Unsent
  <2>1. CallOk(q) /\ reply[q] \in Seq(Messages)
    BY DEF Inv, CallsInv, Shape
  <2>2. CASE InQueue(q)
    BY <2>2, ZenonT(60)
  <2>3. CASE ~InQueue(q) /\ reply[q] = <<>>
    <3>1. CASE pc[q] = "wait"
      BY <2>3, <3>1, SMTT(60) DEF Inv, WaitersInv
    <3>2. CASE pc[q] \in {"scan", "send"}
      BY <2>3, <3>2, SMTT(60) DEF Inv, BatchInv, BatchOk, Working
    <3> QED
      BY <2>1, <2>3, <3>1, <3>2, SMTT(60) DEF CallOk
  <2>4. CASE ~InQueue(q) /\ reply[q] # <<>>
    <3>1. DOMAIN reply[q] = {1}
      BY <2>1, <2>4, MessageKinds, ChannelFacts, SMTT(60) DEF CallOk
    <3> QED
      BY <2>1, <2>4, <3>1, SMTT(60) DEF CallOk, Answered
  <2> QED
    BY <2>2, <2>3, <2>4
<1> QED
  BY <1>1, ScanBatchInv, PTL

(***************************************************************************)
(* The state of a lane stays well formed for any number of calls; in       *)
(* particular no reply channel ever holds two messages.                    *)
(***************************************************************************)
THEOREM ScanBatchTypes == Spec => []TypeOK
<1>1. Inv => TypeOK
  BY DEF Inv, Shape, CallsInv, CallOk, TypeOK
<1> QED
  BY <1>1, ScanBatchInv, PTL

(***************************************************************************)
(* All of it at once: for any number of concurrent calls the lane has one  *)
(* scanner, hands the role to no call that has scanned, and loses no job.  *)
(***************************************************************************)
THEOREM ScanIsSafe == Spec => []ScanSafe
<1>1. TypeOK /\ OneScanRole /\ ScannedNeverHanded /\ NoJobLost => ScanSafe
  BY Zenon DEF ScanSafe
<1> QED
  BY <1>1, ScanBatchTypes, ScanRoleUnique, ScanNeverPanics, ScanLosesNoJob, PTL

-----------------------------------------------------------------------------
(* The free lane (ScanBatch): where the halves of the scans are.        *)


In(e, s) == \E i \in DOMAIN s : s[i] = e
OnceIn(e, s) == \A i, j \in DOMAIN s : s[i] = e /\ s[j] = e => i = j

\* What the pool's steps do to the elements of a sequence.
LEMMA AppendElements ==
    ASSUME NEW S, NEW s \in Seq(S), NEW x \in S, NEW e
    PROVE  /\ Append(s, x) \in Seq(S)
           /\ In(e, Append(s, x)) <=> In(e, s) \/ e = x
           /\ OnceIn(e, s) /\ (e = x => ~In(e, s)) => OnceIn(e, Append(s, x))
<1> DEFINE a == Append(s, x)
<1>1. /\ a \in Seq(S) /\ DOMAIN a = 1..(Len(s) + 1) /\ DOMAIN s = 1..Len(s) /\ Len(s) \in Nat
      /\ a[Len(s) + 1] = x /\ \A i \in DOMAIN s : a[i] = s[i]
  OBVIOUS
<1> HIDE DEF a
<1>2. \A i \in DOMAIN a : i \in DOMAIN s \/ i = Len(s) + 1
  BY <1>1
<1>3. \A i \in DOMAIN s : i \in DOMAIN a
  BY <1>1
<1>4. Len(s) + 1 \in DOMAIN a
  BY <1>1
<1> QED
  BY <1>1, <1>2, <1>3, <1>4 DEF a, In, OnceIn

LEMMA ConsElements ==
    ASSUME NEW S, NEW s \in Seq(S), NEW x \in S, NEW e
    PROVE  /\ <<x>> \o s \in Seq(S)
           /\ In(e, <<x>> \o s) <=> In(e, s) \/ e = x
           /\ OnceIn(e, s) /\ (e = x => ~In(e, s)) => OnceIn(e, <<x>> \o s)
<1> DEFINE a == <<x>> \o s
<1>1. /\ a \in Seq(S) /\ DOMAIN a = 1..(Len(s) + 1) /\ DOMAIN s = 1..Len(s) /\ Len(s) \in Nat
      /\ a[1] = x /\ \A i \in DOMAIN s : a[i + 1] = s[i]
  <2>1. /\ a \in Seq(S) /\ DOMAIN s = 1..Len(s) /\ Len(s) \in Nat /\ a[1] = x
        /\ Len(a) = 1 + Len(s)
    OBVIOUS
  <2>2. ASSUME NEW i \in DOMAIN s
        PROVE  a[i + 1] = s[i]
    BY <2>1
  <2> QED
    BY <2>1, <2>2
<1> HIDE DEF a
<1>2. ASSUME NEW i \in DOMAIN a, i # 1
      PROVE  i - 1 \in DOMAIN s /\ a[i] = s[i - 1]
  <2>1. i - 1 \in DOMAIN s /\ (i - 1) + 1 = i
    BY <1>1, <1>2
  <2> QED
    BY <1>1, <2>1
<1>3. \A i \in DOMAIN s : i + 1 \in DOMAIN a
  BY <1>1
<1>4. 1 \in DOMAIN a
  BY <1>1
<1>6. In(e, a) <=> In(e, s) \/ e = x
  <2>1. In(e, a) => In(e, s) \/ e = x
    BY <1>1, <1>2, Zenon DEF In
  <2>2. In(e, s) => In(e, a)
    BY <1>1, <1>3, Zenon DEF In
  <2>3. e = x => In(e, a)
    BY <1>1, <1>4, Zenon DEF In
  <2> QED
    BY <2>1, <2>2, <2>3
<1>7. ASSUME OnceIn(e, s), e = x => ~In(e, s)
      PROVE  OnceIn(e, a)
  <2> SUFFICES ASSUME NEW i \in DOMAIN a, NEW j \in DOMAIN a, a[i] = e, a[j] = e
               PROVE  i = j
    BY DEF OnceIn
  <2>1. i \in Int /\ j \in Int
    BY <1>1
  <2>2. CASE i = 1 /\ j # 1
    BY <1>1, <1>2, <1>7, <2>2 DEF In
  <2>3. CASE i # 1 /\ j = 1
    BY <1>1, <1>2, <1>7, <2>3 DEF In
  <2>4. CASE i # 1 /\ j # 1
    <3>1. i - 1 = j - 1
      BY <1>2, <1>7, <2>4 DEF OnceIn
    <3> QED
      BY <2>1, <3>1
  <2> QED
    BY <2>2, <2>3, <2>4
<1> QED
  BY <1>1, <1>6, <1>7 DEF a

LEMMA TailElements ==
    ASSUME NEW S, NEW s \in Seq(S), s # <<>>, NEW e
    PROVE  /\ Tail(s) \in Seq(S) /\ Head(s) \in S
           /\ In(e, s) <=> In(e, Tail(s)) \/ e = Head(s)
           /\ OnceIn(e, s) => OnceIn(e, Tail(s))
           /\ OnceIn(e, s) /\ e = Head(s) => ~In(e, Tail(s))
<1> DEFINE a == Tail(s)
<1>1. /\ a \in Seq(S) /\ DOMAIN a = 1..(Len(s) - 1) /\ DOMAIN s = 1..Len(s)
      /\ Len(s) \in Nat /\ Len(s) # 0 /\ Head(s) = s[1] /\ Head(s) \in S
      /\ \A i \in DOMAIN a : a[i] = s[i + 1]
  OBVIOUS
<1> HIDE DEF a
<1>2. ASSUME NEW i \in DOMAIN s, i # 1
      PROVE  i - 1 \in DOMAIN a /\ a[i - 1] = s[i]
  <2>1. i - 1 \in DOMAIN a /\ (i - 1) + 1 = i
    BY <1>1, <1>2
  <2> QED
    BY <1>1, <2>1
<1>3. \A i \in DOMAIN a : i \in Int /\ i + 1 \in DOMAIN s /\ i + 1 # 1
  BY <1>1
<1>4. 1 \in DOMAIN s
  BY <1>1
<1>5. In(e, s) <=> In(e, a) \/ e = Head(s)
  BY <1>1, <1>2, <1>3, <1>4 DEF In
<1>6. ASSUME OnceIn(e, s)
      PROVE  OnceIn(e, a) /\ (e = Head(s) => ~In(e, a))
  BY <1>1, <1>3, <1>4, <1>6 DEF In, OnceIn
<1> QED
  BY <1>1, <1>5, <1>6 DEF a

LEMMA FrontElements ==
    ASSUME NEW S, NEW s \in Seq(S), s # <<>>, NEW e
    PROVE  /\ SubSeq(s, 1, Len(s) - 1) \in Seq(S) /\ s[Len(s)] \in S
           /\ In(e, s) <=> In(e, SubSeq(s, 1, Len(s) - 1)) \/ e = s[Len(s)]
           /\ OnceIn(e, s) => OnceIn(e, SubSeq(s, 1, Len(s) - 1))
           /\ OnceIn(e, s) /\ e = s[Len(s)] => ~In(e, SubSeq(s, 1, Len(s) - 1))
<1> DEFINE a == SubSeq(s, 1, Len(s) - 1)
<1>1. /\ a \in Seq(S) /\ DOMAIN a = 1..(Len(s) - 1) /\ DOMAIN s = 1..Len(s)
      /\ Len(s) \in Nat /\ Len(s) # 0 /\ s[Len(s)] \in S
      /\ \A i \in DOMAIN a : a[i] = s[i]
  OBVIOUS
<1> HIDE DEF a
<1>2. \A i \in DOMAIN s : i = Len(s) \/ i \in DOMAIN a
  BY <1>1
<1>3. \A i \in DOMAIN a : i \in DOMAIN s /\ i # Len(s)
  BY <1>1
<1>4. Len(s) \in DOMAIN s
  BY <1>1
<1>5. In(e, s) <=> In(e, a) \/ e = s[Len(s)]
  BY <1>1, <1>2, <1>3, <1>4 DEF In
<1>6. ASSUME OnceIn(e, s)
      PROVE  OnceIn(e, a) /\ (e = s[Len(s)] => ~In(e, a))
  BY <1>1, <1>3, <1>4, <1>6 DEF In, OnceIn
<1> QED
  BY <1>1, <1>5, <1>6 DEF a

-----------------------------------------------------------------------------
Phases == {"none", "first", "join", "half", "done"}
Frames == {Query(q) : q \in Queries} \cup {Half(q) : q \in Queries}

LaneType ==
    /\ pc \in [Queries -> Steps] /\ phase \in [Queries -> Phases]
    /\ injected \in Seq(Queries)
    /\ stack \in [Workers -> Seq(Frames)]
    /\ deque \in [Workers -> Seq(Queries)]

\* The half of a scan is in one place at most.
HalfOnce(q) ==
    /\ \A w \in Workers : OnceIn(q, deque[w]) /\ OnceIn(Half(q), stack[w])
    /\ \A w, v \in Workers :
          /\ In(q, deque[w]) /\ In(q, deque[v]) => w = v
          /\ In(Half(q), stack[w]) /\ In(Half(q), stack[v]) => w = v
          /\ ~(In(q, deque[w]) /\ In(Half(q), stack[v]))

\* It is somewhere only before the join has seen it done, and the query is in
\* its scan until then.
HalfInv(q) ==
    /\ HalfOnce(q)
    /\ phase[q] \in {"none", "half", "done"} =>
          \A w \in Workers : ~In(q, deque[w]) /\ ~In(Half(q), stack[w])
    /\ phase[q] \in {"first", "join", "half"} => pc[q] = "scan"

LaneInv == LaneType /\ \A q \in Queries : HalfInv(q)

LEMMA FrameFacts ==
    /\ \A q \in Queries : Query(q) \in Frames /\ Half(q) \in Frames
    /\ \A p, q \in Queries : Half(p) = Half(q) => p = q
    /\ \A p, q : Half(p) # Query(q)
BY ZenonT(60) DEF Frames, Half, Query

\* A step of scan() on the lane moves no half.
LEMMA LaneStepKeeps ==
    ASSUME LaneInv, NEW w \in Workers, NEW q \in Queries, LaneStep(w, q) \/ Joined(w, q)
    PROVE  LaneInv'
<1>1. /\ UNCHANGED poolVars
      /\ \/ pc' = pc
         \/ \E s \in Steps : pc' = [pc EXCEPT ![q] = s] /\ (pc[q] # "scan" \/ phase[q] = "done")
  BY ZenonT(60) DEF LaneStep, Joined, Enqueue, RecvDone, RecvScan, Drain, Scan, SendDone, HandOff, RecvOwn, Steps
<1>2. LaneType'
  BY <1>1, ZenonT(60) DEF LaneInv, LaneType, poolVars
<1>3. ASSUME NEW p \in Queries
      PROVE  HalfInv(p)'
  <2>1. HalfOnce(p)' /\ (phase[p] \in {"none", "half", "done"} =>
          \A v \in Workers : ~In(p, deque[v]) /\ ~In(Half(p), stack[v]))'
    BY <1>1 DEF LaneInv, HalfInv, HalfOnce, poolVars
  <2>2. (phase[p] \in {"first", "join", "half"} => pc[p] = "scan")'
    BY <1>1 DEF LaneInv, LaneType, HalfInv, poolVars
  <2> QED
    BY <2>1, <2>2 DEF HalfInv
<1> QED
  BY <1>2, <1>3 DEF LaneInv

\* Steps that move only the whole queries, or only the phase.
LEMMA InstallKeeps ==
    ASSUME LaneInv, NEW q \in Queries, Install(q)
    PROVE  LaneInv'
<1>1. injected' = Append(injected, q) /\ UNCHANGED <<pc, stack, deque, phase>>
  BY DEF Install, vars
<1>2. LaneType'
  BY <1>1 DEF LaneInv, LaneType
<1> QED
  BY <1>1, <1>2 DEF LaneInv, HalfInv, HalfOnce

LEMMA FirstHalfKeeps ==
    ASSUME LaneInv, NEW w \in Workers, NEW q \in Queries,
           FirstHalfDone(w, q) \/ FirstHalfLast(w, q)
    PROVE  LaneInv'
<1>1. /\ UNCHANGED <<pc, injected, stack, deque>>
      /\ \/ phase[q] = "first" /\ phase' = [phase EXCEPT ![q] = "join"]
         \/ phase[q] = "half" /\ phase' = [phase EXCEPT ![q] = "done"]
  BY DEF FirstHalfDone, FirstHalfLast, vars
<1>2. LaneType'
  BY <1>1, ZenonT(60) DEF LaneInv, LaneType, Phases
<1>3. ASSUME NEW p \in Queries
      PROVE  HalfInv(p)'
  BY <1>1 DEF LaneInv, LaneType, HalfInv, HalfOnce
<1> QED
  BY <1>2, <1>3 DEF LaneInv

\* A worker begins or ends a whole query.
LEMMA QueryFrameKeeps ==
    ASSUME LaneInv, NEW w \in Workers,
           (\E q \in Queries : Return(w, q)) \/ TakeInjected(w)
    PROVE  LaneInv'
<1>0. stack[w] \in Seq(Frames) /\ injected \in Seq(Queries)
  BY DEF LaneInv, LaneType
<1>1. PICK s \in Seq(Frames) :
          /\ stack' = [stack EXCEPT ![w] = s]
          /\ \A p \in Queries : /\ In(Half(p), s) <=> In(Half(p), stack[w])
                                /\ OnceIn(Half(p), stack[w]) => OnceIn(Half(p), s)
  <2>1. CASE \E q \in Queries : Return(w, q)
    <3>1. PICK q \in Queries : Return(w, q)
      BY <2>1
    <3>2. stack[w] # <<>> /\ Head(stack[w]) = Query(q) /\ stack' = [stack EXCEPT ![w] = Tail(stack[w])]
      BY <3>1 DEF Return, Runs
    <3>3. Tail(stack[w]) \in Seq(Frames)
      BY <1>0, <3>2
    <3>4. ASSUME NEW p \in Queries
          PROVE  /\ In(Half(p), Tail(stack[w])) <=> In(Half(p), stack[w])
                 /\ OnceIn(Half(p), stack[w]) => OnceIn(Half(p), Tail(stack[w]))
      BY <1>0, <3>2, FrameFacts, TailElements
    <3> QED
      BY <3>2, <3>3, <3>4, ZenonT(60)
  <2>2. CASE TakeInjected(w)
    <3> DEFINE f == Query(Head(injected))
    <3>1. f \in Frames /\ stack' = [stack EXCEPT ![w] = <<f>> \o stack[w]]
      BY <1>0, <2>2, FrameFacts DEF TakeInjected, Execute
    <3>2. \A p : Half(p) # f
      BY FrameFacts
    <3> HIDE DEF f
    <3>3. <<f>> \o stack[w] \in Seq(Frames)
      BY <1>0, <3>1
    <3>4. ASSUME NEW p \in Queries
          PROVE  /\ In(Half(p), <<f>> \o stack[w]) <=> In(Half(p), stack[w])
                 /\ OnceIn(Half(p), stack[w]) => OnceIn(Half(p), <<f>> \o stack[w])
      BY <1>0, <3>1, <3>2, ConsElements
    <3> QED
      BY <3>1, <3>3, <3>4, ZenonT(60)
  <2> QED
    BY <2>1, <2>2
<1>2. UNCHANGED <<pc, deque, phase>> /\ injected' \in Seq(Queries)
  <2>1. CASE \E q \in Queries : Return(w, q)
    BY <1>0, <2>1, ZenonT(60) DEF Return, vars
  <2>2. CASE TakeInjected(w)
    BY <1>0, <2>2 DEF TakeInjected, vars
  <2> QED
    BY <2>1, <2>2
<1>3. LaneType'
  BY <1>1, <1>2, ZenonT(60) DEF LaneInv, LaneType
<1>4. ASSUME NEW p \in Queries
      PROVE  HalfInv(p)'
  <2>1. \A v \in Workers : /\ In(Half(p), stack'[v]) <=> In(Half(p), stack[v])
                           /\ OnceIn(Half(p), stack[v]) => OnceIn(Half(p), stack'[v])
    BY <1>1 DEF LaneInv, LaneType
  <2> QED
    BY <1>2, <2>1 DEF LaneInv, HalfInv, HalfOnce
<1> QED
  BY <1>3, <1>4 DEF LaneInv

\* join_context offers the half of a scan: it is in the worker's deque.
LEMMA SplitKeeps ==
    ASSUME LaneInv, NEW w \in Workers, NEW q \in Queries, Split(w, q)
    PROVE  LaneInv'
<1> DEFINE d == Append(deque[w], q)
<1>0. deque[w] \in Seq(Queries)
  BY DEF LaneInv, LaneType
<1>1. /\ pc[q] = "scan" /\ phase[q] = "none" /\ deque' = [deque EXCEPT ![w] = d]
      /\ phase' = [phase EXCEPT ![q] = "first"] /\ UNCHANGED <<pc, injected, stack>>
  BY DEF Split, vars
<1>2. /\ d \in Seq(Queries)
      /\ \A p \in Queries : /\ In(p, d) <=> In(p, deque[w]) \/ p = q
                            /\ OnceIn(p, deque[w]) /\ (p = q => ~In(p, deque[w])) => OnceIn(p, d)
  BY <1>0, AppendElements
<1> HIDE DEF d
<1>3. LaneType'
  BY <1>1, <1>2 DEF LaneInv, LaneType, Phases
<1>4. ASSUME NEW p \in Queries
      PROVE  HalfInv(p)'
  <2>1. \A v \in Workers : deque'[v] = IF v = w THEN d ELSE deque[v]
    BY <1>1 DEF LaneInv, LaneType
  <2>2. CASE p = q
    <3>1. phase'[p] = "first" /\ pc'[p] = "scan"
      BY <1>1, <2>2 DEF LaneInv, LaneType
    <3>2. \A v \in Workers : ~In(p, deque[v]) /\ ~In(Half(p), stack[v])
      BY <1>1, <2>2, ZenonT(60) DEF LaneInv, HalfInv
    <3>3. HalfOnce(p)'
      BY <1>1, <1>2, <2>1, <2>2, <3>2 DEF LaneInv, HalfInv, HalfOnce
    <3> QED
      BY <3>1, <3>3 DEF HalfInv
  <2>3. CASE p # q
    <3>1. \A v \in Workers : /\ In(p, deque'[v]) <=> In(p, deque[v])
                             /\ OnceIn(p, deque[v]) => OnceIn(p, deque'[v])
      BY <1>2, <2>1, <2>3
    <3>2. phase'[p] = phase[p]
      BY <1>1, <2>3 DEF LaneInv, LaneType
    <3> QED
      BY <1>1, <3>1, <3>2, ZenonT(60) DEF LaneInv, HalfInv, HalfOnce
  <2> QED
    BY <2>2, <2>3
<1> QED
  BY <1>3, <1>4 DEF LaneInv

\* The half was executed: it is nowhere any more.
LEMMA HalfDoneKeeps ==
    ASSUME LaneInv, NEW w \in Workers, NEW q \in Queries, HalfDone(w, q)
    PROVE  LaneInv'
<1> DEFINE s == Tail(stack[w])
<1>0. stack[w] \in Seq(Frames)
  BY DEF LaneInv, LaneType
<1>1. /\ stack[w] # <<>> /\ Head(stack[w]) = Half(q) /\ stack' = [stack EXCEPT ![w] = s]
      /\ \E x \in {"done", "half"} : phase' = [phase EXCEPT ![q] = x]
      /\ UNCHANGED <<pc, injected, deque>>
  BY ZenonT(60) DEF HalfDone, Runs, vars
<1>2. /\ s \in Seq(Frames)
      /\ \A p \in Queries :
            /\ In(Half(p), stack[w]) <=> In(Half(p), s) \/ Half(p) = Half(q)
            /\ OnceIn(Half(p), stack[w]) => OnceIn(Half(p), s)
            /\ OnceIn(Half(p), stack[w]) /\ Half(p) = Half(q) => ~In(Half(p), s)
  BY <1>0, <1>1, TailElements
<1> HIDE DEF s
<1>3. LaneType'
  BY <1>1, <1>2 DEF LaneInv, LaneType, Phases
<1>5. \A v \in Workers : stack'[v] = IF v = w THEN s ELSE stack[v]
  BY <1>1 DEF LaneInv, LaneType
<1>4. ASSUME NEW p \in Queries
      PROVE  HalfInv(p)'
  <2>2. CASE p = q
    <3>1. In(Half(p), stack[w])
      BY <1>2, <2>2
    <3>2. pc[p] = "scan" /\ phase'[p] \in {"done", "half"}
      BY <1>1, <2>2, <3>1, ZenonT(60) DEF LaneInv, LaneType, HalfInv, Phases
    <3>3. \A v \in Workers : ~In(p, deque'[v]) /\ ~In(Half(p), stack'[v])
      BY <1>1, <1>2, <1>5, <2>2, <3>1 DEF LaneInv, HalfInv, HalfOnce
    <3>4. \A v \in Workers : OnceIn(p, deque'[v]) /\ OnceIn(Half(p), stack'[v])
      BY <1>1, <1>2, <1>5, ZenonT(60) DEF LaneInv, HalfInv, HalfOnce
    <3> QED
      BY <1>1, <3>2, <3>3, <3>4 DEF HalfInv, HalfOnce
  <2>3. CASE p # q
    <3>1. \A v \in Workers : /\ In(Half(p), stack'[v]) <=> In(Half(p), stack[v])
                             /\ OnceIn(Half(p), stack[v]) => OnceIn(Half(p), stack'[v])
      BY <1>2, <1>5, <2>3, FrameFacts
    <3>2. phase'[p] = phase[p]
      BY <1>1, <2>3 DEF LaneInv, LaneType
    <3> QED
      BY <1>1, <3>1, <3>2, ZenonT(60) DEF LaneInv, HalfInv, HalfOnce
  <2> QED
    BY <2>2, <2>3
<1> QED
  BY <1>3, <1>4 DEF LaneInv

\* A worker takes a half from a deque, its own or another's: the half is on
\* the worker's stack instead.
LEMMA MoveKeeps ==
    ASSUME LaneInv, NEW w \in Workers, NEW v \in Workers, NEW q \in Queries,
           NEW d \in Seq(Queries),
           \A p \in Queries : /\ In(p, deque[v]) <=> In(p, d) \/ p = q
                              /\ OnceIn(p, deque[v]) => OnceIn(p, d)
                              /\ OnceIn(p, deque[v]) /\ p = q => ~In(p, d),
           Execute(w, Half(q)), deque' = [deque EXCEPT ![v] = d],
           UNCHANGED <<pc, injected, phase>>
    PROVE  LaneInv'
<1> DEFINE s == <<Half(q)>> \o stack[w]
<1>0. stack[w] \in Seq(Frames) /\ Half(q) \in Frames
  BY FrameFacts DEF LaneInv, LaneType
<1>1. stack' = [stack EXCEPT ![w] = s]
  BY ZenonT(60) DEF Execute
<1>2. /\ s \in Seq(Frames)
      /\ \A p \in Queries :
            /\ In(Half(p), s) <=> In(Half(p), stack[w]) \/ Half(p) = Half(q)
            /\ OnceIn(Half(p), stack[w]) /\ (Half(p) = Half(q) => ~In(Half(p), stack[w]))
                 => OnceIn(Half(p), s)
  BY <1>0, ConsElements
<1> HIDE DEF s
<1>3. LaneType'
  BY <1>1, <1>2 DEF LaneInv, LaneType
<1>4. \A u \in Workers : /\ stack'[u] = IF u = w THEN s ELSE stack[u]
                         /\ deque'[u] = IF u = v THEN d ELSE deque[u]
  BY <1>1 DEF LaneInv, LaneType
<1>5. ASSUME NEW p \in Queries
      PROVE  HalfInv(p)'
  <2>1. HalfInv(p)
    BY ZenonT(60) DEF LaneInv
  <2>2. CASE p = q
    <3>1. In(p, deque[v])
      BY <2>2, ZenonT(60)
    <3>2. \A u \in Workers : /\ ~In(Half(p), stack[u])
                             /\ In(p, deque[u]) => u = v
      BY <2>1, <3>1, ZenonT(60) DEF HalfInv, HalfOnce
    <3>3. phase[p] \in {"first", "join"} /\ pc[p] = "scan"
      BY <2>1, <3>1, ZenonT(60) DEF HalfInv, LaneInv, LaneType, Phases
    <3>4. \A u \in Workers : OnceIn(p, deque[u]) /\ OnceIn(Half(p), stack[u])
      BY <2>1, ZenonT(60) DEF HalfInv, HalfOnce
    <3>5. \A u \in Workers : /\ ~In(p, deque'[u]) /\ OnceIn(p, deque'[u])
                             /\ OnceIn(Half(p), stack'[u])
                             /\ In(Half(p), stack'[u]) => u = w
      BY <1>2, <1>4, <2>2, <3>2, <3>4, ZenonT(60)
    <3> QED
      BY <3>3, <3>5 DEF HalfInv, HalfOnce
  <2>3. CASE p # q
    <3>1. \A u \in Workers : /\ In(Half(p), stack'[u]) <=> In(Half(p), stack[u])
                             /\ OnceIn(Half(p), stack[u]) => OnceIn(Half(p), stack'[u])
      BY <1>2, <1>4, <2>3, FrameFacts, ZenonT(60)
    <3>2. \A u \in Workers : /\ In(p, deque'[u]) <=> In(p, deque[u])
                             /\ OnceIn(p, deque[u]) => OnceIn(p, deque'[u])
      BY <1>4, <2>3
    <3> QED
      BY <2>1, <3>1, <3>2, ZenonT(60) DEF HalfInv, HalfOnce
  <2> QED
    BY <2>2, <2>3
<1> QED
  BY <1>3, <1>5 DEF LaneInv

LEMMA TakeKeeps ==
    ASSUME LaneInv, NEW w \in Workers,
           TakeLocal(w) \/ \E v \in Workers \ {w} : Steal(w, v)
    PROVE  LaneInv'
<1>1. CASE TakeLocal(w)
  <2> DEFINE q == deque[w][Len(deque[w])]
             d == SubSeq(deque[w], 1, Len(deque[w]) - 1)
  <2>1. deque[w] \in Seq(Queries) /\ deque[w] # <<>>
    BY <1>1 DEF LaneInv, LaneType, TakeLocal
  <2>2. q \in Queries /\ d \in Seq(Queries)
    BY <2>1
  <2>3. \A p \in Queries : /\ In(p, deque[w]) <=> In(p, d) \/ p = q
                           /\ OnceIn(p, deque[w]) => OnceIn(p, d)
                           /\ OnceIn(p, deque[w]) /\ p = q => ~In(p, d)
    BY <2>1, FrontElements
  <2>4. /\ Execute(w, Half(q)) /\ deque' = [deque EXCEPT ![w] = d]
        /\ UNCHANGED <<pc, injected, phase>>
    BY <1>1 DEF TakeLocal, vars
  <2> HIDE DEF q, d
  <2> QED
    BY <2>2, <2>3, <2>4, MoveKeeps, ZenonT(60)
<1>2. ASSUME NEW v \in Workers, Steal(w, v)
      PROVE  LaneInv'
  <2> DEFINE q == Head(deque[v])
             d == Tail(deque[v])
  <2>1. deque[v] \in Seq(Queries) /\ deque[v] # <<>>
    BY <1>2 DEF LaneInv, LaneType, Steal
  <2>2. q \in Queries /\ d \in Seq(Queries)
    BY <2>1
  <2>3. \A p \in Queries : /\ In(p, deque[v]) <=> In(p, d) \/ p = q
                           /\ OnceIn(p, deque[v]) => OnceIn(p, d)
                           /\ OnceIn(p, deque[v]) /\ p = q => ~In(p, d)
    BY <2>1, TailElements
  <2>4. /\ Execute(w, Half(q)) /\ deque' = [deque EXCEPT ![v] = d]
        /\ UNCHANGED <<pc, injected, phase>>
    BY <1>2 DEF Steal, vars
  <2> HIDE DEF q, d
  <2> QED
    BY <2>2, <2>3, <2>4, MoveKeeps, ZenonT(60)
<1> QED
  BY <1>1, <1>2

LEMMA InitLaneInv == LaneInit => LaneInv
<1> SUFFICES ASSUME LaneInit
             PROVE  LaneInv
  OBVIOUS
<1>1. LaneType
  BY DEF LaneInit, Init, LaneType, Phases, Steps
<1>2. \A e : OnceIn(e, <<>>) /\ ~In(e, <<>>)
  BY DEF OnceIn, In
<1> QED
  BY <1>1, <1>2 DEF LaneInit, LaneInv, HalfInv, HalfOnce

\* However the workers of the free lane split, steal and nest scans, an answer
\* is sent only when no piece of the scan is left: what scan_jobs returns is
\* complete for every number of workers and queries.
THEOREM LaneSendsWholeScans == LaneSpec => []SentFromWholeScan
<1>1. LaneInv /\ [LaneNext]_laneVars => LaneInv'
  <2> SUFFICES ASSUME LaneInv, [LaneNext]_laneVars
               PROVE  LaneInv'
    OBVIOUS
  <2>1. CASE UNCHANGED laneVars
    BY <2>1 DEF laneVars, poolVars, vars, LaneInv, LaneType, HalfInv, HalfOnce
  <2>2. CASE \E q \in Queries : Install(q)
    BY <2>2, InstallKeeps
  <2>3. ASSUME NEW w \in Workers, WorkerStep(w)
        PROVE  LaneInv'
    BY <2>3, LaneStepKeeps, QueryFrameKeeps, SplitKeeps, FirstHalfKeeps, HalfDoneKeeps, TakeKeeps, ZenonT(60)
       DEF WorkerStep
  <2> QED
    BY <2>1, <2>2, <2>3, ZenonT(60) DEF LaneNext
<1>2. LaneInv => SentFromWholeScan
  <2> SUFFICES ASSUME LaneInv, NEW q \in Queries, pc[q] \in {"send", "own", "returned"}
               PROVE  ~Outstanding(q)
    BY DEF SentFromWholeScan
  <2>1. phase[q] \in {"none", "done"}
    BY ZenonT(60) DEF LaneInv, LaneType, HalfInv, Phases
  <2> QED
    BY <2>1 DEF LaneInv, HalfInv, Outstanding, In
<1> QED
  BY <1>1, <1>2, InitLaneInv, PTL DEF LaneSpec

\* What the pool adds are stutters of ScanBatch: whatever is proved of scan()
\* for threads of their own holds when workers of the free lane run it.
THEOREM LaneRunsScan == LaneSpec => Spec
<1>1. LaneInit => Init
  BY DEF LaneInit
<1>2. [LaneNext]_laneVars => [Next]_vars
  <2> SUFFICES ASSUME [LaneNext]_laneVars
               PROVE  [Next]_vars
    OBVIOUS
  <2>1. CASE UNCHANGED laneVars
    BY <2>1 DEF laneVars
  <2>2. ASSUME NEW q \in Queries, Install(q)
        PROVE  UNCHANGED vars
    BY <2>2 DEF Install
  <2>3. ASSUME NEW w \in Workers, WorkerStep(w)
        PROVE  UNCHANGED vars \/ Next
    BY <2>3 DEF WorkerStep, LaneStep, Return, Split, FirstHalfDone, HalfDone, FirstHalfLast, Joined,
                TakeLocal, TakeInjected, Steal, Next, Step
  <2> QED
    BY <2>1, <2>2, <2>3 DEF LaneNext
<1> QED
  BY <1>1, <1>2, PTL DEF LaneSpec, Spec

\* scan() on the free lane: one scan role, no lost job and no aborted call,
\* as on threads of their own.
THEOREM LaneScanIsSafe == LaneSpec => []ScanSafe
BY LaneRunsScan, ScanIsSafe, PTL

=============================================================================
