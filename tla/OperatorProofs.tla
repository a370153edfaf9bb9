--------------------------- MODULE OperatorProofs ---------------------------
(***************************************************************************)
(* What an operator's tools promise.  The rollback floors of the           *)
(* directory, for any number of tabs and any signed events; and building   *)
(* and reading one group's cuckoo table, for any number of items, bins,    *)
(* slots, hash functions and rounds, and any hash functions.               *)
(***************************************************************************)
EXTENDS CuckooTable, DirectoryFloors, TLAPS

-----------------------------------------------------------------------------
(* The rollback floors.                                                    *)

\* The provers, in the order a leaf that names none tries them.
USE SMTT(60), ZenonT(60)

Number(e) == IF e.kind = "entry" THEN e.seq ELSE e.epoch

\* s is a floor that event e leaves.
FloorOf(s, e) ==
    /\ s.seq = Number(e) /\ s.id = e.id /\ s.at = e.at
    /\ e.kind = "entry" =>
          /\ s.status = e.status /\ s.op \in Nat /\ (s.op = 0) = (s.digest = 0)
          /\ e.status = "Active" => s.op = e.op /\ s.digest = e.digest
    /\ e.kind = "checkpoint" => s.root = CatalogRoot(e) /\ "op" \notin DOMAIN s

Cur(cur, k) == cur = <<>> \/ \E s : cur = <<s>> /\ \E e \in Events : e.kind = k /\ FloorOf(s, e)

\* s follows the floor p by event e.
Rises(s, p, e) ==
    /\ s.seq > p.seq
    /\ e.kind = "entry" =>
          /\ s.op >= p.op /\ (s.op = p.op => s.digest = p.digest)
          /\ e.status = "Active" /\ p.status = "Tombstone" => s.op > p.op

LEMMA EventFacts ==
    ASSUME EventsAssumption, NEW e \in Events
    PROVE  /\ e.kind \in FloorKeys /\ Number(e) \in Nat \ {0} /\ e.at \in Nat \ {0}
           /\ e.kind = "entry" => /\ e.op \in Nat /\ e.status \in {"Active", "Tombstone"}
                                  /\ (e.op = 0) = (e.digest = 0)
                                  /\ e.status = "Active" => e.op > 0
                                  /\ e.status = "Tombstone" => e.op = 0
BY DEF EventsAssumption, FloorKeys, Number

LEMMA FloorFacts ==
    ASSUME EventsAssumption, NEW e \in Events, NEW s, FloorOf(s, e)
    PROVE  s.seq \in Nat /\ FloorValid(s)
<1>1. CASE e.kind = "entry"
  BY <1>1, EventFacts DEF FloorOf, FloorValid
<1>2. CASE e.kind = "checkpoint"
  BY <1>2, EventFacts DEF FloorOf, FloorValid
<1> QED
  BY <1>1, <1>2, EventFacts DEF FloorKeys

\* The floor an event leaves: its own, the same one again when the event was
\* there already, and otherwise a higher one.
LEMMA PrepareFacts ==
    ASSUME EventsAssumption, NEW e \in Events, NEW cur, Cur(cur, e.kind), NEW s \in Prepare(e, cur)
    PROVE  /\ FloorOf(s, e)
           /\ cur # <<>> => cur = <<s>> \/ Rises(s, cur[1], e)
<1>1. CASE cur = <<>>
  <2>1. CASE e.kind = "entry"
    <3>1. s = EntryState(e, cur)
      BY <1>1, <2>1 DEF Prepare, PrepareEntry
    <3> QED
      BY <1>1, <2>1, <3>1, EventFacts DEF EntryState, FloorOf, Number
  <2>2. CASE e.kind = "checkpoint"
    <3>1. s = CheckpointState(e)
      BY <1>1, <2>2 DEF Prepare, PrepareCheckpoint
    <3> QED
      BY <1>1, <2>2, <3>1, EventFacts DEF CheckpointState, FloorOf, Number
  <2> QED
    BY <2>1, <2>2, EventFacts DEF FloorKeys
<1>2. ASSUME NEW p, cur = <<p>>, NEW f \in Events, f.kind = e.kind, FloorOf(p, f)
      PROVE  FloorOf(s, e) /\ (cur = <<s>> \/ Rises(s, cur[1], e))
  <2>0. cur[1] = p /\ cur # <<>>
    BY <1>2
  <2>1. CASE e.kind = "entry"
    <3>1. CASE EntryReplays(e, p)
      <4>1. s = p
        BY <2>0, <2>1, <3>1 DEF Prepare, PrepareEntry
      <4>2. e = f
        BY <1>2, <3>1 DEF EntryReplays, FloorOf, EventsAssumption
      <4> QED
        BY <1>2, <4>1, <4>2
    <3>2. CASE ~EntryReplays(e, p)
      <4>1. s = EntryState(e, cur) /\ EntryAdvances(e, p)
        BY <2>0, <2>1, <3>2 DEF Prepare, PrepareEntry
      <4>2. p.op \in Nat /\ (p.op = 0) = (p.digest = 0) /\ p.seq \in Nat
        BY <1>2, <2>1, EventFacts DEF FloorOf
      <4>3. CASE e.status = "Tombstone"
        <5>1. s = [seq |-> e.seq, id |-> e.id, at |-> e.at, status |-> e.status, op |-> p.op, digest |-> p.digest]
          BY <2>0, <4>1, <4>3 DEF EntryState
        <5> QED
          BY <2>0, <2>1, <4>1, <4>2, <4>3, <5>1 DEF FloorOf, Number, Rises, EntryAdvances
      <4>4. CASE e.status = "Active"
        <5>1. s = [seq |-> e.seq, id |-> e.id, at |-> e.at, status |-> e.status, op |-> e.op, digest |-> e.digest]
          BY <2>0, <4>1, <4>4 DEF EntryState
        <5>2. e.op \in Nat /\ (e.op = 0) = (e.digest = 0)
          BY <2>1, EventFacts
        <5>3. FloorOf(s, e)
          BY <2>1, <5>1, <5>2 DEF FloorOf, Number
        <5>4. Rises(s, p, e)
          BY <2>1, <4>1, <4>4, <5>1 DEF Rises, EntryAdvances, OperatorMayFollow
        <5> QED
          BY <2>0, <5>3, <5>4
      <4> QED
        BY <2>1, <4>3, <4>4, EventFacts
    <3> QED
      BY <3>1, <3>2
  <2>2. CASE e.kind = "checkpoint"
    <3>1. CASE CheckpointReplays(e, p)
      <4>1. s = p
        BY <2>0, <2>2, <3>1 DEF Prepare, PrepareCheckpoint
      <4>2. e = f
        BY <1>2, <3>1 DEF CheckpointReplays, FloorOf, EventsAssumption
      <4> QED
        BY <1>2, <4>1, <4>2
    <3>2. CASE ~CheckpointReplays(e, p)
      <4>1. s = CheckpointState(e) /\ e.epoch > p.seq
        BY <2>0, <2>2, <3>2 DEF Prepare, PrepareCheckpoint
      <4> QED
        BY <2>0, <2>2, <4>1 DEF CheckpointState, FloorOf, Number, Rises
    <3> QED
      BY <3>1, <3>2
  <2> QED
    BY <2>1, <2>2, EventFacts DEF FloorKeys
<1> QED
  BY <1>1, <1>2 DEF Cur

-----------------------------------------------------------------------------
(* The floors st and the accepted events acc.                              *)

Below(st, e) ==
    /\ st[e.kind] # <<>>
    /\ Number(e) <= st[e.kind][1].seq
    /\ Number(e) = st[e.kind][1].seq => e.id = st[e.kind][1].id
    /\ e.kind = "entry" /\ e.status = "Active" =>
          /\ e.op <= st[e.kind][1].op
          /\ e.op = st[e.kind][1].op => e.digest = st[e.kind][1].digest

Apart(e, f) ==
    /\ e.kind = f.kind /\ Number(e) = Number(f) => e = f
    /\ (e.kind = "entry" /\ f.kind = "entry" /\ e.op > 0 /\ e.op = f.op) => e.digest = f.digest

\* Of two entries the second removed the provider of the first.
Removed(old, gone) ==
    /\ old.kind = "entry" /\ gone.kind = "entry"
    /\ old.status = "Active" /\ gone.status = "Tombstone" /\ old.seq < gone.seq

Newer(acc) ==
    \A old, gone, back \in acc :
        Removed(old, gone) /\ back.kind = "entry" /\ back.status = "Active" /\ gone.seq < back.seq
            => back.op > old.op

\* The floor may be of an event that no call returned: it too is newer.
FloorNewer(st, acc) ==
    st["entry"] # <<>> /\ st["entry"][1].status = "Active" =>
        \A old, gone \in acc :
            Removed(old, gone) /\ gone.seq < st["entry"][1].seq => st["entry"][1].op > old.op

History(st, acc) ==
    /\ DOMAIN st = FloorKeys /\ \A k \in FloorKeys : Cur(st[k], k)
    /\ acc \subseteq Events
    /\ \A e \in acc : Below(st, e)
    /\ \A e, f \in acc : Apart(e, f)
    /\ Newer(acc)
    /\ FloorNewer(st, acc)

Moved(st, k, s) == [st EXCEPT ![k] = <<s>>]

\* A floor that moves keeps what was accepted before below it.
LEMMA MoveKeeps ==
    ASSUME EventsAssumption, NEW st, NEW acc, History(st, acc), NEW e \in Events,
           NEW s \in Prepare(e, st[e.kind])
    PROVE  History(Moved(st, e.kind, s), acc)
<1> DEFINE st2 == Moved(st, e.kind, s)
<1>0. e.kind \in FloorKeys /\ Cur(st[e.kind], e.kind) /\ DOMAIN st = FloorKeys
  BY EventFacts DEF History
<1>1. /\ FloorOf(s, e)
      /\ st[e.kind] # <<>> => st[e.kind] = <<s>> \/ Rises(s, st[e.kind][1], e)
  BY <1>0, PrepareFacts
<1>2. /\ DOMAIN st2 = FloorKeys /\ st2[e.kind] = <<s>>
      /\ \A k \in FloorKeys : k # e.kind => st2[k] = st[k]
  BY <1>0 DEF Moved
<1> SUFFICES History(st2, acc)
  OBVIOUS
<1> HIDE DEF st2
<1>3. Cur(<<s>>, e.kind)
  BY <1>1 DEF Cur
<1>4. \A k \in FloorKeys : Cur(st2[k], k)
  BY <1>2, <1>3 DEF History
<1>5. CASE st[e.kind] = <<s>>
  <2>1. \A k \in FloorKeys : st2[k] = st[k]
    BY <1>2, <1>5
  <2>2. \A f \in acc : Below(st2, f)
    BY <2>1, EventFacts DEF History, Below
  <2>3. FloorNewer(st2, acc)
    BY <2>1 DEF History, FloorNewer, FloorKeys
  <2> QED
    BY <1>1, <1>2, <1>4, <2>2, <2>3 DEF History
<1>6. CASE st[e.kind] = <<>>
  <2>1. \A f \in acc : f.kind # e.kind /\ f.kind \in FloorKeys
    BY <1>6, EventFacts DEF History, Below
  <2>2. \A f \in acc : Below(st2, f)
    BY <1>2, <2>1 DEF History, Below
  <2>3. FloorNewer(st2, acc)
    BY <1>2, <2>1 DEF History, FloorNewer, Removed, FloorKeys
  <2> QED
    BY <1>1, <1>2, <1>4, <2>2, <2>3 DEF History
<1>7. ASSUME NEW p, st[e.kind] = <<p>>, NEW g \in Events, g.kind = e.kind, FloorOf(p, g),
             Rises(s, p, e)
      PROVE  History(st2, acc)
  <2>0. /\ st[e.kind][1] = p /\ st[e.kind] # <<>> /\ st2[e.kind][1] = s /\ st2[e.kind] # <<>>
        /\ p.seq \in Nat /\ s.seq \in Nat
    BY <1>1, <1>2, <1>7, FloorFacts
  <2>1. \A f \in acc : Below(st2, f)
    <3> SUFFICES ASSUME NEW f \in acc
                 PROVE  Below(st2, f)
      OBVIOUS
    <3>0. Below(st, f) /\ f \in Events /\ f.kind \in FloorKeys /\ Number(f) \in Nat
      BY EventFacts DEF History
    <3>1. CASE f.kind # e.kind
      BY <1>2, <3>0, <3>1 DEF Below
    <3>2. CASE f.kind = e.kind
      <4>1. Number(f) < s.seq
        BY <1>7, <2>0, <3>0, <3>2 DEF Below, Rises
      <4>2. ASSUME f.kind = "entry", f.status = "Active"
            PROVE  f.op <= s.op /\ (f.op = s.op => f.digest = s.digest)
        <5>1. f.op <= p.op /\ (f.op = p.op => f.digest = p.digest)
          BY <2>0, <3>0, <3>2, <4>2 DEF Below
        <5>2. s.op >= p.op /\ (s.op = p.op => s.digest = p.digest)
          BY <1>7, <3>2, <4>2 DEF Rises
        <5>3. f.op \in Nat /\ s.op \in Nat /\ p.op \in Nat
          BY <1>1, <1>7, <3>0, <3>2, <4>2, EventFacts DEF FloorOf
        <5> QED
          BY <5>1, <5>2, <5>3
      <4> QED
        BY <2>0, <3>0, <3>2, <4>1, <4>2 DEF Below
    <3> QED
      BY <3>1, <3>2
  <2>2. FloorNewer(st2, acc)
    <3>1. CASE e.kind # "entry"
      BY <1>2, <3>1 DEF History, FloorNewer, FloorKeys
    <3>2. CASE e.kind = "entry"
      <4> SUFFICES ASSUME s.status = "Active", NEW old \in acc, NEW gone \in acc,
                          Removed(old, gone), gone.seq < s.seq
                   PROVE  s.op > old.op
        BY <1>2, <2>0, <3>2 DEF FloorNewer
      <4>1. /\ old \in Events /\ gone \in Events /\ Below(st, old) /\ Below(st, gone)
            /\ old.op \in Nat /\ s.op \in Nat /\ p.op \in Nat /\ gone.seq \in Nat
        BY <1>1, <1>7, <3>2, EventFacts DEF History, Removed, FloorOf, Number
      <4>2. old.op <= p.op /\ s.op >= p.op
        BY <1>7, <2>0, <3>2, <4>1 DEF Below, Removed, Rises
      <4>3. CASE p.status = "Tombstone"
        <5>1. s.op > p.op
          BY <1>1, <1>7, <3>2, <4>3 DEF Rises, FloorOf
        <5> QED
          BY <4>1, <4>2, <5>1
      <4>4. CASE p.status = "Active"
        <5>1. gone.seq <= p.seq /\ (gone.seq = p.seq => gone.id = p.id)
          BY <2>0, <3>2, <4>1 DEF Below, Removed, Number
        <5>2. gone.seq # p.seq
          <6> SUFFICES ASSUME gone.seq = p.seq
                       PROVE  FALSE
            OBVIOUS
          <6>1. gone = g
            BY <1>7, <4>1, <5>1 DEF FloorOf, EventsAssumption
          <6> QED
            BY <1>7, <3>2, <4>4, <6>1 DEF FloorOf, Removed
        <5>3. gone.seq < p.seq
          BY <2>0, <4>1, <5>1, <5>2
        <5>4. p.op > old.op
          BY <2>0, <3>2, <4>4, <5>3 DEF History, FloorNewer
        <5> QED
          BY <4>1, <4>2, <5>4
      <4> QED
        BY <1>7, <3>2, <4>3, <4>4, EventFacts DEF FloorOf
    <3> QED
      BY <3>1, <3>2
  <2> QED
    BY <1>2, <1>4, <2>1, <2>2 DEF History
<1>8. CASE st[e.kind] # <<>> /\ st[e.kind] # <<s>>
  <2>1. PICK p : st[e.kind] = <<p>> /\ \E g \in Events : g.kind = e.kind /\ FloorOf(p, g)
    BY <1>0, <1>8 DEF Cur
  <2>2. Rises(s, p, e)
    BY <1>1, <1>8, <2>1
  <2> QED
    BY <1>1, <1>2, <1>7, <2>1, <2>2
<1> QED
  BY <1>5, <1>6, <1>8

\* An event whose floor is in place may be accepted.
LEMMA AcceptKeeps ==
    ASSUME EventsAssumption, NEW st, NEW acc, History(st, acc), NEW e \in Events,
           NEW s, st[e.kind] = <<s>>, FloorOf(s, e)
    PROVE  History(st, acc \cup {e})
<1> DEFINE more == acc \cup {e}
<1>0. /\ e.kind \in FloorKeys /\ st[e.kind][1] = s /\ st[e.kind] # <<>>
      /\ Number(e) \in Nat
  BY EventFacts
<1>1. \A f \in more : f \in Events /\ Below(st, f)
  <2>1. Below(st, e)
    BY <1>0, EventFacts DEF Below, FloorOf
  <2> QED
    BY <2>1 DEF History
<1>2. \A f \in acc : Apart(e, f) /\ Apart(f, e)
  <2> SUFFICES ASSUME NEW f \in acc
               PROVE  Apart(e, f) /\ Apart(f, e)
    OBVIOUS
  <2>0. f \in Events /\ Below(st, f)
    BY DEF History
  <2>1. ASSUME e.kind = f.kind, Number(e) = Number(f)
        PROVE  e = f
    BY <1>0, <2>0, <2>1 DEF Below, FloorOf, EventsAssumption
  <2>2. ASSUME e.kind = "entry", f.kind = "entry", e.op > 0, e.op = f.op
        PROVE  e.digest = f.digest
    <3>1. e.status = "Active" /\ f.status = "Active"
      BY <2>0, <2>2, EventFacts
    <3>2. s.op = e.op /\ s.digest = e.digest
      BY <2>2, <3>1 DEF FloorOf
    <3> QED
      BY <1>0, <2>0, <2>2, <3>1, <3>2 DEF Below
  <2> QED
    BY <2>1, <2>2 DEF Apart
<1>3. Apart(e, e)
  BY DEF Apart
<1>4. \A f, g \in more : Apart(f, g)
  BY <1>2, <1>3 DEF History
<1>5. Newer(more)
  <2> SUFFICES ASSUME NEW old \in more, NEW gone \in more, NEW back \in more, Removed(old, gone),
                      back.kind = "entry", back.status = "Active", gone.seq < back.seq
               PROVE  back.op > old.op
    BY DEF Newer
  <2>0. /\ old \in Events /\ gone \in Events /\ back \in Events
        /\ Below(st, old) /\ Below(st, gone) /\ Below(st, back)
        /\ old.seq \in Nat /\ gone.seq \in Nat /\ back.seq \in Nat /\ old.op \in Nat /\ back.op \in Nat
        /\ gone.status # "Active" /\ gone.kind = "entry" /\ old.kind = "entry" /\ old.seq < gone.seq
    BY <1>1, EventFacts DEF Removed, Number
  <2>1. CASE e.kind = "entry"
    <3>0. s.seq = e.seq /\ s.status = e.status /\ s.seq \in Nat /\ back.seq <= s.seq
      BY <1>0, <2>0, <2>1 DEF FloorOf, Number, Below
    <3>1. old # e /\ gone # e
      <4>1. old.seq < s.seq /\ gone.seq < s.seq
        BY <2>0, <3>0
      <4>2. old.seq # e.seq /\ gone.seq # e.seq
        BY <2>0, <3>0, <4>1
      <4> QED BY <4>2, ZenonT(30)
    <3>2. old \in acc /\ gone \in acc
      BY <3>1
    <3>3. CASE back \in acc
      BY <3>2, <3>3 DEF History, Newer
    <3>4. CASE back = e
      <4>1. s.op > old.op
        BY <1>0, <2>1, <3>0, <3>2, <3>4 DEF History, FloorNewer
      <4> QED
        BY <2>1, <3>4, <4>1 DEF FloorOf
    <3> QED
      BY <3>3, <3>4
  <2>2. CASE e.kind # "entry"
    BY <2>0, <2>2 DEF History, Newer
  <2> QED
    BY <2>1, <2>2
<1>6. FloorNewer(st, more)
  <2> SUFFICES ASSUME st["entry"] # <<>>, st["entry"][1].status = "Active", NEW old \in more, NEW gone \in more,
                      Removed(old, gone), gone.seq < st["entry"][1].seq
               PROVE  st["entry"][1].op > old.op
    BY DEF FloorNewer
  <2>1. old \in acc /\ gone \in acc
    <3>1. CASE e.kind # "entry"
      BY <3>1 DEF Removed
    <3>2. CASE e.kind = "entry"
      <4>1. s.seq = e.seq /\ e.seq \in Nat /\ st["entry"][1] = s
        BY <1>0, <3>2 DEF FloorOf, Number
      <4>2. gone \in Events /\ gone.seq \in Nat /\ old \in Events /\ old.seq \in Nat
        BY <1>1, EventFacts DEF Removed, Number
      <4> QED
        BY <4>1, <4>2 DEF Removed
    <3> QED
      BY <3>1, <3>2
  <2> QED
    BY <2>1 DEF History, FloorNewer
<1> HIDE DEF more
<1>7. more \subseteq Events /\ \A f \in more : Below(st, f)
  BY <1>1
<1>8. History(st, more)
  BY <1>4, <1>5, <1>6, <1>7 DEF History
<1> QED
  BY <1>8 DEF more

-----------------------------------------------------------------------------
(* The inductive invariant.                                                *)

TabInv(t) ==
    \/ tab[t] = Idle
    \/ tab[t].pc = "load" /\ tab[t].ev \in Events
    \/ /\ tab[t].pc = "swap" /\ tab[t].ev \in Events /\ Cur(tab[t].cur, tab[t].ev.kind)
       /\ tab[t].next \in Prepare(tab[t].ev, tab[t].cur)

FloorsInv ==
    /\ History(store, accepted)
    /\ DOMAIN tab = Tabs /\ \A t \in Tabs : TabInv(t)
    /\ calls \in 0..Calls

\* Idle is no record with another pc.
LEMMA PcFacts ==
    ASSUME NEW t \in Tabs, TabInv(t)
    PROVE  /\ tab[t].pc = "load" => tab[t].ev \in Events
           /\ tab[t].pc = "swap" => /\ tab[t].ev \in Events /\ Cur(tab[t].cur, tab[t].ev.kind)
                                    /\ tab[t].next \in Prepare(tab[t].ev, tab[t].cur)
BY DEF TabInv, Idle

\* A tab that moves leaves the others where they were.
LEMMA TabKept ==
    ASSUME DOMAIN tab = Tabs, \A u \in Tabs : TabInv(u), NEW t \in Tabs, NEW w,
           tab' = [tab EXCEPT ![t] = w],
           \/ w = Idle
           \/ w.pc = "load" /\ w.ev \in Events
           \/ /\ w.pc = "swap" /\ w.ev \in Events /\ Cur(w.cur, w.ev.kind)
              /\ w.next \in Prepare(w.ev, w.cur)
    PROVE  DOMAIN tab' = Tabs /\ \A u \in Tabs : TabInv(u)'
<1>1. tab'[t] = w /\ DOMAIN tab' = Tabs
  OBVIOUS
<1>2. TabInv(t)'
  BY <1>1 DEF TabInv
<1>3. ASSUME NEW u \in Tabs, u # t
      PROVE  TabInv(u)'
  <2>1. tab'[u] = tab[u]
    BY <1>3
  <2> QED
    BY <2>1 DEF TabInv
<1> QED
  BY <1>1, <1>2, <1>3

\* What a compare-and-swap leaves in the store, answered or not.
LEMMA SwapKeeps ==
    ASSUME EventsAssumption, FloorsInv, NEW t \in Tabs, tab[t].pc = "swap"
    PROVE  /\ History(StoreAfter(t), accepted)
           /\ tab[t].ev \in Events /\ FloorOf(tab[t].next, tab[t].ev)
           /\ \A k \in FloorKeys :
                \/ StoreAfter(t)[k] = store[k]
                \/ /\ k = tab[t].ev.kind /\ StoreAfter(t)[k] = <<tab[t].next>>
                   /\ store[k] # <<>> => Rises(tab[t].next, store[k][1], tab[t].ev)
<1>0. /\ tab[t].ev \in Events /\ Cur(tab[t].cur, tab[t].ev.kind)
      /\ tab[t].next \in Prepare(tab[t].ev, tab[t].cur)
  BY PcFacts DEF FloorsInv
<1>1. /\ FloorOf(tab[t].next, tab[t].ev)
      /\ tab[t].cur # <<>> => \/ tab[t].cur = <<tab[t].next>>
                              \/ Rises(tab[t].next, tab[t].cur[1], tab[t].ev)
  BY <1>0, PrepareFacts
<1>2. History(store, accepted) /\ DOMAIN store = FloorKeys /\ tab[t].ev.kind \in FloorKeys
  BY <1>0, EventFacts, ZenonT(60) DEF FloorsInv, History
<1>3. CASE store[tab[t].ev.kind] = tab[t].cur
  <2>1. StoreAfter(t) = Moved(store, tab[t].ev.kind, tab[t].next)
    BY <1>3 DEF StoreAfter, Moved
  <2>2. History(StoreAfter(t), accepted)
    BY <1>0, <1>2, <1>3, <2>1, MoveKeeps
  <2>3. /\ StoreAfter(t)[tab[t].ev.kind] = <<tab[t].next>>
        /\ \A k \in FloorKeys : k # tab[t].ev.kind => StoreAfter(t)[k] = store[k]
    BY <1>2, <2>1 DEF Moved
  <2>4. \/ StoreAfter(t)[tab[t].ev.kind] = store[tab[t].ev.kind]
        \/ store[tab[t].ev.kind] # <<>> => Rises(tab[t].next, store[tab[t].ev.kind][1], tab[t].ev)
    BY <1>1, <1>3, <2>3
  <2> QED
    BY <1>0, <1>1, <2>2, <2>3, <2>4
<1>4. CASE store[tab[t].ev.kind] # tab[t].cur
  <2>1. StoreAfter(t) = store
    BY <1>4 DEF StoreAfter
  <2> QED
    BY <1>0, <1>1, <1>2, <2>1
<1> QED
  BY <1>3, <1>4

LEMMA InitFloorsInv ==
    ASSUME CallsAssumption, FloorsInit
    PROVE  FloorsInv
<1>1. History(store, accepted)
  BY DEF FloorsInit, History, Cur, Newer, FloorNewer, FloorKeys
<1>2. DOMAIN tab = Tabs /\ \A t \in Tabs : TabInv(t)
  BY DEF FloorsInit, TabInv
<1> QED
  BY <1>1, <1>2 DEF FloorsInit, FloorsInv, CallsAssumption

LEMMA NextFloorsInv ==
    ASSUME EventsAssumption, CallsAssumption, FloorsInv, FloorsNext
    PROVE  FloorsInv'
<1>0. PICK t \in Tabs : (\E e \in Events : Present(t, e)) \/ Load(t) \/ Swap(t) \/ SwapUnanswered(t) \/ Drop(t)
  BY DEF FloorsNext
<1>1. DOMAIN tab = Tabs /\ \A u \in Tabs : TabInv(u)
  BY DEF FloorsInv
<1>2. ASSUME NEW e \in Events, Present(t, e)
      PROVE  FloorsInv'
  <2>1. DOMAIN tab' = Tabs /\ \A u \in Tabs : TabInv(u)'
    BY <1>1, <1>2, TabKept, ZenonT(60) DEF Present
  <2> QED
    BY <1>2, <2>1 DEF Present, FloorsInv, CallsAssumption
<1>3. CASE Load(t)
  <2> DEFINE e == tab[t].ev
  <2>0. /\ tab[t].pc = "load" /\ store' = store /\ calls' = calls /\ e \in Events
    BY <1>1, <1>3, PcFacts DEF Load
  <2>1. History(store, accepted) /\ Cur(store[e.kind], e.kind)
    BY <2>0, EventFacts DEF FloorsInv, History
  <2>2. CASE tab' = [tab EXCEPT ![t] = Idle] /\ accepted' = accepted
    <3>1. DOMAIN tab' = Tabs /\ \A u \in Tabs : TabInv(u)'
      BY <1>1, <2>2, TabKept, Zenon
    <3> QED
      BY <2>0, <2>2, <3>1 DEF FloorsInv
  <2>3. ASSUME NEW s \in Prepare(e, store[e.kind]), store[e.kind] = <<s>>,
               tab' = [tab EXCEPT ![t] = Idle], accepted' = accepted \cup {e}
        PROVE  FloorsInv'
    <3>1. DOMAIN tab' = Tabs /\ \A u \in Tabs : TabInv(u)'
      BY <1>1, <2>3, TabKept, Zenon
    <3>2. FloorOf(s, e)
      BY <2>0, <2>1, <2>3, PrepareFacts
    <3>3. History(store, accepted \cup {e})
      BY <2>0, <2>1, <2>3, <3>2, AcceptKeeps
    <3> QED
      BY <2>0, <2>3, <3>1, <3>3 DEF FloorsInv
  <2>4. ASSUME NEW s \in Prepare(e, store[e.kind]), accepted' = accepted,
               tab' = [tab EXCEPT ![t] = [pc |-> "swap", ev |-> e, cur |-> store[e.kind], next |-> s]]
        PROVE  FloorsInv'
    <3> DEFINE w == [pc |-> "swap", ev |-> e, cur |-> store[e.kind], next |-> s]
    <3>1. w.pc = "swap" /\ w.ev = e /\ w.cur = store[e.kind] /\ w.next = s /\ tab' = [tab EXCEPT ![t] = w]
      BY <2>4
    <3> HIDE DEF w, e
    <3>2. DOMAIN tab' = Tabs /\ \A u \in Tabs : TabInv(u)'
      BY <1>1, <2>0, <2>1, <2>4, <3>1, TabKept, ZenonT(60)
    <3> QED
      BY <2>0, <2>4, <3>2 DEF FloorsInv
  <2> QED
    BY <1>3, <2>2, <2>3, <2>4, Zenon DEF Load
<1>4. CASE Swap(t)
  <2>1. DOMAIN tab' = Tabs /\ \A u \in Tabs : TabInv(u)'
    BY <1>1, <1>4, TabKept, Zenon DEF Swap
  <2>2. /\ History(StoreAfter(t), accepted) /\ tab[t].ev \in Events /\ FloorOf(tab[t].next, tab[t].ev)
        /\ store' = StoreAfter(t)
    BY <1>4, SwapKeeps DEF Swap
  <2>3. History(store', accepted')
    <3>1. CASE store'[tab[t].ev.kind] = <<tab[t].next>>
      <4>1. History(store', accepted \cup {tab[t].ev})
        BY <2>2, <3>1, AcceptKeeps
      <4> QED
        BY <1>4, <3>1, <4>1 DEF Swap
    <3>2. CASE store'[tab[t].ev.kind] # <<tab[t].next>>
      BY <1>4, <2>2, <3>2 DEF Swap
    <3> QED
      BY <3>1, <3>2
  <2> QED
    BY <1>4, <2>1, <2>3 DEF Swap, FloorsInv
<1>5. CASE SwapUnanswered(t)
  <2>1. DOMAIN tab' = Tabs /\ \A u \in Tabs : TabInv(u)'
    BY <1>1, <1>5, TabKept, Zenon DEF SwapUnanswered
  <2>2. History(store', accepted)
    BY <1>5, SwapKeeps DEF SwapUnanswered
  <2> QED
    BY <1>5, <2>1, <2>2 DEF SwapUnanswered, FloorsInv
<1>6. CASE Drop(t)
  <2>1. DOMAIN tab' = Tabs /\ \A u \in Tabs : TabInv(u)'
    BY <1>1, <1>6, TabKept, Zenon DEF Drop
  <2> QED
    BY <1>6, <2>1 DEF Drop, FloorsInv
<1> QED
  BY <1>0, <1>2, <1>3, <1>4, <1>5, <1>6

\* A step never takes a floor down.
LEMMA NextFloorsRise ==
    ASSUME EventsAssumption, FloorsInv, [FloorsNext]_floorsVars
    PROVE  FloorsRise
<1>0. ASSUME NEW k \in FloorKeys, store[k] # <<>>
      PROVE  \E p : store[k] = <<p>> /\ p.seq \in Nat /\ (k = "entry" => p.op \in Nat)
  <2>1. PICK p : store[k] = <<p>> /\ \E e \in Events : e.kind = k /\ FloorOf(p, e)
    BY <1>0 DEF FloorsInv, History, Cur
  <2> QED
    BY <2>1, FloorFacts DEF FloorOf
<1>1. CASE store' = store
  BY <1>0, <1>1 DEF FloorsRise
<1>2. ASSUME NEW t \in Tabs, tab[t].pc = "swap", store' = StoreAfter(t)
      PROVE  FloorsRise
  <2> SUFFICES ASSUME NEW k \in FloorKeys, store[k] # <<>>
               PROVE  /\ store'[k] # <<>>
                      /\ store'[k][1].seq >= store[k][1].seq
                      /\ store'[k][1].seq = store[k][1].seq => store'[k] = store[k]
                      /\ k = "entry" => store'[k][1].op >= store[k][1].op
    BY DEF FloorsRise
  <2>0. PICK p : store[k] = <<p>> /\ p.seq \in Nat /\ (k = "entry" => p.op \in Nat)
    BY <1>0
  <2>1. CASE store'[k] = store[k]
    BY <2>0, <2>1
  <2>2. CASE /\ k = tab[t].ev.kind /\ store'[k] = <<tab[t].next>>
             /\ Rises(tab[t].next, store[k][1], tab[t].ev)
    <3>1. tab[t].ev \in Events /\ FloorOf(tab[t].next, tab[t].ev)
      BY <1>2, SwapKeeps
    <3>2. tab[t].next.seq \in Nat
      BY <3>1, FloorFacts
    <3> QED
      BY <2>0, <2>2, <3>2 DEF Rises
  <2> QED
    BY <1>2, <2>1, <2>2, SwapKeeps
<1> QED
  BY <1>1, <1>2, Zenon DEF FloorsNext, floorsVars, Present, Load, Swap, SwapUnanswered, Drop

\* The invariant is what the rollback store promises its callers.
LEMMA InvFloorsSafe ==
    ASSUME EventsAssumption, FloorsInv
    PROVE  FloorsSafe
<1>0. History(store, accepted)
  BY DEF FloorsInv
<1>1. FloorsTypeOK
  <2>1. ASSUME NEW k \in FloorKeys, store[k] # <<>>
        PROVE  Len(store[k]) = 1 /\ FloorValid(store[k][1])
    <3>1. PICK p : store[k] = <<p>> /\ \E e \in Events : e.kind = k /\ FloorOf(p, e)
      BY <1>0, <2>1 DEF History, Cur
    <3>2. FloorValid(p)
      BY <3>1, FloorFacts
    <3> QED
      BY <3>1, <3>2
  <2> QED
    BY <1>0, <2>1 DEF FloorsTypeOK, FloorsInv, History, TabInv
<1>2. OkIsDurable
  BY <1>0 DEF OkIsDurable, History, Below, Number
<1>3. NoSplitAcceptance
  BY <1>0 DEF NoSplitAcceptance, History, Apart, Number
<1>4. ReturnIsNewer
  BY <1>0 DEF ReturnIsNewer, History, Newer, Removed
<1>5. StoredIsReplayable
  <2> SUFFICES ASSUME NEW e \in Events, store[e.kind] # <<>>, store[e.kind][1].id = e.id
               PROVE  Prepare(e, store[e.kind]) = {store[e.kind][1]}
    BY DEF StoredIsReplayable
  <2>1. PICK p : store[e.kind] = <<p>> /\ \E f \in Events : f.kind = e.kind /\ FloorOf(p, f)
    BY <1>0, EventFacts DEF History, Cur
  <2>2. FloorOf(p, e)
    BY <2>1 DEF FloorOf, EventsAssumption
  <2>3. store[e.kind][1] = p
    BY <2>1
  <2>4. CASE e.kind = "entry"
    BY <2>2, <2>3, <2>4 DEF FloorOf, Number, Prepare, PrepareEntry, EntryReplays
  <2>5. CASE e.kind = "checkpoint"
    BY <2>2, <2>3, <2>5 DEF FloorOf, Number, Prepare, PrepareCheckpoint, CheckpointReplays
  <2> QED
    BY <2>4, <2>5, EventFacts DEF FloorKeys
<1> QED
  BY <1>1, <1>2, <1>3, <1>4, <1>5 DEF FloorsSafe

\* The inductive invariant holds in every reachable state.
THEOREM FloorsInvariant ==
    EventsAssumption /\ CallsAssumption /\ FloorsSpec => []FloorsInv
<1> SUFFICES ASSUME EventsAssumption, CallsAssumption
             PROVE  FloorsSpec => []FloorsInv
  OBVIOUS
<1>1. FloorsInit => FloorsInv
  BY InitFloorsInv
<1>2. FloorsInv /\ [FloorsNext]_floorsVars => FloorsInv'
  <2>1. ASSUME FloorsInv, FloorsNext
        PROVE  FloorsInv'
    BY <2>1, NextFloorsInv
  <2>2. ASSUME FloorsInv, UNCHANGED floorsVars
        PROVE  FloorsInv'
    BY <2>2 DEF FloorsInv, TabInv, floorsVars
  <2> QED
    BY <2>1, <2>2
<1> QED
  BY <1>1, <1>2, PTL DEF FloorsSpec

\* However many tabs share the rollback store, whatever events they hand to
\* verify_and_persist_*, and whichever answers are lost: an accepted event is
\* at or below the durable floor, no two versions of one thing are accepted, a
\* provider that was removed returns with a newer operator epoch, and the
\* stored event can be handed in again.
THEOREM FloorsAreSafe ==
    EventsAssumption /\ CallsAssumption /\ FloorsSpec => []FloorsSafe
<1> SUFFICES ASSUME EventsAssumption, CallsAssumption
             PROVE  FloorsSpec => []FloorsSafe
  OBVIOUS
<1>1. FloorsInv => FloorsSafe
  BY InvFloorsSafe
<1> QED
  BY <1>1, FloorsInvariant, PTL

\* No compare-and-swap of any tab takes a stored floor down, replaces the
\* event of an equal floor, or lowers the operator epoch.
THEOREM FloorsOnlyRise ==
    EventsAssumption /\ CallsAssumption /\ FloorsSpec => FloorsNeverFall
<1> SUFFICES ASSUME EventsAssumption, CallsAssumption
             PROVE  FloorsSpec => [][FloorsRise]_floorsVars
  BY DEF FloorsNeverFall
<1>1. FloorsInv /\ [FloorsNext]_floorsVars => FloorsRise
  BY NextFloorsRise
<1> QED
  BY <1>1, FloorsInvariant, PTL DEF FloorsSpec
-----------------------------------------------------------------------------
(* The cuckoo table.                                                       *)

Tables == [Cells -> Items \union {EMPTY}]

\* Where the loop over the entries stands.
Progress ==
    /\ pc = "insert" => next < N
    /\ pc \in {"evict", "panicked"} => next < N /\ current \in 0..next
    /\ pc \in {"built", "written"} => next = N

\* No item is in two slots.
Once(t) == \A c, d \in Cells : t[c] # EMPTY /\ t[c] = t[d] => c = d

\* Bin b is the first of its name among the bins of item i, and the bins that
\* a client reads before it are full.
Settled(t, i, b) ==
    \E h \in Hashes : /\ hash[<<i, h>>] = b
                      /\ \A g \in Hashes : g < h => /\ hash[<<i, g>>] # b
                                                    /\ Full(t, hash[<<i, g>>])

AllSettled(t) == \A b \in Bins, s \in SlotIds :
                     t[<<b, s>>] # EMPTY => Settled(t, t[<<b, s>>], b)

\* A bin is filled from its first slot on.
Packed(t) ==
    \A b \in Bins, s \in SlotIds :
        t[<<b, s>>] # EMPTY => \A r \in SlotIds : r < s => t[<<b, r>>] # EMPTY

Sound(t) == t \in Tables /\ Once(t) /\ AllSettled(t) /\ Packed(t)

With(t, b, s, j) == [t EXCEPT ![<<b, s>>] = j]

\* The items without a slot: those still to come and the one in hand.
Home(t, i) == \E c \in Cells : t[c] = i

Outside(i) ==
    \/ pc = "insert" /\ i >= next
    \/ pc \in {"evict", "panicked"} /\ (i > next \/ i = current)

Placed == \A i \in Items : Home(table, i) <=> ~Outside(i)

\* The item in hand goes to a full bin of its own.
InHand == pc = "evict" => Full(table, current_bin) /\ Settled(table, current, current_bin)

TableInv == TypeOK /\ Progress /\ Sound(table) /\ Placed /\ InHand

-----------------------------------------------------------------------------
(* Facts about a table and a place in it.                                  *)

INSTANCE WellFoundedInduction

\* A set of numbers that is not empty has a least one.
LEMMA LeastNat ==
    ASSUME NEW T, T \subseteq Nat, T # {}
    PROVE  \E x \in T : \A y \in T : x <= y
<1> DEFINE R == {p \in Nat \X Nat : p[1] < p[2]}
<1>1. IsWellFoundedOn(R, Nat)
  BY NatLessThanWellFounded DEF OpToRel
<1>2. R = {p \in Nat \X Nat : p[1] < p[2]}
  OBVIOUS
<1> HIDE DEF R
<1>3. \E x \in T : \A y \in T : ~ (<<y, x>> \in R)
  BY <1>1, WFMin, Zenon
<1>4. \A x, y \in T : ~ (<<y, x>> \in R) => x <= y
  BY <1>2
<1> QED
  BY <1>3, <1>4, ZenonT(60)

\* Filling slots, or changing what is in them, keeps full bins full.
LEMMA FullKept ==
    ASSUME NEW t, NEW u, \A c \in Cells : t[c] # EMPTY => u[c] # EMPTY
    PROVE  /\ \A b \in Bins : Full(t, b) => Full(u, b)
           /\ TypeOK => \A i \in Items, b \in Bins : Settled(t, i, b) => Settled(u, i, b)
<1>1. \A b \in Bins : Full(t, b) => Full(u, b)
  BY DEF Full, Cells
<1>2. ASSUME TypeOK, NEW i \in Items, NEW b \in Bins, Settled(t, i, b)
      PROVE  Settled(u, i, b)
  <2>1. \A g \in Hashes : hash[<<i, g>>] \in Bins
    BY <1>2 DEF TypeOK
  <2> QED
    BY <1>1, <1>2, <2>1 DEF Settled
<1> QED
  BY <1>1, <1>2

\* The alternative of a full bin of an item is a bin of the item too, and the
\* bins a client reads before it are full.
LEMMA AltFacts ==
    ASSUME TypeOK, NEW t, NEW i \in Items, NEW b \in Bins, Full(t, b), Settled(t, i, b)
    PROVE  AltBin(i, b) \in Bins /\ Settled(t, i, AltBin(i, b))
<1>1. CASE \E h \in Hashes : hash[<<i, h>>] # b
  <2> DEFINE Others == {h \in Hashes : hash[<<i, h>>] # b}
             First(h) == /\ hash[<<i, h>>] # b
                         /\ \A g \in Hashes : g < h => hash[<<i, g>>] = b
             first == CHOOSE h \in Hashes : First(h)
  <2>1. Others # {} /\ Others \subseteq Nat
    <3>1. Hashes \subseteq Nat
      BY CuckooAssumption DEF Hashes
    <3> QED
      BY <1>1, <3>1, Zenon
  <2>2. PICK x \in Others : \A y \in Others : x <= y
    BY <2>1, LeastNat, Zenon
  <2>3. x \in Hashes /\ First(x)
    BY <2>2, CuckooAssumption DEF Hashes
  <2>4. first \in Hashes /\ First(first)
    BY <2>3, Zenon
  <2>5. AltBin(i, b) = hash[<<i, first>>]
    BY <1>1, Zenon DEF AltBin
  <2> HIDE DEF first
  <2>6. hash[<<i, first>>] \in Bins
    BY <2>4 DEF TypeOK
  <2>7. \A g \in Hashes : g < first => hash[<<i, g>>] # hash[<<i, first>>] /\ Full(t, hash[<<i, g>>])
    BY <2>4
  <2> QED
    BY <2>4, <2>5, <2>6, <2>7 DEF Settled
<1>2. CASE ~ \E h \in Hashes : hash[<<i, h>>] # b
  BY <1>2, Zenon DEF AltBin
<1> QED
  BY <1>1, <1>2, ZenonT(60)

\* An item without a slot is put into the first free slot of a bin.
LEMMA PutFacts ==
    ASSUME TypeOK, NEW t, Sound(t), NEW j \in Items, ~Home(t, j),
           NEW b \in Bins, NEW s \in SlotIds, Settled(t, j, b),
           FirstFree(t, b, s)
    PROVE  /\ Sound(With(t, b, s, j))
           /\ \A i \in Items : Home(With(t, b, s, j), i) <=> Home(t, i) \/ i = j
<1> DEFINE u == With(t, b, s, j)
<1>0. /\ j # EMPTY /\ <<b, s>> \in Cells /\ t[<<b, s>>] = EMPTY
      /\ \A i \in Items : i # EMPTY
  BY CuckooAssumption DEF Items, EMPTY, Cells, FirstFree
<1>1. u \in Tables /\ u[<<b, s>>] = j /\ \A c \in Cells : c # <<b, s>> => u[c] = t[c]
  BY <1>0 DEF Sound, Tables, With
<1> HIDE DEF u
<1>2. \A c \in Cells : t[c] # EMPTY => u[c] # EMPTY
  BY <1>0, <1>1
<1>3. Once(u)
  BY <1>0, <1>1 DEF Sound, Once, Home
<1>4. AllSettled(u)
  <2> SUFFICES ASSUME NEW d \in Bins, NEW r \in SlotIds, u[<<d, r>>] # EMPTY
               PROVE  Settled(u, u[<<d, r>>], d)
    BY DEF AllSettled
  <2>1. <<d, r>> \in Cells /\ u[<<d, r>>] \in Items
    BY <1>1 DEF Cells, Tables
  <2>2. Settled(t, u[<<d, r>>], d)
    <3>1. CASE <<d, r>> = <<b, s>>
      BY <1>1, <3>1
    <3>2. CASE <<d, r>> # <<b, s>>
      BY <1>1, <2>1, <3>2 DEF Sound, AllSettled
    <3> QED
      BY <3>1, <3>2
  <2> QED
    BY <1>2, <2>1, <2>2, FullKept
<1>5. Packed(u)
  BY <1>0, <1>1 DEF Sound, Packed, FirstFree, Cells
<1>6. \A i \in Items : Home(u, i) <=> Home(t, i) \/ i = j
  BY <1>0, <1>1 DEF Home
<1> QED
  BY <1>1, <1>3, <1>4, <1>5, <1>6 DEF Sound, u

\* An item without a slot takes the place of another one in a full bin.
LEMMA SwapFacts ==
    ASSUME TypeOK, NEW t, Sound(t), NEW j \in Items, ~Home(t, j),
           NEW b \in Bins, NEW s \in SlotIds, Settled(t, j, b), Full(t, b),
           NEW e, e = t[<<b, s>>]
    PROVE  /\ e \in Items /\ e # j /\ Home(t, e)
           /\ Sound(With(t, b, s, j)) /\ Full(With(t, b, s, j), b)
           /\ Settled(With(t, b, s, j), e, b)
           /\ \A i \in Items :
                  Home(With(t, b, s, j), i) <=> (Home(t, i) /\ i # e) \/ i = j
<1> DEFINE u == With(t, b, s, j)
<1>0. /\ j # EMPTY /\ <<b, s>> \in Cells /\ t[<<b, s>>] # EMPTY
      /\ \A i \in Items : i # EMPTY
  BY CuckooAssumption DEF Items, EMPTY, Cells, Full
<1>1. u \in Tables /\ u[<<b, s>>] = j /\ \A c \in Cells : c # <<b, s>> => u[c] = t[c]
  BY <1>0 DEF Sound, Tables, With
<1> HIDE DEF u
<1>2. e \in Items /\ e # j /\ Home(t, e)
  BY <1>0 DEF Sound, Tables, Home
<1>3. \A c \in Cells : t[c] # EMPTY => u[c] # EMPTY
  BY <1>0, <1>1
<1>4. Once(u)
  BY <1>0, <1>1 DEF Sound, Once, Home
<1>5. Settled(t, e, b)
  BY <1>0 DEF Sound, AllSettled
<1>6. Full(u, b) /\ Settled(u, e, b)
  BY <1>2, <1>3, <1>5, FullKept
<1>7. AllSettled(u)
  <2> SUFFICES ASSUME NEW d \in Bins, NEW r \in SlotIds, u[<<d, r>>] # EMPTY
               PROVE  Settled(u, u[<<d, r>>], d)
    BY DEF AllSettled
  <2>1. <<d, r>> \in Cells /\ u[<<d, r>>] \in Items
    BY <1>1 DEF Cells, Tables
  <2>2. Settled(t, u[<<d, r>>], d)
    <3>1. CASE <<d, r>> = <<b, s>>
      BY <1>1, <3>1
    <3>2. CASE <<d, r>> # <<b, s>>
      BY <1>1, <2>1, <3>2 DEF Sound, AllSettled
    <3> QED
      BY <3>1, <3>2
  <2> QED
    BY <1>3, <2>1, <2>2, FullKept
<1>8. Packed(u)
  BY <1>0, <1>1 DEF Sound, Packed, Cells
<1>9. \A i \in Items : Home(u, i) <=> (Home(t, i) /\ i # e) \/ i = j
  BY <1>0, <1>1, <1>2 DEF Home, Sound, Once
<1> QED
  BY <1>1, <1>2, <1>4, <1>6, <1>7, <1>8, <1>9, ZenonT(60) DEF Sound, u

-----------------------------------------------------------------------------
(* Every step keeps the invariant.                                         *)

\* What is said of a table does not change with the rest of the state.
LEMMA HashKept ==
    ASSUME UNCHANGED hash
    PROVE  /\ Sound(table') => Sound(table)'
           /\ Settled(table', current', current_bin') => Settled(table, current, current_bin)'
           /\ Full(table', current_bin') => Full(table, current_bin)'
<1>0. Settled(table', current', current_bin') => Settled(table, current, current_bin)'
  BY Zenon DEF Settled, Full
<1>1. \A i, b : Settled(table', i, b) <=> Settled(table, i, b)'
  BY Zenon DEF Settled, Full
<1>2. AllSettled(table') => AllSettled(table)'
  BY <1>1, Zenon DEF AllSettled
<1> QED
  BY <1>0, <1>1, <1>2, Zenon DEF Sound, Once, Packed, Full

\* The end of an insertion, in either way: all items so far have a slot.
LEMMA NextEntryKeeps ==
    ASSUME TypeOK, next < N, NextEntry, Sound(table)', UNCHANGED <<hash, kick>>,
           current' \in Items \union {EMPTY}, current_bin' \in Bins,
           \A i \in Items : Home(table, i)' <=> i <= next
    PROVE  TableInv'
<1>1. next \in 0..N /\ N \in Nat /\ next' = next + 1
  BY CuckooAssumption DEF TypeOK, NextEntry
<1>2. \/ next + 1 = N /\ pc' = "built"
      \/ next + 1 # N /\ pc' = "insert"
  BY DEF NextEntry
<1>3. TypeOK'
  BY <1>1, <1>2 DEF TypeOK, Sound, Tables
<1>4. Progress' /\ InHand'
  BY <1>1, <1>2 DEF Progress, InHand
<1>5. Placed'
  <2> SUFFICES ASSUME NEW i \in Items
               PROVE  Home(table, i)' <=> ~Outside(i)'
    BY DEF Placed
  <2>1. ~Outside(i)' <=> i <= next
    BY <1>1, <1>2 DEF Outside, Items
  <2> QED
    BY <2>1
<1> QED
  BY <1>3, <1>4, <1>5 DEF TableInv

\* An item finds a free slot at once.
LEMMA PlaceKeeps ==
    ASSUME TableInv, Place
    PROVE  TableInv'
<1>0. TypeOK /\ Sound(table) /\ pc = "insert" /\ next < N /\ next \in Items
  BY CuckooAssumption DEF TableInv, Progress, Place, TypeOK, Items
<1>1. PICK h \in Hashes, s \in SlotIds :
          /\ \A g \in Hashes : g < h => Full(table, hash[<<next, g>>])
          /\ FirstFree(table, hash[<<next, h>>], s)
          /\ table' = With(table, hash[<<next, h>>], s, next)
  BY ZenonT(60) DEF Place, With
<1> DEFINE b == hash[<<next, h>>]
<1>2. b \in Bins /\ ~Full(table, b)
  BY <1>0, <1>1 DEF TypeOK, FirstFree, Full
<1>3. Settled(table, next, b)
  BY <1>1, <1>2 DEF Settled
<1>a. /\ FirstFree(table, b, s) /\ s \in SlotIds /\ table' = With(table, b, s, next)
  BY <1>1
<1> HIDE DEF b
<1>4. \A i \in Items : Home(table, i) <=> i < next
  BY <1>0 DEF TableInv, Placed, Outside, Items, TypeOK
<1>5. ~Home(table, next)
  BY <1>0, <1>4 DEF TypeOK
<1>6. /\ Sound(table')
      /\ \A i \in Items : Home(table', i) <=> Home(table, i) \/ i = next
  BY <1>0, <1>a, <1>2, <1>3, <1>5, PutFacts
<1>7. \A i \in Items : Home(table, i)' <=> i <= next
  BY <1>0, <1>4, <1>6 DEF Home, Items, TypeOK
<1>8. NextEntry /\ UNCHANGED <<hash, current, current_bin, kick>>
  BY DEF Place
<1>9. Sound(table)'
  BY <1>6, <1>8, HashKept
<1> QED
  BY <1>0, <1>7, <1>8, <1>9, NextEntryKeeps DEF TypeOK

\* An item finds all its bins full and takes the first of them.
LEMMA BeginEvictKeeps ==
    ASSUME TableInv, BeginEvict
    PROVE  TableInv'
<1>0. /\ TypeOK /\ Sound(table) /\ pc = "insert" /\ next < N /\ next \in Items
      /\ 0 \in Hashes /\ MaxKicks \in Nat
  BY CuckooAssumption DEF TableInv, Progress, BeginEvict, TypeOK, Items, Hashes
<1>1. /\ current' = next /\ current_bin' = hash[<<next, 0>>] /\ kick' = 0 /\ pc' = "evict"
      /\ UNCHANGED <<hash, table, next>>
      /\ \A h \in Hashes : Full(table, hash[<<next, h>>])
  BY DEF BeginEvict
<1>2. TypeOK' /\ Progress'
  BY <1>0, <1>1 DEF TypeOK, Progress
<1>3. Settled(table, next, hash[<<next, 0>>])
  BY <1>0, <1>1 DEF Settled, Hashes
<1>4. InHand'
  BY <1>0, <1>1, <1>3 DEF InHand, Settled, Full
<1>5. Sound(table)'
  BY <1>0, <1>1, HashKept
<1>6. Placed'
  <2> SUFFICES ASSUME NEW i \in Items
               PROVE  Home(table, i)' <=> ~Outside(i)'
    BY DEF Placed
  <2>1. Home(table, i) <=> i < next
    BY <1>0 DEF TableInv, Placed, Outside, Items, TypeOK
  <2>2. ~Outside(i)' <=> i < next
    BY <1>0, <1>1 DEF Outside, Items
  <2> QED
    BY <1>1, <2>1, <2>2 DEF Home
<1> QED
  BY <1>2, <1>4, <1>5, <1>6 DEF TableInv

\* What one round of the chain finds: a full bin of the item in hand, an item
\* in the slot it takes, and a bin of that item to go on to.
LEMMA RoundFacts ==
    ASSUME TableInv, pc = "evict", NEW e, e = table[EvictSlot]
    PROVE  /\ EvictSlot \in Cells /\ e \in Items /\ e # current /\ current \in Items
           /\ Sound(Swapped) /\ AltBin(e, current_bin) \in Bins
           /\ Settled(Swapped, e, AltBin(e, current_bin))
           /\ e <= next /\ \A i \in Items : Home(Swapped, i) <=> i <= next /\ i # e
<1>0. /\ TypeOK /\ Sound(table) /\ next \in Nat /\ next < N /\ current \in Items /\ current <= next
      /\ current_bin \in Bins /\ Full(table, current_bin)
      /\ Settled(table, current, current_bin)
  BY CuckooAssumption DEF TableInv, Progress, InHand, TypeOK, Items
<1>1. \A i \in Items : Home(table, i) <=> i <= next /\ i # current
  BY <1>0 DEF TableInv, Placed, Outside, Items
<1>2. kick % Slots \in SlotIds
  BY <1>0, CuckooAssumption DEF TypeOK, SlotIds
<1>3. EvictSlot = <<current_bin, kick % Slots>> /\ EvictSlot \in Cells
  BY <1>0, <1>2 DEF EvictSlot, Cells
<1>4. Swapped = With(table, current_bin, kick % Slots, current)
  BY <1>3 DEF Swapped, With
<1>5. ~Home(table, current)
  BY <1>0, <1>1, ZenonT(60)
<1>6. /\ e \in Items /\ e # current /\ Home(table, e)
      /\ Sound(Swapped) /\ Full(Swapped, current_bin)
      /\ Settled(Swapped, e, current_bin)
      /\ \A i \in Items : Home(Swapped, i) <=> (Home(table, i) /\ i # e) \/ i = current
  <2> DEFINE s == kick % Slots
  <2>1. s \in SlotIds /\ e = table[<<current_bin, s>>] /\ Swapped = With(table, current_bin, s, current)
    BY <1>2, <1>3, <1>4
  <2> HIDE DEF s
  <2> QED
    BY <1>0, <1>5, <2>1, SwapFacts
<1>7. AltBin(e, current_bin) \in Bins /\ Settled(Swapped, e, AltBin(e, current_bin))
  BY <1>0, <1>6, AltFacts
<1> QED
  BY <1>0, <1>1, <1>3, <1>6, <1>7

\* A round that ends the chain.
LEMMA ResettleKeeps ==
    ASSUME TableInv, Resettle
    PROVE  TableInv'
<1> DEFINE e == table[EvictSlot]
           alt == AltBin(e, current_bin)
<1>0. TypeOK /\ next < N /\ next \in Nat
  BY CuckooAssumption DEF TableInv, Progress, Resettle, TypeOK
<1>1. PICK s \in SlotIds : /\ FirstFree(Swapped, alt, s)
                           /\ table' = With(Swapped, alt, s, e)
  BY Zenon DEF Resettle, With
<1>2. /\ e \in Items /\ e <= next /\ Sound(Swapped) /\ alt \in Bins /\ Settled(Swapped, e, alt)
      /\ \A i \in Items : Home(Swapped, i) <=> i <= next /\ i # e
  BY RoundFacts, Zenon DEF Resettle
<1>3. NextEntry /\ current' = EMPTY /\ UNCHANGED <<hash, current_bin, kick>>
  BY DEF Resettle
<1> HIDE DEF e, alt
<1>4. /\ Sound(table')
      /\ \A i \in Items : Home(table', i) <=> Home(Swapped, i) \/ i = e
  BY <1>0, <1>1, <1>2, PutFacts
<1>5. Sound(table)'
  BY <1>3, <1>4, HashKept
<1>6. \A i \in Items : Home(table, i)' <=> i <= next
  BY <1>2, <1>4 DEF Home
<1> QED
  BY <1>0, <1>3, <1>5, <1>6, NextEntryKeeps DEF TypeOK

\* A round that goes on: the evicted item is in hand.
LEMMA KickKeeps ==
    ASSUME TableInv, Kick
    PROVE  TableInv'
<1> DEFINE e == table[EvictSlot]
           alt == AltBin(e, current_bin)
<1>0. TypeOK /\ Progress /\ pc = "evict" /\ next < N /\ next \in Nat /\ kick \in Nat
  BY CuckooAssumption DEF TableInv, Progress, Kick, TypeOK
<1>1. /\ kick < MaxKicks /\ Full(Swapped, alt) /\ table' = Swapped
      /\ current' = e /\ current_bin' = alt /\ kick' = kick + 1
      /\ hash' = hash /\ next' = next /\ pc' = pc
  BY Zenon DEF Kick
<1>2. /\ e \in Items /\ e <= next /\ Sound(Swapped) /\ alt \in Bins /\ Settled(Swapped, e, alt)
      /\ \A i \in Items : Home(Swapped, i) <=> i <= next /\ i # e
  BY RoundFacts, Zenon DEF Kick
<1> HIDE DEF e, alt
<1>3. /\ Sound(table)' /\ Full(table, current_bin)'
      /\ Settled(table, current, current_bin)'
  BY <1>1, <1>2, HashKept
<1>4. TypeOK'
  <2>1. table' \in [Cells -> Items \union {EMPTY}]
    BY <1>1, <1>2 DEF Sound, Tables
  <2> QED
    BY <1>0, <1>1, <1>2, <2>1, CuckooAssumption DEF TypeOK
<1>5. Progress'
  BY <1>0, <1>1, <1>2 DEF Progress, Items
<1>6. InHand'
  BY <1>3 DEF InHand
<1>7. Placed'
  <2> SUFFICES ASSUME NEW i \in Items
               PROVE  Home(table, i)' <=> ~Outside(i)'
    BY DEF Placed
  <2>1. Home(table, i)' <=> i <= next /\ i # e
    BY <1>1, <1>2 DEF Home
  <2>2. ~Outside(i)' <=> i <= next /\ i # e
    BY <1>0, <1>1 DEF Outside, Items
  <2> QED
    BY <2>1, <2>2
<1> QED
  BY <1>3, <1>4, <1>5, <1>6, <1>7 DEF TableInv

\* The build fails, or its table is written: no slot changes.
LEMMA EndKeeps ==
    ASSUME TableInv, GiveUp \/ Serialize
    PROVE  TableInv'
<1>1. /\ UNCHANGED <<hash, table, next, current, current_bin, kick>>
      /\ \/ pc = "evict" /\ pc' = "panicked"
         \/ pc = "built" /\ pc' = "written"
  BY DEF GiveUp, Serialize
<1>2. TypeOK' /\ Progress' /\ InHand'
  BY <1>1 DEF TableInv, TypeOK, Progress, InHand
<1>3. Sound(table)'
  BY <1>1, HashKept DEF TableInv
<1>4. Placed'
  BY <1>1 DEF TableInv, Placed, Outside, Home
<1> QED
  BY <1>2, <1>3, <1>4 DEF TableInv

\* A build starts with an empty table.
LEMMA InitTableInv == Init => TableInv
<1> SUFFICES ASSUME Init
             PROVE  TableInv
  OBVIOUS
<1>1. TypeOK
  BY CuckooAssumption DEF Init, TypeOK, Bins
<1>2. \A c \in Cells : table[c] = EMPTY
  BY DEF Init
<1>3. Progress /\ InHand
  BY CuckooAssumption DEF Init, Progress, InHand
<1>4. Sound(table)
  BY <1>1, <1>2 DEF TypeOK, Sound, Tables, Once, AllSettled, Packed, Cells
<1>5. Placed
  <2> SUFFICES ASSUME NEW i \in Items
               PROVE  ~Home(table, i) /\ Outside(i)
    BY DEF Placed
  <2>1. i # EMPTY /\ i >= 0 /\ N # 0
    BY CuckooAssumption DEF Items, EMPTY
  <2>2. Outside(i)
    BY <2>1 DEF Init, Outside
  <2> QED
    BY <1>2, <2>1, <2>2 DEF Home
<1> QED
  BY <1>1, <1>3, <1>4, <1>5 DEF TableInv

\* The invariant of a build: the table is sound at every round of every
\* eviction chain of cuckoo_insert, whatever the hash functions are.
THEOREM TableInvariant == Spec => []TableInv
<1>1. TableInv /\ [Next]_vars => TableInv'
  <2> SUFFICES ASSUME TableInv, [Next]_vars
               PROVE  TableInv'
    OBVIOUS
  <2>1. CASE UNCHANGED vars
    <3>1. UNCHANGED <<hash, table, next, current, current_bin, kick, pc>>
      BY <2>1 DEF vars
    <3>2. TypeOK' /\ Progress'
      BY <3>1 DEF TableInv, TypeOK, Progress
    <3>3. Sound(table)'
      BY <3>1, HashKept DEF TableInv
    <3>4. Placed' /\ InHand'
      BY <3>1 DEF TableInv, Placed, Outside, Home, InHand, Settled, Full
    <3> QED
      BY <3>2, <3>3, <3>4 DEF TableInv
  <2> QED
    BY <2>1, PlaceKeeps, BeginEvictKeeps, ResettleKeeps, KickKeeps, EndKeeps DEF Next
<1> QED
  BY <1>1, InitTableInv, PTL DEF Spec

-----------------------------------------------------------------------------
(* What the invariant says of the file and its reader.                     *)

\* An item that has a slot has one slot, and an item without one has none.
LEMMA InvNothingLost ==
    ASSUME TableInv
    PROVE  NothingLost
<1> SUFFICES ASSUME NEW i \in Items
             PROVE  LET held == {c \in Cells : table[c] = i} IN
                    IF pc = "insert" /\ i >= next THEN held = {}
                    ELSE IF pc \in {"evict", "panicked"} /\ i > next THEN held = {}
                    ELSE IF pc \in {"evict", "panicked"} /\ i = current THEN held = {}
                    ELSE \E c \in Cells : held = {c}
  BY DEF NothingLost
<1> DEFINE held == {c \in Cells : table[c] = i}
<1>1. i # EMPTY
  BY CuckooAssumption DEF Items, EMPTY
<1>2. CASE Outside(i)
  <2>1. held = {}
    BY <1>2 DEF TableInv, Placed, Home
  <2> QED
    BY <1>2, <2>1 DEF Outside
<1>3. CASE ~Outside(i)
  <2>1. PICK c \in Cells : table[c] = i
    BY <1>3 DEF TableInv, Placed, Home
  <2>2. held = {c}
    BY <1>1, <2>1 DEF TableInv, Sound, Once
  <2> QED
    BY <1>3, <2>2 DEF Outside
<1> QED
  BY <1>2, <1>3

\* Every item is in a bin of its own, and chains evict from full bins.
LEMMA InvOwnBin ==
    ASSUME TableInv
    PROVE  InOwnBin /\ EvictsItems
<1>1. ASSUME NEW c \in Cells, table[c] # EMPTY
      PROVE  \E h \in Hashes : hash[<<table[c], h>>] = c[1]
  <2>1. PICK b \in Bins, s \in SlotIds : c = <<b, s>>
    BY DEF Cells
  <2> QED
    BY <1>1, <2>1 DEF TableInv, Sound, AllSettled, Settled
<1> QED
  BY <1>1, ZenonT(60) DEF InOwnBin, TableInv, InHand, EvictsItems

\* In the bin where it is an item is found, even when its key is that of an
\* empty slot: no slot before its own is empty.
LEMMA FoundInOwnSlot ==
    ASSUME TableInv, NEW b \in Bins, NEW s \in SlotIds, NEW i \in Items, table[<<b, s>>] = i
    PROVE  find_chunk_in_result(b, i + KeyBase) = {Data(i)}
<1> DEFINE K(r) == SlotBytes(<<b, r>>).key
           First(r) == K(r) = i + KeyBase /\ \A q \in SlotIds : q < r => K(q) # i + KeyBase
<1>0. Items \subseteq Nat /\ EMPTY \notin Items /\ KeyBase \in Nat /\ SlotIds \subseteq Nat
  BY CuckooAssumption DEF Items, EMPTY, SlotIds
<1>1. \A r \in SlotIds : <<b, r>> \in Cells /\ table[<<b, r>>] \in Items \union {EMPTY}
  BY DEF Cells, TableInv, TypeOK
<1>2. \A r \in SlotIds : r < s => table[<<b, r>>] \in Items /\ table[<<b, r>>] # i
  <2> SUFFICES ASSUME NEW r \in SlotIds, r < s
               PROVE  table[<<b, r>>] # EMPTY /\ table[<<b, r>>] # i
    BY <1>1
  <2>1. table[<<b, r>>] # EMPTY
    BY <1>0 DEF TableInv, Sound, Packed
  <2>2. <<b, r>> # <<b, s>>
    BY <1>0
  <2> QED
    BY <1>0, <1>1, <2>1, <2>2 DEF TableInv, Sound, Once
<1>3. K(s) = i + KeyBase /\ SlotBytes(<<b, s>>).data = Data(i)
  BY <1>0 DEF SlotBytes
<1>4. \A r \in SlotIds : r < s => K(r) # i + KeyBase
  <2> SUFFICES ASSUME NEW r \in SlotIds, r < s
               PROVE  K(r) # i + KeyBase
    OBVIOUS
  <2>1. K(r) = table[<<b, r>>] + KeyBase
    BY <1>0, <1>2 DEF SlotBytes
  <2>2. table[<<b, r>>] \in Nat /\ table[<<b, r>>] # i /\ i \in Nat /\ KeyBase \in Nat
    BY <1>0, <1>2, ZenonT(60)
  <2> HIDE DEF K
  <2> QED
    BY <2>1, <2>2
<1> HIDE DEF K
<1>5. {r \in SlotIds : First(r)} = {s}
  <2>1. First(s)
    BY <1>3, <1>4
  <2>2. ASSUME NEW r \in SlotIds, First(r)
        PROVE  r = s
    <3>1. ~(s < r) /\ ~(r < s)
      BY <1>3, <1>4, <2>2
    <3> QED
      BY <1>0, <3>1
  <2> HIDE DEF First
  <2> QED
    BY <2>1, <2>2, Zenon
<1>6. find_chunk_in_result(b, i + KeyBase) = {SlotBytes(<<b, r>>).data : r \in {r \in SlotIds : First(r)}}
  BY Zenon DEF find_chunk_in_result, K
<1> QED
  BY <1>3, <1>5, <1>6, Zenon

\* A full bin without the item has no slot that looks like it.
LEMMA NotFoundInFullBin ==
    ASSUME TableInv, NEW b \in Bins, NEW i \in Items, Full(table, b),
           \A s \in SlotIds : table[<<b, s>>] # i
    PROVE  find_chunk_in_result(b, i + KeyBase) = {}
<1>0. Items \subseteq Nat /\ KeyBase \in Nat
  BY CuckooAssumption DEF Items
<1>1. ASSUME NEW s \in SlotIds
      PROVE  SlotBytes(<<b, s>>).key # i + KeyBase
  <2>1. table[<<b, s>>] \in Items /\ table[<<b, s>>] # EMPTY /\ table[<<b, s>>] # i
    BY DEF TableInv, TypeOK, Cells, Full
  <2>2. SlotBytes(<<b, s>>).key = table[<<b, s>>] + KeyBase
    BY <2>1 DEF SlotBytes
  <2>3. \A x, y \in Nat : x # y => x + KeyBase # y + KeyBase
    BY <1>0
  <2> QED
    BY <1>0, <2>1, <2>2, <2>3, Zenon
<1> DEFINE First(r) == /\ SlotBytes(<<b, r>>).key = i + KeyBase
                       /\ \A q \in SlotIds : q < r => SlotBytes(<<b, q>>).key # i + KeyBase
<1>2. {r \in SlotIds : First(r)} = {}
  BY <1>1, Zenon
<1>3. find_chunk_in_result(b, i + KeyBase) = {SlotBytes(<<b, r>>).data : r \in {r \in SlotIds : First(r)}}
  BY Zenon DEF find_chunk_in_result
<1> HIDE DEF First
<1> QED
  BY <1>2, <1>3, Zenon

\* From a written table every item reads back: the bins read before its own
\* are full of others, and after a match no other bin is read.
LEMMA InvReadsBack ==
    ASSUME TableInv
    PROVE  ReadsBack
<1> SUFFICES ASSUME pc = "written", NEW i \in Items
             PROVE  Lookup(i) = {Data(i)}
  BY DEF ReadsBack
<1> DEFINE F(h) == find_chunk_in_result(hash[<<i, h>>], i + KeyBase)
           Read(h) == \A g \in Hashes : g < h => F(g) = {}
<1>0. i # EMPTY /\ Hashes \subseteq Nat
  BY CuckooAssumption DEF Items, EMPTY, Hashes
<1>1. PICK b \in Bins, s \in SlotIds : table[<<b, s>>] = i
  <2>1. ~Outside(i)
    BY DEF Outside
  <2>2. PICK c \in Cells : table[c] = i
    BY <2>1, Zenon DEF TableInv, Placed, Home
  <2> QED
    BY <2>2 DEF Cells
<1>2. PICK h \in Hashes : /\ hash[<<i, h>>] = b
                          /\ \A g \in Hashes : g < h => hash[<<i, g>>] # b /\ Full(table, hash[<<i, g>>])
  BY <1>0, <1>1 DEF TableInv, Sound, AllSettled, Settled
<1>3. F(h) = {Data(i)}
  BY <1>1, <1>2, FoundInOwnSlot
<1>4. ASSUME NEW g \in Hashes, g < h
      PROVE  F(g) = {}
  <2> DEFINE d == hash[<<i, g>>]
  <2>1. d \in Bins /\ d # b /\ Full(table, d)
    BY <1>2, <1>4 DEF TableInv, TypeOK
  <2> HIDE DEF d
  <2>2. \A r \in SlotIds : table[<<d, r>>] # i
    BY <1>0, <1>1, <2>1 DEF TableInv, Sound, Once, Cells
  <2>3. find_chunk_in_result(d, i + KeyBase) = {}
    BY <2>1, <2>2, NotFoundInFullBin
  <2> QED
    BY <2>3 DEF d
<1> HIDE DEF F
<1>5. Lookup(i) = UNION {F(g) : g \in {g \in Hashes : Read(g)}}
  BY Zenon DEF Lookup, F
<1>6. \A g \in Hashes : Read(g) => g <= h
  BY <1>0, <1>3
<1>7. Read(h) /\ \A g \in Hashes : Read(g) => F(g) \subseteq {Data(i)}
  BY <1>0, <1>3, <1>4, <1>6
<1> QED
  BY <1>3, <1>5, <1>7

\* Whatever the numbers of items, bins, slots, hash functions and rounds and
\* whatever the hash functions are, cuckoo_insert neither loses nor doubles an
\* item nor evicts from a bin that is not full, and from a table that was
\* written find_chunk_in_result reads every item back, chunk 0 included.
THEOREM TableIsSafe == Spec => []TableSafe
<1>1. TableInv => TableSafe
  BY InvNothingLost, InvOwnBin, InvReadsBack DEF TableSafe, TableInv
<1> QED
  BY <1>1, TableInvariant, PTL

=============================================================================
