-------------------------- MODULE OramLookupProofs ---------------------------
(***************************************************************************)
(* What direct ORAM lookups promise, for any number of clients, scripts,   *)
(* crashes and failed page or file operations and any access budget.       *)
(***************************************************************************)
EXTENDS OramLookup, SequenceTheorems, TLAPS

\* The provers, in the order a leaf that names none tries them.
USE SMTT(60), ZenonT(60)

Right == {TRUE}
Slots == {s \in Seq(Scripts \cup {None}) : Len(s) \in {1, 2}}
Asks == [id : Nat, slots : Slots]
Pcs == {"lock", "index", "chunk", "flush_index", "state_index", "auth_index",
        "flush_chunk", "state_chunk", "auth_chunk", "reply"}
Txs == [pc : Pcs, q : Asks, reads : Int, right : Right]

\* One transaction at a time, and none while the server is down.
TxInv ==
    /\ up \in BOOLEAN
    /\ tx \in [Clients -> Txs \cup {NoTx}]
    /\ lock \in Clients \cup {None}
    /\ \A c \in Clients : (tx[c].pc \notin {"none", "lock"}) <=> (lock = c)
    /\ ~up => \A c \in Clients : tx[c] = NoTx

Versions == [Halves -> Nat]
Flags == [Halves -> BOOLEAN]

Committed(h) == ver[h] = view[h] => saved[h] = ver[h] /\ root[h] = view[h]

\* The root that pages are checked against is the controller's own, and what
\* is not dirty is on the disk.
PageInv ==
    /\ root \in Versions /\ saved \in Versions /\ auth \in Versions
    /\ ver \in Versions /\ view \in Versions /\ trust \in Versions /\ latest \in Versions
    /\ alien \in Flags /\ dirty \in Flags /\ poisoned \in Flags
    /\ \A h \in Halves :
         /\ root[h] <= latest[h] /\ saved[h] <= latest[h] /\ auth[h] <= latest[h]
         /\ ver[h] <= latest[h] /\ view[h] <= latest[h] /\ trust[h] = ver[h]
         /\ ~dirty[h] => Committed(h)

\* How far the transaction has come: nothing is poisoned in it, and each half
\* is written in the order pages, state, authentication.
Phase(pc) ==
    /\ \A h \in Halves : ~poisoned[h]
    /\ pc = "index" => ~dirty["index"]
    /\ pc \in {"index", "chunk"} => ~dirty["chunk"]
    /\ pc \in {"state_index", "auth_index"} => root["index"] = view["index"]
    /\ pc = "auth_index" => saved["index"] = ver["index"]
    /\ pc \in {"flush_chunk", "state_chunk", "auth_chunk", "reply"} => ~dirty["index"]
    /\ pc \in {"state_chunk", "auth_chunk"} => root["chunk"] = view["chunk"]
    /\ pc = "auth_chunk" => saved["chunk"] = ver["chunk"]
    /\ pc = "reply" => ~dirty["chunk"]

PhaseInv ==
    /\ \A c \in Clients : lock = c => Phase(tx[c].pc)
    /\ up /\ lock = None => \A h \in Halves : dirty[h] => poisoned[h]

CoreInv == TxInv /\ PageInv /\ PhaseInv

\* A request is worked on only while its client's entry is not empty.
LEMMA TxFacts ==
    ASSUME TxInv, NEW c \in Clients, tx[c].pc # "none"
    PROVE  /\ tx[c] \in Txs /\ tx[c].pc \in Pcs /\ tx[c].q \in Asks /\ tx[c].reads \in Int
           /\ tx[c].right = TRUE /\ tx[c] # NoTx
           /\ tx[c].pc # "lock" => lock = c
           /\ tx[c].pc = "lock" => lock # c
<1>1. tx[c] \in Txs \cup {NoTx}
  BY DEF TxInv
<1>2. tx[c] # NoTx
  BY DEF NoTx
<1>3. tx[c] \in Txs
  BY <1>1, <1>2
<1> QED
  BY <1>2, <1>3, Zenon DEF TxInv, Txs, Right

\* The entry of one client moves on, and the lock goes with it.
LEMMA TxMoves ==
    ASSUME TxInv, NoneAssumption, up, up' = up, NEW c \in Clients, NEW w \in Txs \cup {NoTx},
           tx' = [tx EXCEPT ![c] = w],
           \/ lock' = lock /\ ((w.pc \notin {"none", "lock"}) <=> (lock = c))
           \/ lock = None /\ lock' = c /\ w.pc \notin {"none", "lock"}
           \/ lock = c /\ lock' = None /\ w.pc \in {"none", "lock"}
    PROVE  TxInv' /\ tx'[c] = w /\ \A d \in Clients : d # c => tx'[d] = tx[d]
<1>1. tx' \in [Clients -> Txs \cup {NoTx}] /\ tx'[c] = w /\ \A d \in Clients : d # c => tx'[d] = tx[d]
  BY DEF TxInv
<1>2. \A d \in Clients : (tx'[d].pc \notin {"none", "lock"}) <=> (lock' = d)
  BY <1>1 DEF TxInv, NoneAssumption
<1>3. lock' \in Clients \cup {None}
  BY DEF TxInv
<1> QED
  BY <1>1, <1>2, <1>3 DEF TxInv

\* A record with another pc.
LEMMA PcMoves ==
    ASSUME NEW w \in Txs, NEW p \in Pcs
    PROVE  /\ [w EXCEPT !.pc = p] \in Txs /\ [w EXCEPT !.pc = p].pc = p
           /\ [w EXCEPT !.pc = p].q = w.q /\ [w EXCEPT !.pc = p].reads = w.reads
           /\ [w EXCEPT !.pc = p].right = w.right
BY DEF Txs

AfterRead(w, p, n, good) == [w EXCEPT !.pc = p, !.reads = n, !.right = good]

LEMMA ReadsMove ==
    ASSUME NEW w \in Txs, NEW p \in Pcs, NEW n \in Int, NEW good \in Right
    PROVE  /\ AfterRead(w, p, n, good) \in Txs /\ AfterRead(w, p, n, good).pc = p
           /\ AfterRead(w, p, n, good).q = w.q /\ AfterRead(w, p, n, good).reads = n
BY Zenon DEF Txs, AfterRead

\* Reply ends the transaction of its client.
LEMMA ReplyEnds ==
    ASSUME TxInv, NoneAssumption, up, up' = up, NEW c \in Clients, NEW a, Reply(c, a),
           tx[c].pc # "none", lock \in {c, None}
    PROVE  TxInv' /\ lock' = None /\ tx'[c] = NoTx /\ \A d \in Clients : d # c => tx'[d] = tx[d]
<1>1. tx' = [tx EXCEPT ![c] = NoTx] /\ lock' = None
  BY DEF Reply
<1>2. NoTx.pc = "none" /\ NoTx \in Txs \cup {NoTx}
  BY DEF NoTx
<1> HIDE DEF NoTx
<1>3. lock = c \/ (lock = None /\ lock # c)
  BY DEF NoneAssumption
<1> QED
  BY <1>1, <1>2, <1>3, TxMoves, Zenon

-----------------------------------------------------------------------------
(* Steps of the server.                                                    *)

\* Pages, files and memory of both halves are left alone.
LEMMA PageKept ==
    ASSUME PageInv, UNCHANGED <<disk, mem, latest>>
    PROVE  PageInv'
BY DEF PageInv, Committed, disk, mem

LEMMA PhaseKept ==
    ASSUME UNCHANGED <<disk, mem>>, NEW p, Phase(p)
    PROVE  Phase(p)'
BY DEF Phase, disk, mem

\* A step of the network or the clients.
LEMMA Elsewhere ==
    ASSUME CoreInv, UNCHANGED <<up, disk, mem, latest, lock, tx>>
    PROVE  CoreInv'
<1>1. PageInv'
  BY PageKept DEF CoreInv
<1>2. TxInv'
  BY DEF CoreInv, TxInv
<1>3. PhaseInv'
  BY DEF CoreInv, PhaseInv, Phase, disk, mem
<1> QED
  BY <1>1, <1>2, <1>3 DEF CoreInv

LEMMA HandleKeeps ==
    ASSUME CoreInv, NoneAssumption, NEW c \in Clients, handle_oram_lookup(c), Head(inbox[c]) \in Asks
    PROVE  CoreInv'
<1> DEFINE w == [pc |-> "lock", q |-> Head(inbox[c]), reads |-> 0, right |-> TRUE]
<1>0. up /\ tx[c] = NoTx /\ tx' = [tx EXCEPT ![c] = w] /\ UNCHANGED <<up, disk, mem, latest, lock>>
  BY DEF handle_oram_lookup
<1>1. w \in Txs /\ w.pc = "lock" /\ lock # c
  BY <1>0 DEF Txs, Right, Pcs, CoreInv, TxInv, NoTx
<1> HIDE DEF w
<1>2. TxInv' /\ tx'[c] = w /\ \A d \in Clients : d # c => tx'[d] = tx[d]
  BY <1>0, <1>1, TxMoves, Zenon DEF CoreInv
<1>3. PageInv'
  BY <1>0, PageKept DEF CoreInv
<1>4. PhaseInv'
  BY <1>0, <1>1, <1>2 DEF CoreInv, PhaseInv, Phase, disk, mem
<1> QED
  BY <1>2, <1>3, <1>4 DEF CoreInv

LEMMA BeginKeeps ==
    ASSUME CoreInv, NoneAssumption, NEW c \in Clients, Begin(c)
    PROVE  CoreInv'
<1>0. up /\ up' = up /\ tx[c].pc = "lock" /\ lock = None /\ UNCHANGED <<disk, mem, latest>>
  BY DEF Begin
<1>1. PageInv'
  BY <1>0, PageKept DEF CoreInv
<1>2. CASE Preflight(tx[c].q)
  <2> DEFINE w == [tx[c] EXCEPT !.pc = "index"]
  <2>1. lock' = c /\ tx' = [tx EXCEPT ![c] = w]
    BY <1>0, <1>2 DEF Begin
  <2>2. w \in Txs /\ w.pc = "index"
    BY <1>0, TxFacts, PcMoves, ZenonT(60) DEF CoreInv, Pcs
  <2> HIDE DEF w
  <2>3. TxInv' /\ tx'[c] = w
    BY <1>0, <2>1, <2>2, TxMoves, Zenon DEF CoreInv
  <2>4. Phase("index")
    BY <1>0, <1>2 DEF Preflight, CoreInv, PhaseInv, Phase, Halves
  <2>5. Phase("index")'
    BY <1>0, <2>4, PhaseKept
  <2>6. PhaseInv'
    BY <2>1, <2>2, <2>3, <2>5 DEF PhaseInv, NoneAssumption
  <2> QED
    BY <1>1, <2>3, <2>6 DEF CoreInv
<1>3. CASE ~Preflight(tx[c].q)
  <2>1. Reply(c, Refused(c))
    BY <1>3 DEF Begin
  <2>2. TxInv' /\ lock' = None
    BY <1>0, <2>1, ReplyEnds DEF CoreInv
  <2>3. PhaseInv'
    BY <1>0, <2>2 DEF CoreInv, PhaseInv, NoneAssumption, mem
  <2> QED
    BY <1>1, <2>2, <2>3 DEF CoreInv
<1> QED
  BY <1>2, <1>3

\* One access makes a version that the controller, the pages it sees and the
\* root it trusts agree on.
LEMMA AccessKeeps ==
    ASSUME PageInv, NEW h \in Halves, NEW k, Access(h, k)
    PROVE  /\ PageInv' /\ poisoned' = poisoned
           /\ \A g \in Halves : g # h => dirty'[g] = dirty[g]
<1>0. latest[h] + 1 \in Nat
  BY DEF PageInv, Versions
<1>1. /\ latest' \in Versions /\ ver' \in Versions /\ view' \in Versions /\ trust' \in Versions
      /\ root' \in Versions /\ dirty' \in Flags
  BY <1>0 DEF PageInv, Access, Versions, Flags
<1>2. /\ latest'[h] = latest[h] + 1 /\ ver'[h] = latest[h] + 1 /\ view'[h] = latest[h] + 1 /\ trust'[h] = latest[h] + 1
      /\ root'[h] \in {root[h], latest[h] + 1} /\ dirty'[h]
  BY DEF PageInv, Access, Versions, Flags
<1>3. \A g \in Halves : g # h => /\ latest'[g] = latest[g] /\ ver'[g] = ver[g] /\ view'[g] = view[g]
                                 /\ trust'[g] = trust[g] /\ root'[g] = root[g] /\ dirty'[g] = dirty[g]
  BY DEF PageInv, Access, Versions, Flags
<1>4. UNCHANGED <<saved, auth, alien, poisoned>>
  BY DEF Access
<1>5. ASSUME NEW g \in Halves
      PROVE  /\ root'[g] <= latest'[g] /\ saved'[g] <= latest'[g] /\ auth'[g] <= latest'[g]
             /\ ver'[g] <= latest'[g] /\ view'[g] <= latest'[g] /\ trust'[g] = ver'[g]
             /\ ~dirty'[g] => Committed(g)'
  <2>1. CASE g = h
    BY <1>0, <1>2, <1>4, <2>1 DEF PageInv, Versions
  <2>2. CASE g # h
    BY <1>3, <1>4, <2>2 DEF PageInv, Committed
  <2> QED
    BY <2>1, <2>2
<1>6. PageInv'
  BY <1>1, <1>4, <1>5 DEF PageInv
<1> QED
  BY <1>3, <1>4, <1>6

\* An access that fails leaves the half dirty and poisoned, and with it every
\* half that was dirty.
LEMMA AccessFailsKeeps ==
    ASSUME PageInv, NEW h \in Halves, AccessFails(h)
    PROVE  PageInv' /\ \A g \in Halves : dirty'[g] => poisoned'[g]
<1>0. latest[h] + 1 \in Nat
  BY DEF PageInv, Versions
<1>1. /\ latest' \in Versions /\ view' \in Versions /\ root' \in Versions
      /\ dirty' \in Flags /\ poisoned' \in Flags
  BY <1>0 DEF PageInv, AccessFails, Versions, Flags, Poison
<1>2. /\ latest'[h] = latest[h] + 1 /\ view'[h] = latest[h] + 1 /\ root'[h] \in {root[h], latest[h] + 1}
      /\ dirty'[h] /\ poisoned'[h]
  BY Zenon DEF PageInv, AccessFails, Versions, Flags, Poison
<1>3. \A g \in Halves : g # h => /\ latest'[g] = latest[g] /\ view'[g] = view[g] /\ root'[g] = root[g]
                                 /\ dirty'[g] = dirty[g] /\ (dirty[g] => poisoned'[g])
  BY DEF PageInv, AccessFails, Versions, Flags, Poison
<1>4. UNCHANGED <<saved, auth, alien, ver, trust>>
  BY DEF AccessFails
<1>5. ASSUME NEW g \in Halves
      PROVE  /\ root'[g] <= latest'[g] /\ saved'[g] <= latest'[g] /\ auth'[g] <= latest'[g]
             /\ ver'[g] <= latest'[g] /\ view'[g] <= latest'[g] /\ trust'[g] = ver'[g]
             /\ ~dirty'[g] => Committed(g)'
  <2>1. CASE g = h
    BY <1>0, <1>2, <1>4, <2>1 DEF PageInv, Versions
  <2>2. CASE g # h
    BY <1>3, <1>4, <2>2 DEF PageInv, Committed
  <2> QED
    BY <2>1, <2>2
<1>6. PageInv'
  BY <1>1, <1>4, <1>5 DEF PageInv
<1> QED
  BY <1>2, <1>3, <1>6

\* A read that verified is of the controller's version.
LEMMA ReadMoves ==
    ASSUME CoreInv, NoneAssumption, up, up' = up, NEW c \in Clients, NEW h \in Halves, NEW k \in Int,
           NEW p \in Pcs \ {"lock"}, tx[c].pc \notin {"none", "lock"}, Read(c, h, k, p)
    PROVE  /\ TxInv' /\ PageInv' /\ lock' = lock /\ lock = c /\ poisoned' = poisoned
           /\ \A g \in Halves : g # h => dirty'[g] = dirty[g]
           /\ tx'[c].pc = p /\ tx'[c].q = tx[c].q /\ tx'[c].reads = tx[c].reads + k
           /\ \A d \in Clients : d # c => tx'[d] = tx[d]
<1> DEFINE good == tx[c].right /\ (k > 0 => ver[h] = view[h])
           w == [tx[c] EXCEPT !.pc = p, !.reads = tx[c].reads + k, !.right = good]
<1>0. tx' = [tx EXCEPT ![c] = w] /\ lock' = lock
  BY Zenon DEF Read
<1>1. tx[c] \in Txs /\ tx[c].right = TRUE /\ tx[c].reads \in Int /\ lock = c
  BY TxFacts, Zenon DEF CoreInv
<1>2. good = TRUE
  <2>1. k > 0 => ver[h] = view[h]
    BY DEF Read, Verified, CoreInv, PageInv
  <2> QED
    BY <1>1, <2>1
<1> HIDE DEF good
<1>3. w \in Txs /\ w.pc = p /\ w.q = tx[c].q /\ w.reads = tx[c].reads + k
  <2> DEFINE n == tx[c].reads + k
  <2>1. n \in Int /\ p \in Pcs
    BY <1>1
  <2> HIDE DEF n
  <2>2. \E g \in Right : w = AfterRead(tx[c], p, n, g)
    BY <1>2, Zenon DEF AfterRead, n, Right
  <2>3. PICK g \in Right : w = AfterRead(tx[c], p, n, g)
    BY <2>2, Zenon
  <2>4. /\ AfterRead(tx[c], p, n, g) \in Txs /\ AfterRead(tx[c], p, n, g).pc = p
        /\ AfterRead(tx[c], p, n, g).q = tx[c].q /\ AfterRead(tx[c], p, n, g).reads = n
    BY <1>1, <2>1, ReadsMove
  <2> HIDE DEF w
  <2>5. w \in Txs /\ w.pc = p /\ w.q = tx[c].q /\ w.reads = n
    BY <2>3, <2>4, Zenon
  <2> QED
    BY <2>5 DEF n
<1>4. p \notin {"none", "lock"}
  BY DEF Pcs
<1> HIDE DEF w
<1>5. TxInv' /\ tx'[c] = w /\ \A d \in Clients : d # c => tx'[d] = tx[d]
  BY <1>0, <1>1, <1>3, <1>4, TxMoves, Zenon DEF CoreInv
<1>6. CASE k = 0
  <2>1. UNCHANGED <<disk, mem, latest>>
    BY <1>6 DEF Read
  <2>2. PageInv' /\ UNCHANGED <<poisoned, dirty>>
    BY <2>1, PageKept DEF CoreInv, mem
  <2> QED
    BY <1>0, <1>1, <1>3, <1>5, <2>2
<1>7. CASE k # 0
  <2>1. Access(h, k)
    BY <1>7 DEF Read
  <2>2. PageInv' /\ poisoned' = poisoned /\ \A g \in Halves : g # h => dirty'[g] = dirty[g]
    BY <2>1, AccessKeeps DEF CoreInv
  <2> QED
    BY <1>0, <1>1, <1>3, <1>5, <2>2
<1> QED
  BY <1>6, <1>7

LEMMA BudgetFacts ==
    ASSUME OramLookupAssumption, NEW q \in Asks
    PROVE  IndexBudget(q) \in Int /\ ChunkBudget(q) \in Int
<1>1. Len(q.slots) \in Nat
  BY DEF Asks, Slots
<1> QED
  BY <1>1 DEF IndexBudget, ChunkBudget, OramLookupAssumption

LEMMA IndexReadKeeps ==
    ASSUME CoreInv, NoneAssumption, OramLookupAssumption, NEW c \in Clients, lookup_many(c)
    PROVE  /\ CoreInv' /\ lock' = lock /\ tx'[c].q = tx[c].q /\ tx'[c].pc = "chunk"
           /\ tx'[c].reads = tx[c].reads + IndexBudget(tx[c].q)
           /\ \A d \in Clients : d # c => tx'[d] = tx[d]
<1>0. up /\ up' = up /\ tx[c].pc = "index" /\ Read(c, "index", IndexBudget(tx[c].q), "chunk")
  BY DEF lookup_many
<1>1. IndexBudget(tx[c].q) \in Int
  BY <1>0, TxFacts, BudgetFacts, Zenon DEF CoreInv
<1>2. "index" \in Halves /\ "chunk" \in Pcs \ {"lock"}
  BY DEF Halves, Pcs
<1>3. /\ TxInv' /\ PageInv' /\ lock' = lock /\ lock = c /\ poisoned' = poisoned
      /\ \A g \in Halves : g # "index" => dirty'[g] = dirty[g]
      /\ tx'[c].pc = "chunk" /\ tx'[c].q = tx[c].q /\ tx'[c].reads = tx[c].reads + IndexBudget(tx[c].q)
      /\ \A d \in Clients : d # c => tx'[d] = tx[d]
  BY <1>0, <1>1, <1>2, ReadMoves
<1>4. Phase("index")
  BY <1>0, <1>3 DEF CoreInv, PhaseInv
<1>5. Phase("chunk")'
  BY <1>3, <1>4 DEF Phase, Halves
<1>6. PhaseInv'
  BY <1>3, <1>5 DEF PhaseInv, NoneAssumption
<1> QED
  BY <1>3, <1>6 DEF CoreInv

LEMMA ChunkReadKeeps ==
    ASSUME CoreInv, NoneAssumption, OramLookupAssumption, NEW c \in Clients, read_chunks(c)
    PROVE  /\ CoreInv' /\ lock' = lock /\ tx'[c].q = tx[c].q /\ tx'[c].pc = "flush_index"
           /\ tx'[c].reads = tx[c].reads + ChunkBudget(tx[c].q)
           /\ \A d \in Clients : d # c => tx'[d] = tx[d]
<1>0. up /\ up' = up /\ tx[c].pc = "chunk" /\ Read(c, "chunk", ChunkBudget(tx[c].q), "flush_index")
  BY DEF read_chunks, Plan
<1>1. ChunkBudget(tx[c].q) \in Int
  BY <1>0, TxFacts, BudgetFacts, Zenon DEF CoreInv
<1>2. "chunk" \in Halves /\ "flush_index" \in Pcs \ {"lock"}
  BY DEF Halves, Pcs
<1>3. /\ TxInv' /\ PageInv' /\ lock' = lock /\ lock = c /\ poisoned' = poisoned
      /\ \A g \in Halves : g # "chunk" => dirty'[g] = dirty[g]
      /\ tx'[c].pc = "flush_index" /\ tx'[c].q = tx[c].q
      /\ tx'[c].reads = tx[c].reads + ChunkBudget(tx[c].q)
      /\ \A d \in Clients : d # c => tx'[d] = tx[d]
  BY <1>0, <1>1, <1>2, ReadMoves
<1>4. Phase("chunk")
  BY <1>0, <1>3 DEF CoreInv, PhaseInv
<1>5. Phase("flush_index")'
  BY <1>3, <1>4 DEF Phase, Halves
<1>6. PhaseInv'
  BY <1>3, <1>5 DEF PhaseInv, NoneAssumption
<1> QED
  BY <1>3, <1>6 DEF CoreInv

LEMMA ReadFailsKeeps ==
    ASSUME CoreInv, NoneAssumption, NEW c \in Clients, ReadFails(c)
    PROVE  CoreInv'
<1>0. up /\ up' = up /\ tx[c].pc \in {"index", "chunk"} /\ Reply(c, Refused(c)) /\ \E h \in Halves : AccessFails(h)
  BY DEF ReadFails, Halves
<1>1. lock = c
  BY <1>0, TxFacts, Zenon DEF CoreInv
<1>2. TxInv' /\ lock' = None
  BY <1>0, <1>1, ReplyEnds DEF CoreInv
<1>3. PageInv' /\ \A g \in Halves : dirty'[g] => poisoned'[g]
  BY <1>0, AccessFailsKeeps DEF CoreInv
<1>4. PhaseInv'
  BY <1>2, <1>3 DEF PhaseInv, NoneAssumption
<1> QED
  BY <1>2, <1>3, <1>4 DEF CoreInv

\* The transaction takes its next step.
LEMMA StepMoves ==
    ASSUME TxInv, NoneAssumption, up, up' = up, NEW c \in Clients, NEW p \in Pcs \ {"lock"},
           tx[c].pc \notin {"none", "lock"}, tx' = [tx EXCEPT ![c] = [tx[c] EXCEPT !.pc = p]], lock' = lock
    PROVE  /\ TxInv' /\ lock = c
           /\ tx'[c].pc = p /\ tx'[c].q = tx[c].q /\ tx'[c].reads = tx[c].reads
           /\ \A d \in Clients : d # c => tx'[d] = tx[d]
<1> DEFINE w == [tx[c] EXCEPT !.pc = p]
<1>0. tx[c] \in Txs /\ lock = c
  BY TxFacts, Zenon
<1>1. w \in Txs /\ w.pc = p /\ w.q = tx[c].q /\ w.reads = tx[c].reads /\ tx' = [tx EXCEPT ![c] = w]
  BY <1>0, PcMoves
<1>2. w.pc \notin {"none", "lock"} /\ w \in Txs \cup {NoTx}
  BY <1>1 DEF Pcs
<1>a. tx' = [tx EXCEPT ![c] = w]
  BY <1>1
<1> HIDE DEF w
<1>3. TxInv' /\ tx'[c] = w /\ \A d \in Clients : d # c => tx'[d] = tx[d]
  BY <1>0, <1>2, <1>a, TxMoves, ZenonT(60)
<1> QED
  BY <1>0, <1>1, <1>3

\* Phase of the step a transaction has come to.
LEMMA PhaseMoves ==
    ASSUME NoneAssumption, NEW c \in Clients, lock' = c, NEW p \in Pcs, tx'[c].pc = p, Phase(p)'
    PROVE  PhaseInv'
BY DEF PhaseInv, NoneAssumption, Phase

Commits(pc) == pc \in {"flush_index", "state_index", "auth_index", "flush_chunk", "state_chunk", "auth_chunk"}

LEMMA CommitFacts ==
    ASSUME CoreInv, NEW c \in Clients, Commits(tx[c].pc)
    PROVE  tx[c].pc \notin {"none", "lock"} /\ lock = c /\ Phase(tx[c].pc) /\ HalfOf(tx[c].pc) \in Halves
<1>1. tx[c].pc \notin {"none", "lock"} /\ HalfOf(tx[c].pc) \in Halves
  BY DEF Commits, HalfOf, Halves
<1>2. lock = c
  BY <1>1, TxFacts, Zenon DEF CoreInv
<1> QED
  BY <1>1, <1>2 DEF CoreInv, PhaseInv

LEMMA FlushKeeps ==
    ASSUME CoreInv, NoneAssumption, NEW c \in Clients, Flush(c)
    PROVE  /\ CoreInv' /\ lock' = lock
           /\ tx'[c].pc \in {"state_index", "flush_chunk", "state_chunk", "reply"}
           /\ tx'[c].q = tx[c].q /\ tx'[c].reads = tx[c].reads
           /\ \A d \in Clients : d # c => tx'[d] = tx[d]
<1> DEFINE h == HalfOf(tx[c].pc)
<1>0. /\ up /\ up' = up /\ tx[c].pc \in {"flush_index", "flush_chunk"}
      /\ UNCHANGED <<saved, auth, alien, mem, latest, lock>>
  BY DEF Flush, AtStep
<1>1. tx[c].pc \notin {"none", "lock"} /\ lock = c /\ Phase(tx[c].pc) /\ h \in Halves
  BY <1>0, CommitFacts, ZenonT(60) DEF Commits
<1>2. CASE ~dirty[h]
  <2> DEFINE p == IF h = "index" THEN "flush_chunk" ELSE "reply"
  <2>1. tx' = [tx EXCEPT ![c] = [tx[c] EXCEPT !.pc = p]] /\ root' = root
    BY <1>2 DEF Flush
  <2>2. p \in Pcs \ {"lock"} /\ p \in {"flush_chunk", "reply"}
    BY DEF Pcs
  <2>3. Phase(p)
    BY <1>0, <1>1, <1>2 DEF Phase, HalfOf
  <2> HIDE DEF p
  <2>4. /\ TxInv' /\ tx'[c].pc = p /\ tx'[c].q = tx[c].q /\ tx'[c].reads = tx[c].reads
        /\ \A d \in Clients : d # c => tx'[d] = tx[d]
    BY <1>0, <1>1, <2>1, <2>2, StepMoves, Zenon DEF CoreInv
  <2>5. UNCHANGED <<disk, mem, latest>>
    BY <1>0, <2>1 DEF disk
  <2>6. PageInv'
    BY <2>5, PageKept DEF CoreInv
  <2>7. ASSUME NEW q \in Pcs, q = p
        PROVE  PhaseInv'
    <3>1. Phase(q)'
      BY <2>3, <2>5, <2>7, PhaseKept
    <3> QED
      BY <1>0, <1>1, <2>4, <2>7, <3>1, PhaseMoves
  <2> QED
    BY <1>0, <2>2, <2>4, <2>6, <2>7 DEF CoreInv
<1>3. CASE dirty[h]
  <2> DEFINE p == After(tx[c].pc)
  <2>1. tx' = [tx EXCEPT ![c] = [tx[c] EXCEPT !.pc = p]] /\ root' = [root EXCEPT ![h] = view[h]]
    BY <1>3 DEF Flush, Forward, flush_oram
  <2>2. /\ p \in Pcs \ {"lock"} /\ p \in {"state_index", "state_chunk"}
        /\ (p = "state_index" => h = "index") /\ (p = "state_chunk" => h = "chunk" /\ tx[c].pc = "flush_chunk")
    BY <1>0 DEF After, Pcs, HalfOf
  <2> HIDE DEF p
  <2>3. /\ TxInv' /\ tx'[c].pc = p /\ tx'[c].q = tx[c].q /\ tx'[c].reads = tx[c].reads
        /\ \A d \in Clients : d # c => tx'[d] = tx[d]
    BY <1>0, <1>1, <2>1, <2>2, StepMoves, ZenonT(60) DEF CoreInv
  <2>4. UNCHANGED <<ver, view, trust, dirty, poisoned>>
    BY <1>0 DEF mem
  <2>5. /\ root' \in Versions /\ root'[h] = view[h] /\ \A g \in Halves : g # h => root'[g] = root[g]
    BY <1>1, <2>1 DEF CoreInv, PageInv, Versions
  <2>6. ASSUME NEW g \in Halves
        PROVE  root'[g] <= latest'[g] /\ (~dirty'[g] => Committed(g)')
    <3>1. CASE g = h
      BY <1>0, <1>3, <2>4, <2>5, <3>1, ZenonT(60) DEF CoreInv, PageInv
    <3>2. CASE g # h
      BY <1>0, <2>4, <2>5, <3>2, ZenonT(60) DEF CoreInv, PageInv, Committed
    <3> QED
      BY <3>1, <3>2, ZenonT(60)
  <2>7. PageInv'
    BY <1>0, <2>4, <2>5, <2>6, ZenonT(60) DEF CoreInv, PageInv
  <2>8. ASSUME NEW q \in Pcs, q = p
        PROVE  PhaseInv'
    <3>1. Phase(q)'
      BY <1>1, <2>2, <2>4, <2>5, <2>8 DEF Phase
    <3> QED
      BY <1>0, <1>1, <2>3, <2>8, <3>1, PhaseMoves
  <2> QED
    BY <1>0, <2>2, <2>3, <2>7, <2>8 DEF CoreInv
<1>4. dirty[h] \/ ~dirty[h]
  OBVIOUS
<1> QED
  BY <1>2, <1>3, <1>4

LEMMA SaveStateKeeps ==
    ASSUME CoreInv, NoneAssumption, NEW c \in Clients, save_circuit_oram_state(c)
    PROVE  /\ CoreInv' /\ lock' = lock
           /\ tx'[c].pc \in {"auth_index", "auth_chunk"}
           /\ tx'[c].q = tx[c].q /\ tx'[c].reads = tx[c].reads
           /\ \A d \in Clients : d # c => tx'[d] = tx[d]
<1> DEFINE h == HalfOf(tx[c].pc)
           p == After(tx[c].pc)
<1>0. /\ up /\ up' = up /\ tx[c].pc \in {"state_index", "state_chunk"}
      /\ saved' = [saved EXCEPT ![h] = ver[h]]
      /\ UNCHANGED <<root, auth, alien, mem, latest, lock>>
      /\ tx' = [tx EXCEPT ![c] = [tx[c] EXCEPT !.pc = p]]
  BY DEF save_circuit_oram_state, AtStep, Forward
<1>1. tx[c].pc \notin {"none", "lock"} /\ lock = c /\ Phase(tx[c].pc) /\ h \in Halves
  BY <1>0, CommitFacts DEF Commits
<1>2. /\ p \in Pcs \ {"lock"} /\ p \in {"auth_index", "auth_chunk"}
      /\ (p = "auth_index" => h = "index" /\ tx[c].pc = "state_index")
      /\ (p = "auth_chunk" => h = "chunk" /\ tx[c].pc = "state_chunk")
  BY <1>0 DEF After, Pcs, HalfOf
<1> HIDE DEF p
<1>3. /\ TxInv' /\ tx'[c].pc = p /\ tx'[c].q = tx[c].q /\ tx'[c].reads = tx[c].reads
      /\ \A d \in Clients : d # c => tx'[d] = tx[d]
  BY <1>0, <1>1, <1>2, StepMoves, Zenon DEF CoreInv
<1>4. UNCHANGED <<ver, view, trust, dirty, poisoned>>
  BY <1>0 DEF mem
<1>5. /\ saved' \in Versions /\ saved'[h] = ver[h] /\ \A g \in Halves : g # h => saved'[g] = saved[g]
  BY <1>0, <1>1 DEF CoreInv, PageInv, Versions
<1>6. ASSUME NEW g \in Halves
      PROVE  saved'[g] <= latest'[g] /\ (~dirty'[g] => Committed(g)')
  <2>1. CASE g = h
    BY <1>0, <1>4, <1>5, <2>1 DEF CoreInv, PageInv, Committed
  <2>2. CASE g # h
    BY <1>0, <1>4, <1>5, <2>2 DEF CoreInv, PageInv, Committed
  <2> QED
    BY <2>1, <2>2
<1>7. PageInv'
  BY <1>0, <1>4, <1>5, <1>6 DEF CoreInv, PageInv
<1>8. ASSUME NEW q \in Pcs, q = p
      PROVE  PhaseInv'
  <2>1. Phase(q)'
    BY <1>0, <1>1, <1>2, <1>4, <1>5, <1>8 DEF Phase
  <2> QED
    BY <1>0, <1>1, <1>3, <1>8, <2>1, PhaseMoves
<1> QED
  BY <1>0, <1>2, <1>3, <1>7, <1>8 DEF CoreInv

LEMMA SaveAuthKeeps ==
    ASSUME CoreInv, NoneAssumption, NEW c \in Clients, save_circuit_store_auth(c)
    PROVE  /\ CoreInv' /\ lock' = lock
           /\ tx'[c].pc \in {"flush_chunk", "reply"}
           /\ tx'[c].q = tx[c].q /\ tx'[c].reads = tx[c].reads
           /\ \A d \in Clients : d # c => tx'[d] = tx[d]
<1> DEFINE h == HalfOf(tx[c].pc)
           p == After(tx[c].pc)
<1>0. /\ up /\ up' = up /\ tx[c].pc \in {"auth_index", "auth_chunk"}
      /\ auth' = [auth EXCEPT ![h] = trust[h]] /\ dirty' = [dirty EXCEPT ![h] = FALSE]
      /\ UNCHANGED <<root, saved, alien, ver, view, trust, poisoned, latest, lock>>
      /\ tx' = [tx EXCEPT ![c] = [tx[c] EXCEPT !.pc = p]]
  BY DEF save_circuit_store_auth, AtStep, Forward
<1>1. tx[c].pc \notin {"none", "lock"} /\ lock = c /\ Phase(tx[c].pc) /\ h \in Halves
  BY <1>0, CommitFacts DEF Commits
<1>2. /\ p \in Pcs \ {"lock"} /\ p \in {"flush_chunk", "reply"}
      /\ (p = "flush_chunk" => h = "index" /\ tx[c].pc = "auth_index")
      /\ (p = "reply" => h = "chunk" /\ tx[c].pc = "auth_chunk")
  BY <1>0 DEF After, Pcs, HalfOf
<1>a. root[h] = view[h] /\ saved[h] = ver[h]
  BY <1>0, <1>1 DEF Phase, HalfOf
<1> HIDE DEF p
<1>3. /\ TxInv' /\ tx'[c].pc = p /\ tx'[c].q = tx[c].q /\ tx'[c].reads = tx[c].reads
      /\ \A d \in Clients : d # c => tx'[d] = tx[d]
  BY <1>0, <1>1, <1>2, StepMoves, ZenonT(60) DEF CoreInv
<1>4. /\ auth' \in Versions /\ auth'[h] = trust[h] /\ \A g \in Halves : g # h => auth'[g] = auth[g]
  BY <1>0, <1>1 DEF CoreInv, PageInv, Versions
<1>5. /\ dirty' \in Flags /\ ~dirty'[h] /\ \A g \in Halves : g # h => dirty'[g] = dirty[g]
  BY <1>0, <1>1, ZenonT(60) DEF CoreInv, PageInv, Flags
<1>6. ASSUME NEW g \in Halves
      PROVE  auth'[g] <= latest'[g] /\ (~dirty'[g] => Committed(g)')
  <2>1. CASE g = h
    BY <1>0, <1>a, <1>4, <2>1 DEF CoreInv, PageInv, Committed
  <2>2. CASE g # h
    BY <1>0, <1>4, <1>5, <2>2, ZenonT(60) DEF CoreInv, PageInv, Committed
  <2> QED
    BY <2>1, <2>2
<1>7. PageInv'
  BY <1>0, <1>4, <1>5, <1>6 DEF CoreInv, PageInv
<1>8. ASSUME NEW q \in Pcs, q = p
      PROVE  PhaseInv'
  <2>1. Phase(q)'
    BY <1>0, <1>1, <1>2, <1>5, <1>8 DEF Phase, Halves
  <2> QED
    BY <1>0, <1>1, <1>3, <1>8, <2>1, PhaseMoves
<1> QED
  BY <1>0, <1>2, <1>3, <1>7, <1>8 DEF CoreInv

\* A step of the commit that fails poisons what it leaves dirty.
LEMMA CommitFailsKeeps ==
    ASSUME CoreInv, NoneAssumption, NEW c \in Clients, CommitFails(c)
    PROVE  CoreInv'
<1> DEFINE h == HalfOf(tx[c].pc)
<1>0. /\ up /\ up' = up /\ Commits(tx[c].pc) /\ Reply(c, Refused(c))
      /\ Poison({h} \cup {g \in Halves : h = "index" /\ dirty[g]})
      /\ UNCHANGED <<disk, ver, view, trust, dirty, latest>>
  BY ZenonT(60) DEF CommitFails, AtStep, Commits
<1>1. tx[c].pc \notin {"none", "lock"} /\ lock = c /\ Phase(tx[c].pc) /\ h \in Halves
  BY <1>0, CommitFacts, ZenonT(60)
<1>2. TxInv' /\ lock' = None
  BY <1>0, <1>1, ReplyEnds DEF CoreInv
<1>3. poisoned' \in Flags
  BY <1>0, ZenonT(60) DEF Poison, Flags, CoreInv, PageInv
<1>4. PageInv'
  BY <1>0, <1>3 DEF CoreInv, PageInv, Committed, disk
<1>5. \A g \in Halves : dirty'[g] => poisoned'[g]
  <2>1. \A g \in Halves : g # h /\ dirty[g] => h = "index"
    BY <1>0, <1>1 DEF Commits, HalfOf, Phase, Halves
  <2> QED
    BY <1>0, <2>1, Zenon DEF Poison
<1>6. PhaseInv'
  BY <1>2, <1>5, ZenonT(60) DEF PhaseInv, NoneAssumption
<1> QED
  BY <1>2, <1>4, <1>6, ZenonT(60) DEF CoreInv

LEMMA AnswerKeeps ==
    ASSUME CoreInv, NoneAssumption, NEW c \in Clients, Answer(c)
    PROVE  CoreInv'
<1>0. up /\ up' = up /\ tx[c].pc = "reply" /\ UNCHANGED <<disk, mem, latest>> /\ \E a : Reply(c, a)
  BY DEF Answer, AtStep
<1>1. lock = c
  BY <1>0, TxFacts, ZenonT(60) DEF CoreInv
<1>2. TxInv' /\ lock' = None
  BY <1>0, <1>1, ReplyEnds DEF CoreInv
<1>3. PageInv'
  BY <1>0, PageKept, ZenonT(60) DEF CoreInv
<1>4. \A g \in Halves : ~dirty[g]
  BY <1>0, <1>1, ZenonT(60) DEF CoreInv, PhaseInv, Phase, Halves
<1>5. PhaseInv'
  BY <1>0, <1>2, <1>4 DEF PhaseInv, NoneAssumption, mem
<1> QED
  BY <1>2, <1>3, <1>5 DEF CoreInv

LEMMA CrashKeeps ==
    ASSUME CoreInv, NoneAssumption, Crash
    PROVE  CoreInv'
<1>0. /\ up' = FALSE /\ lock' = None /\ tx' = [c \in Clients |-> NoTx]
      /\ alien' = [h \in Halves |-> alien[h] \/ (Cached /\ view[h] # root[h])]
      /\ UNCHANGED <<root, saved, auth, ver, view, trust, dirty, poisoned, latest>>
  BY DEF Crash, mem
<1>1. TxInv'
  BY <1>0, Zenon DEF TxInv, NoTx, NoneAssumption
<1>2. alien' \in Flags
  BY <1>0, ZenonT(60) DEF Flags
<1>3. PageInv'
  BY <1>0, <1>2, ZenonT(60) DEF CoreInv, PageInv, Committed
<1>4. PhaseInv'
  BY <1>0 DEF PhaseInv, NoneAssumption
<1> QED
  BY <1>1, <1>3, <1>4, ZenonT(60) DEF CoreInv

LEMMA OpenKeeps ==
    ASSUME CoreInv, NoneAssumption, open_with_trusted_state
    PROVE  CoreInv'
<1>0. /\ ~up /\ up' = TRUE /\ ver' = saved /\ view' = root /\ trust' = saved
      /\ dirty' = Both(FALSE) /\ poisoned' = Both(FALSE)
      /\ UNCHANGED <<root, saved, auth, alien, latest, lock, tx>>
  BY DEF open_with_trusted_state, open_existing_direct_oram_stores, disk
<1>1. TxInv'
  BY <1>0 DEF CoreInv, TxInv
<1>2. dirty' \in Flags /\ poisoned' \in Flags /\ \A h \in Halves : ~dirty'[h]
  BY <1>0 DEF Both, Flags
<1>3. PageInv'
  BY <1>0, <1>2, Zenon DEF CoreInv, PageInv, Committed
<1>4. \A c \in Clients : lock # c
  BY <1>0 DEF CoreInv, TxInv, NoTx
<1>5. PhaseInv'
  BY <1>0, <1>2, <1>4, ZenonT(60) DEF PhaseInv
<1> QED
  BY <1>1, <1>3, <1>5 DEF CoreInv

LEMMA InitCore ==
    ASSUME NoneAssumption, OramInit
    PROVE  CoreInv
<1>1. TxInv
  BY DEF OramInit, TxInv, NoTx, NoneAssumption
<1>2. PageInv
  BY DEF OramInit, PageInv, Both, Versions, Flags, Committed
<1>3. PhaseInv
  BY DEF OramInit, PhaseInv, Both, NoneAssumption
<1> QED
  BY <1>1, <1>2, <1>3, ZenonT(60) DEF CoreInv

-----------------------------------------------------------------------------
(* Requests, answers and the reads they cost.                              *)

Wrong == {FALSE}
Replies == [id : Nat, ok : Wrong]
             \cup [id : Nat, ok : BOOLEAN, items : Nat, right : Right, size : Int]

\* The one request of a client that gave none up is in its inbox, worked on,
\* or answered.
OwnInv(c) ==
    \/ late[c]
    \/ asked[c] = <<>> /\ inbox[c] = <<>> /\ outbox[c] = <<>> /\ tx[c] = NoTx
    \/ \E q \in Asks :
         /\ asked[c] = <<q>>
         /\ \/ inbox[c] = <<q>> /\ outbox[c] = <<>> /\ tx[c] = NoTx
            \/ inbox[c] = <<>> /\ outbox[c] = <<>> /\ tx[c] # NoTx /\ tx[c].q = q
            \/ inbox[c] = <<>> /\ tx[c] = NoTx /\ \E a \in Replies : outbox[c] = <<a>> /\ a.id = q.id

LastInv(c) ==
    last[c].pc = "ok" => last[c].right /\ (last[c].own \/ last[c].late)

WireInv ==
    /\ inbox \in [Clients -> Seq(Asks)] /\ outbox \in [Clients -> Seq(Replies)]
    /\ asked \in [Clients -> Seq(Asks)]
    /\ \A c \in Clients : asked[c] = <<>> \/ \E q \in Asks : asked[c] = <<q>>
    /\ issued \in [Clients -> Nat] /\ late \in [Clients -> BOOLEAN]
    /\ last = [c \in Clients |-> last[c]]
    /\ \A c \in Clients : OwnInv(c) /\ LastInv(c)

\* The reads of a transaction so far.
ReadsOf(w) ==
    /\ w.pc \in {"lock", "index"} => w.reads = 0
    /\ w.pc = "chunk" => w.reads = IndexBudget(w.q)
    /\ w.pc \in Pcs \ {"lock", "index", "chunk"} => w.reads = AccessBudget

ReadsInv ==
    /\ chunks \in [Scripts -> Int]
    /\ \A c \in Clients : ReadsOf(tx[c])
    /\ FixedReads

OramInv == CoreInv /\ WireInv /\ ReadsInv

\* A request is a request, a refusal is an answer.
LEMMA SlotsFacts ==
    ASSUME NEW s \in Scripts, NEW n \in {1, 2}
    PROVE  padded_lookup_slots(s, n) \in Slots
<1>1. padded_lookup_slots(s, n) \in [1..n -> Scripts \cup {None}]
  BY DEF padded_lookup_slots
<1>2. padded_lookup_slots(s, n) \in Seq(Scripts \cup {None}) /\ Len(padded_lookup_slots(s, n)) = n
  BY <1>1
<1> QED
  BY <1>2 DEF Slots

LEMMA ReplyFacts ==
    ASSUME NEW a \in Replies, a.ok
    PROVE  a.right /\ a.id \in Nat
BY Zenon DEF Replies, Right, Wrong

LEMMA RefusedFacts ==
    ASSUME TxInv, NEW c \in Clients, tx[c].pc # "none"
    PROVE  Refused(c) \in Replies /\ Refused(c).id = tx[c].q.id
<1>1. tx[c].q.id \in Nat
  BY TxFacts, Zenon DEF Asks
<1> QED
  BY <1>1 DEF Refused, Replies, Wrong

LEMMA DemandFacts ==
    ASSUME chunks \in [Scripts -> Int], NEW q \in Asks
    PROVE  Demand(q) \in Int /\ Len(q.slots) \in Nat
<1> DEFINE need(i) == IF q.slots[i] = None \/ chunks[q.slots[i]] < 0 THEN 0 ELSE chunks[q.slots[i]]
<1>1. q.slots \in Seq(Scripts \cup {None}) /\ Len(q.slots) \in {1, 2}
  BY DEF Asks, Slots
<1>2. \A i \in 1..Len(q.slots) : q.slots[i] \in Scripts \cup {None}
  BY <1>1, ElementOfSeq
<1>3. q.slots[1] \in Scripts \cup {None} /\ (Len(q.slots) = 2 => q.slots[2] \in Scripts \cup {None})
  BY <1>1, <1>2
<1>4. Demand(q) = IF Len(q.slots) = 2 THEN need(1) + need(2) ELSE need(1)
  BY DEF Demand
<1>5. need(1) \in Int /\ (Len(q.slots) = 2 => need(2) \in Int)
  BY <1>3
<1> HIDE DEF need
<1> QED
  BY <1>1, <1>4, <1>5

-----------------------------------------------------------------------------
(* What a step of the server does to the requests and answers.             *)

\* The transaction of c moves on and the frames stay where they are.
LEMMA WireKept ==
    ASSUME WireInv, UNCHANGED wire, NEW c \in Clients, tx[c] # NoTx, tx'[c] # NoTx, tx'[c].q = tx[c].q,
           \A d \in Clients : d # c => tx'[d] = tx[d]
    PROVE  WireInv'
<1>0. UNCHANGED <<inbox, outbox, asked, issued, late, last>>
  BY DEF wire
<1>1. ASSUME NEW d \in Clients
      PROVE  OwnInv(d)' /\ LastInv(d)'
  <2>0. OwnInv(d) /\ LastInv(d)
    BY ZenonT(60) DEF WireInv
  <2>1. CASE d = c
    BY <1>0, <2>0, <2>1, ZenonT(60) DEF OwnInv, LastInv
  <2>2. CASE d # c
    <3>1. tx'[d] = tx[d]
      BY <2>2
    <3> QED
      BY <1>0, <2>0, <3>1 DEF OwnInv, LastInv
  <2> QED
    BY <2>1, <2>2
<1> QED
  BY <1>0, <1>1 DEF WireInv

\* The transaction of c ends with an answer that names its request.
LEMMA ReplyWire ==
    ASSUME WireInv, NEW c \in Clients, NEW a \in Replies, Reply(c, a), tx[c] # NoTx, a.id = tx[c].q.id,
           tx \in [Clients -> Txs \cup {NoTx}]
    PROVE  WireInv'
<1>0. /\ outbox' = [outbox EXCEPT ![c] = Append(outbox[c], a)] /\ tx' = [tx EXCEPT ![c] = NoTx]
      /\ UNCHANGED <<inbox, asked, issued, late, last>>
  BY DEF Reply
<1>1. outbox[c] \in Seq(Replies)
  BY ZenonT(60) DEF WireInv
<1>a. Append(outbox[c], a) \in Seq(Replies)
  BY <1>1, AppendProperties
<1>b. Append(<<>>, a) = <<a>>
  OBVIOUS
<1>2. Append(outbox[c], a) \in Seq(Replies) /\ (outbox[c] = <<>> => Append(outbox[c], a) = <<a>>)
  BY <1>a, <1>b, ZenonT(60)
<1>3. outbox' \in [Clients -> Seq(Replies)]
  BY <1>0, <1>2 DEF WireInv
<1>4. /\ outbox'[c] = Append(outbox[c], a) /\ tx'[c] = NoTx
      /\ \A d \in Clients : d # c => outbox'[d] = outbox[d] /\ tx'[d] = tx[d]
  BY <1>0 DEF WireInv
<1>5. ASSUME NEW d \in Clients
      PROVE  OwnInv(d)' /\ LastInv(d)'
  <2>0. OwnInv(d) /\ LastInv(d)
    BY ZenonT(60) DEF WireInv
  <2>a. LastInv(d)'
    BY <1>0, <2>0, ZenonT(60) DEF LastInv
  <2>1. CASE d = c
    <3>1. CASE late[c]
      BY <1>0, <2>1, <2>a, <3>1, ZenonT(60) DEF OwnInv
    <3>2. CASE ~late[c]
      <4>1. PICK q \in Asks : asked[c] = <<q>> /\ inbox[c] = <<>> /\ outbox[c] = <<>> /\ tx[c].q = q
        BY <2>0, <2>1, <3>2, ZenonT(60) DEF OwnInv
      <4>2. outbox'[c] = <<a>> /\ a.id = q.id
        BY <1>2, <1>4, <4>1, ZenonT(60)
      <4> QED
        BY <1>0, <1>4, <2>1, <2>a, <4>1, <4>2, ZenonT(60) DEF OwnInv
    <3> QED
      BY <3>1, <3>2, ZenonT(60)
  <2>2. CASE d # c
    <3>1. outbox'[d] = outbox[d] /\ tx'[d] = tx[d]
      BY <1>4, <2>2
    <3> QED
      BY <1>0, <2>0, <2>a, <3>1, ZenonT(60) DEF OwnInv
  <2> QED
    BY <2>1, <2>2
<1> QED
  BY <1>0, <1>3, <1>5, ZenonT(60) DEF WireInv

\* The next request of a connection is taken up.
LEMMA HandleWire ==
    ASSUME CoreInv, WireInv, NEW c \in Clients, handle_oram_lookup(c)
    PROVE  WireInv' /\ Head(inbox[c]) \in Asks
<1>0. /\ tx[c] = NoTx /\ inbox[c] # <<>> /\ inbox' = [inbox EXCEPT ![c] = Tail(inbox[c])]
      /\ tx' = [tx EXCEPT ![c] = [pc |-> "lock", q |-> Head(inbox[c]), reads |-> 0, right |-> TRUE]]
      /\ UNCHANGED <<outbox, asked, issued, late, last>>
  BY Zenon DEF handle_oram_lookup
<1>1. inbox[c] \in Seq(Asks)
  BY DEF WireInv
<1>2. Head(inbox[c]) \in Asks /\ Tail(inbox[c]) \in Seq(Asks)
  BY <1>0, <1>1
<1>3. inbox' \in [Clients -> Seq(Asks)]
  BY <1>0, <1>2, ZenonT(60) DEF WireInv
<1>4. /\ inbox'[c] = Tail(inbox[c]) /\ tx'[c] # NoTx /\ tx'[c].q = Head(inbox[c])
      /\ \A d \in Clients : d # c => inbox'[d] = inbox[d] /\ tx'[d] = tx[d]
  BY <1>0 DEF WireInv, CoreInv, TxInv, NoTx
<1>5. ASSUME NEW d \in Clients
      PROVE  OwnInv(d)' /\ LastInv(d)'
  <2>0. OwnInv(d) /\ LastInv(d)
    BY ZenonT(60) DEF WireInv
  <2>a. LastInv(d)'
    BY <1>0, <2>0 DEF LastInv
  <2>1. CASE d = c
    <3>1. CASE late[c]
      BY <1>0, <2>1, <2>a, <3>1, ZenonT(60) DEF OwnInv
    <3>2. CASE ~late[c]
      <4>1. PICK q \in Asks : asked[c] = <<q>> /\ inbox[c] = <<q>> /\ outbox[c] = <<>>
        BY <1>0, <2>0, <2>1, <3>2, ZenonT(60) DEF OwnInv
      <4>2. inbox'[c] = <<>> /\ tx'[c].q = q
        BY <1>4, <4>1
      <4> QED
        BY <1>0, <1>4, <2>1, <2>a, <4>1, <4>2 DEF OwnInv
    <3> QED
      BY <3>1, <3>2, ZenonT(60)
  <2>2. CASE d # c
    <3>1. inbox'[d] = inbox[d] /\ tx'[d] = tx[d]
      BY <1>4, <2>2, ZenonT(60)
    <3> QED
      BY <1>0, <2>0, <2>a, <3>1, ZenonT(60) DEF OwnInv
  <2> QED
    BY <2>1, <2>2
<1> QED
  BY <1>0, <1>2, <1>3, <1>5 DEF WireInv

\* A client asks for one script, padded to n slots.
LEMMA QueryWire ==
    ASSUME WireInv, NEW c \in Clients, query_batch_padded(c)
    PROVE  WireInv'
<1>0. /\ asked[c] = <<>> /\ issued' = [issued EXCEPT ![c] = issued[c] + 1] /\ UNCHANGED <<tx, outbox, late, last>>
  BY DEF query_batch_padded
<1>1. PICK s \in Scripts, n \in {1, 2} :
        /\ asked' = [asked EXCEPT ![c] = <<[id |-> issued[c] + 1, slots |-> padded_lookup_slots(s, n)]>>]
        /\ inbox' = [inbox EXCEPT ![c] = Append(inbox[c], [id |-> issued[c] + 1, slots |-> padded_lookup_slots(s, n)])]
  BY Zenon DEF query_batch_padded
<1> DEFINE q == [id |-> issued[c] + 1, slots |-> padded_lookup_slots(s, n)]
<1>2. q \in Asks
  BY SlotsFacts DEF WireInv, Asks
<1>3. asked' = [asked EXCEPT ![c] = <<q>>] /\ inbox' = [inbox EXCEPT ![c] = Append(inbox[c], q)]
  BY <1>1
<1> HIDE DEF q
<1>4. <<q>> \in Seq(Asks) /\ Append(inbox[c], q) \in Seq(Asks) /\ Append(<<>>, q) = <<q>>
  BY <1>2 DEF WireInv
<1>5. /\ asked' \in [Clients -> Seq(Asks)] /\ inbox' \in [Clients -> Seq(Asks)] /\ issued' \in [Clients -> Nat]
      /\ asked'[c] = <<q>> /\ inbox'[c] = Append(inbox[c], q)
      /\ \A d \in Clients : d # c => asked'[d] = asked[d] /\ inbox'[d] = inbox[d]
  BY <1>0, <1>3, <1>4 DEF WireInv
<1>6. ASSUME NEW d \in Clients
      PROVE  OwnInv(d)' /\ LastInv(d)' /\ (asked'[d] = <<>> \/ \E r \in Asks : asked'[d] = <<r>>)
  <2>0. OwnInv(d) /\ LastInv(d) /\ (asked[d] = <<>> \/ \E r \in Asks : asked[d] = <<r>>)
    BY DEF WireInv
  <2>a. LastInv(d)'
    BY <1>0, <2>0, ZenonT(60) DEF LastInv
  <2>1. CASE d = c
    <3>1. late[c] \/ (inbox[c] = <<>> /\ outbox[c] = <<>> /\ tx[c] = NoTx)
      BY <1>0, <2>0, <2>1 DEF OwnInv
    <3> QED
      BY <1>0, <1>2, <1>4, <1>5, <2>1, <2>a, <3>1, ZenonT(60) DEF OwnInv
  <2>2. CASE d # c
    <3>1. asked'[d] = asked[d] /\ inbox'[d] = inbox[d]
      BY <1>5, <2>2
    <3> QED
      BY <1>0, <2>0, <2>a, <3>1, ZenonT(60) DEF OwnInv
  <2> QED
    BY <2>1, <2>2
<1> QED
  BY <1>0, <1>5, <1>6, ZenonT(60) DEF WireInv

\* The answer a client takes is to the request it waits for, unless it gave
\* one up before.
LEMMA ReceiveWire ==
    ASSUME WireInv, NEW c \in Clients, Receive(c)
    PROVE  WireInv'
<1> DEFINE a == Head(outbox[c])
           ok == decode_oram_lookup_response(a, asked[c][1])
           r == IF ok
                  THEN [pc |-> "ok", own |-> a.id = asked[c][1].id, late |-> late[c], right |-> a.right,
                        size |-> a.size, n |-> a.items]
                  ELSE [pc |-> "err"]
<1>0. /\ asked[c] # <<>> /\ outbox[c] # <<>> /\ outbox' = [outbox EXCEPT ![c] = Tail(outbox[c])]
      /\ asked' = [asked EXCEPT ![c] = <<>>] /\ last' = [last EXCEPT ![c] = r]
      /\ UNCHANGED <<tx, inbox, issued, late>>
  BY Zenon DEF Receive, TakeAnswer
<1>1. outbox[c] \in Seq(Replies)
  BY ZenonT(60) DEF WireInv
<1>2. a \in Replies /\ Tail(outbox[c]) \in Seq(Replies) /\ <<>> \in Seq(Asks)
  BY <1>0, <1>1
<1>3. ok => a.right
  BY <1>2, ReplyFacts DEF decode_oram_lookup_response
<1>4. late[c] \/ (a.id = asked[c][1].id /\ inbox[c] = <<>> /\ Tail(outbox[c]) = <<>> /\ tx[c] = NoTx)
  <2>1. CASE ~late[c]
    <3>1. OwnInv(c)
      BY DEF WireInv
    <3>2. PICK q \in Asks, b \in Replies :
            asked[c] = <<q>> /\ inbox[c] = <<>> /\ tx[c] = NoTx /\ outbox[c] = <<b>> /\ b.id = q.id
      BY <1>0, <2>1, <3>1, ZenonT(60) DEF OwnInv
    <3> QED
      BY <3>2
  <2> QED
    BY <2>1
<1>5. r.pc = "ok" => r.right /\ (r.own \/ r.late)
  <2>1. CASE ok
    <3>1. r.right = a.right /\ r.own = (a.id = asked[c][1].id) /\ r.late = late[c]
      BY <2>1
    <3> HIDE DEF a, ok, r
    <3> QED
      BY <1>3, <1>4, <2>1, <3>1, ZenonT(60)
  <2>2. CASE ~ok
    BY <2>2, ZenonT(60)
  <2> QED
    BY <2>1, <2>2, ZenonT(60)
<1> HIDE DEF r, ok
<1>6. /\ asked' \in [Clients -> Seq(Asks)] /\ outbox' \in [Clients -> Seq(Replies)]
      /\ asked'[c] = <<>> /\ outbox'[c] = Tail(outbox[c])
      /\ \A d \in Clients : d # c => asked'[d] = asked[d] /\ outbox'[d] = outbox[d]
  BY <1>0, <1>2 DEF WireInv
<1>7. /\ last' = [d \in Clients |-> last'[d]] /\ last'[c] = r
      /\ \A d \in Clients : d # c => last'[d] = last[d]
  BY <1>0, ZenonT(60) DEF WireInv
<1>8. ASSUME NEW d \in Clients
      PROVE  OwnInv(d)' /\ LastInv(d)' /\ (asked'[d] = <<>> \/ \E x \in Asks : asked'[d] = <<x>>)
  <2>0. OwnInv(d) /\ LastInv(d) /\ (asked[d] = <<>> \/ \E x \in Asks : asked[d] = <<x>>)
    BY ZenonT(60) DEF WireInv
  <2>1. CASE d = c
    <3>1. LastInv(d)'
      BY <1>5, <1>7, <2>1 DEF LastInv
    <3> QED
      BY <1>0, <1>4, <1>6, <2>1, <3>1 DEF OwnInv
  <2>2. CASE d # c
    <3>1. asked'[d] = asked[d] /\ outbox'[d] = outbox[d] /\ last'[d] = last[d]
      BY <1>6, <1>7, <2>2, ZenonT(60)
    <3> QED
      BY <1>0, <2>0, <3>1, ZenonT(60) DEF OwnInv, LastInv
  <2> QED
    BY <2>1, <2>2
<1> QED
  BY <1>0, <1>6, <1>7, <1>8 DEF WireInv

LEMMA GiveUpWire ==
    ASSUME WireInv, NEW c \in Clients, GiveUp(c)
    PROVE  WireInv'
<1>0. /\ asked' = [asked EXCEPT ![c] = <<>>] /\ late' = [late EXCEPT ![c] = TRUE]
      /\ last' = [last EXCEPT ![c] = [pc |-> "err"]] /\ UNCHANGED <<tx, inbox, outbox, issued>>
  BY DEF GiveUp
<1>1. /\ asked' \in [Clients -> Seq(Asks)] /\ late' \in [Clients -> BOOLEAN]
      /\ last' = [d \in Clients |-> last'[d]]
      /\ asked'[c] = <<>> /\ late'[c] /\ last'[c].pc = "err"
      /\ \A d \in Clients : d # c => asked'[d] = asked[d] /\ late'[d] = late[d] /\ last'[d] = last[d]
  <2>1. asked' \in [Clients -> Seq(Asks)] /\ asked'[c] = <<>> /\ \A d \in Clients : d # c => asked'[d] = asked[d]
    BY <1>0 DEF WireInv
  <2>2. late' \in [Clients -> BOOLEAN] /\ late'[c] /\ \A d \in Clients : d # c => late'[d] = late[d]
    BY <1>0 DEF WireInv
  <2>3. /\ last' = [d \in Clients |-> last'[d]] /\ last'[c] = [pc |-> "err"]
        /\ \A d \in Clients : d # c => last'[d] = last[d]
    BY <1>0, ZenonT(60) DEF WireInv
  <2> QED
    BY <2>1, <2>2, <2>3
<1>2. ASSUME NEW d \in Clients
      PROVE  OwnInv(d)' /\ LastInv(d)' /\ (asked'[d] = <<>> \/ \E x \in Asks : asked'[d] = <<x>>)
  <2>0. OwnInv(d) /\ LastInv(d) /\ (asked[d] = <<>> \/ \E x \in Asks : asked[d] = <<x>>)
    BY DEF WireInv
  <2>1. CASE d = c
    BY <1>1, <2>1, ZenonT(60) DEF OwnInv, LastInv
  <2>2. CASE d # c
    <3>1. asked'[d] = asked[d] /\ late'[d] = late[d] /\ last'[d] = last[d]
      BY <1>1, <2>2
    <3> QED
      BY <1>0, <2>0, <3>1 DEF OwnInv, LastInv
  <2> QED
    BY <2>1, <2>2
<1> QED
  BY <1>0, <1>1, <1>2 DEF WireInv

\* A crash ends every connection.
LEMMA CrashWire ==
    ASSUME WireInv, Crash
    PROVE  WireInv'
<1>0. /\ tx' = [c \in Clients |-> NoTx]
      /\ inbox' = [c \in Clients |-> <<>>] /\ outbox' = [c \in Clients |-> <<>>]
      /\ last' = [c \in Clients |-> IF asked[c] = <<>> THEN last[c] ELSE [pc |-> "err"]]
      /\ asked' = [c \in Clients |-> <<>>] /\ late' = [c \in Clients |-> FALSE] /\ UNCHANGED issued
  BY ZenonT(60) DEF Crash
<1>1. /\ inbox' \in [Clients -> Seq(Asks)] /\ outbox' \in [Clients -> Seq(Replies)]
      /\ asked' \in [Clients -> Seq(Asks)] /\ late' \in [Clients -> BOOLEAN]
  BY <1>0
<1>2. last' = [c \in Clients |-> last'[c]]
  BY <1>0, ZenonT(60)
<1>3. \A c \in Clients : OwnInv(c)'
  BY <1>0 DEF OwnInv
<1>4. \A c \in Clients : LastInv(c)'
  BY <1>0 DEF LastInv, WireInv
<1> QED
  BY <1>0, <1>1, <1>2, <1>3, <1>4, ZenonT(60) DEF WireInv

-----------------------------------------------------------------------------
(* Every step keeps the invariant.                                         *)

LEMMA InitOram ==
    ASSUME NoneAssumption, OramInit
    PROVE  OramInv
<1>1. CoreInv
  BY InitCore, ZenonT(60)
<1>2. WireInv
  <2>1. /\ inbox \in [Clients -> Seq(Asks)] /\ outbox \in [Clients -> Seq(Replies)]
        /\ asked \in [Clients -> Seq(Asks)] /\ issued \in [Clients -> Nat] /\ late \in [Clients -> BOOLEAN]
    BY DEF OramInit
  <2>2. \A c \in Clients : OwnInv(c) /\ LastInv(c)
    BY ZenonT(60) DEF OramInit, OwnInv, LastInv, NoTx
  <2> QED
    BY <2>1, <2>2, ZenonT(60) DEF OramInit, WireInv
<1>3. ReadsInv
  BY DEF OramInit, ReadsInv, ReadsOf, NoTx, FixedReads, Pcs
<1> QED
  BY <1>1, <1>2, <1>3 DEF OramInv

\* A step that leaves the entries and the outcome of the last transaction.
LEMMA ReadsElsewhere ==
    ASSUME ReadsInv, UNCHANGED <<chunks, audit>>, NEW c \in Clients, ReadsOf(tx[c])',
           \A d \in Clients : d # c => tx'[d] = tx[d]
    PROVE  ReadsInv'
<1>1. ASSUME NEW d \in Clients, d # c
      PROVE  ReadsOf(tx[d])'
  <2>1. tx'[d] = tx[d] /\ ReadsOf(tx[d])
    BY <1>1, ZenonT(60) DEF ReadsInv
  <2> QED
    BY <2>1 DEF ReadsOf, IndexBudget
<1> QED
  BY <1>1, ZenonT(60) DEF ReadsInv, FixedReads

\* A transaction that ends has made all its reads, or did not run to the end.
LEMMA ReplyReads ==
    ASSUME ReadsInv, UNCHANGED chunks, NEW c \in Clients, NEW a, Reply(c, a), NEW e, Ends(e, c),
           tx \in [Clients -> Txs \cup {NoTx}], e \in {"ok", "over"} => tx[c].pc = "reply"
    PROVE  ReadsInv'
<1>1. tx'[c] = NoTx /\ \A d \in Clients : d # c => tx'[d] = tx[d]
  BY DEF Reply
<1>2. ASSUME NEW d \in Clients
      PROVE  ReadsOf(tx[d])'
  <2>1. CASE d = c
    BY <1>1, <2>1 DEF ReadsOf, NoTx, Pcs
  <2>2. CASE d # c
    <3>1. tx'[d] = tx[d] /\ ReadsOf(tx[d])
      BY <1>1, <2>2, ZenonT(60) DEF ReadsInv
    <3> QED
      BY <3>1, ZenonT(60) DEF ReadsOf, IndexBudget
  <2> QED
    BY <2>1, <2>2, ZenonT(60)
<1>3. FixedReads'
  BY DEF Ends, FixedReads, ReadsInv, ReadsOf, Pcs
<1> QED
  BY <1>2, <1>3 DEF ReadsInv

\* A refusal, at whatever point of the transaction.
LEMMA RefusedKeeps ==
    ASSUME OramInv, UNCHANGED chunks, NEW c \in Clients, tx[c].pc # "none", Reply(c, Refused(c)),
           NEW e, Ends(e, c), e \in {"ok", "over"} => tx[c].pc = "reply"
    PROVE  WireInv' /\ ReadsInv'
<1>1. tx[c] # NoTx /\ tx \in [Clients -> Txs \cup {NoTx}]
  BY TxFacts, ZenonT(60) DEF OramInv, CoreInv, TxInv
<1>2. Refused(c) \in Replies /\ Refused(c).id = tx[c].q.id
  BY RefusedFacts, Zenon DEF OramInv, CoreInv
<1>3. WireInv'
  BY <1>1, <1>2, ReplyWire DEF OramInv
<1>4. ReadsInv'
  BY <1>1, ReplyReads, ZenonT(60) DEF OramInv
<1> QED
  BY <1>3, <1>4

\* A step of the transaction of c.
LEMMA StepKeeps ==
    ASSUME OramInv, CoreInv', UNCHANGED <<wire, chunks, audit>>, NEW c \in Clients, tx[c].pc # "none",
           tx'[c].pc # "none", tx'[c].q = tx[c].q, ReadsOf(tx[c])', \A d \in Clients : d # c => tx'[d] = tx[d]
    PROVE  OramInv'
<1>1. tx[c] # NoTx /\ tx'[c] # NoTx
  BY DEF NoTx
<1>2. WireInv'
  BY <1>1, WireKept, ZenonT(60) DEF OramInv
<1>3. ReadsInv'
  BY ReadsElsewhere DEF OramInv
<1> QED
  BY <1>2, <1>3, ZenonT(60) DEF OramInv

LEMMA BeginOram ==
    ASSUME OramInv, NoneAssumption, NEW c \in Clients, Begin(c)
    PROVE  OramInv'
<1>0. CoreInv /\ CoreInv' /\ tx[c].pc = "lock" /\ UNCHANGED chunks
  BY BeginKeeps DEF OramInv, Begin
<1>1. CASE Preflight(tx[c].q)
  <2>1. tx' = [tx EXCEPT ![c] = [tx[c] EXCEPT !.pc = "index"]] /\ UNCHANGED <<wire, audit>>
    BY <1>1 DEF Begin
  <2>2. tx[c] \in Txs /\ "index" \in Pcs
    BY <1>0, TxFacts, Zenon DEF CoreInv, Pcs
  <2>3. tx'[c] = [tx[c] EXCEPT !.pc = "index"] /\ \A d \in Clients : d # c => tx'[d] = tx[d]
    BY <1>0, <2>1 DEF CoreInv, TxInv
  <2>4. tx'[c].pc = "index" /\ tx'[c].q = tx[c].q /\ tx'[c].reads = tx[c].reads
    BY <2>2, <2>3, PcMoves
  <2>5. ReadsOf(tx[c])'
    BY <1>0, <2>4, ZenonT(60) DEF OramInv, ReadsInv, ReadsOf
  <2> QED
    BY <1>0, <2>1, <2>3, <2>4, <2>5, StepKeeps
<1>2. CASE ~Preflight(tx[c].q)
  <2>1. Reply(c, Refused(c)) /\ Ends("refused", c)
    BY <1>2 DEF Begin
  <2> QED
    BY <1>0, <2>1, RefusedKeeps DEF OramInv
<1> QED
  BY <1>1, <1>2

LEMMA IndexReadOram ==
    ASSUME OramInv, NoneAssumption, OramLookupAssumption, NEW c \in Clients, lookup_many(c)
    PROVE  OramInv'
<1>0. tx[c].pc = "index" /\ UNCHANGED <<wire, chunks, audit>>
  BY ZenonT(60) DEF lookup_many, Read
<1>1. /\ CoreInv' /\ tx'[c].q = tx[c].q /\ tx'[c].pc = "chunk"
      /\ tx'[c].reads = tx[c].reads + IndexBudget(tx[c].q)
      /\ \A d \in Clients : d # c => tx'[d] = tx[d]
  BY IndexReadKeeps DEF OramInv
<1>2. IndexBudget(tx[c].q) \in Int /\ tx[c].reads = 0
  BY <1>0, TxFacts, BudgetFacts, ZenonT(60) DEF OramInv, CoreInv, ReadsInv, ReadsOf
<1>3. tx'[c].reads = IndexBudget(tx[c].q)
  BY <1>1, <1>2
<1>4. ReadsOf(tx[c])'
  BY <1>1, <1>3, ZenonT(60) DEF ReadsOf, IndexBudget
<1> QED
  BY <1>0, <1>1, <1>4, StepKeeps, Zenon

LEMMA ChunkReadOram ==
    ASSUME OramInv, NoneAssumption, OramLookupAssumption, NEW c \in Clients, read_chunks(c)
    PROVE  OramInv'
<1>0. tx[c].pc = "chunk" /\ UNCHANGED <<wire, chunks, audit>>
  BY ZenonT(60) DEF read_chunks, Read
<1>1. /\ CoreInv' /\ tx'[c].q = tx[c].q /\ tx'[c].pc = "flush_index"
      /\ tx'[c].reads = tx[c].reads + ChunkBudget(tx[c].q)
      /\ \A d \in Clients : d # c => tx'[d] = tx[d]
  BY ChunkReadKeeps DEF OramInv
<1>2. IndexBudget(tx[c].q) \in Int /\ tx[c].reads = IndexBudget(tx[c].q)
  BY <1>0, TxFacts, BudgetFacts, ZenonT(60) DEF OramInv, CoreInv, ReadsInv, ReadsOf
<1>3. tx'[c].reads = AccessBudget
  BY <1>1, <1>2 DEF ChunkBudget, OramLookupAssumption
<1>4. ReadsOf(tx[c])'
  BY <1>1, <1>3 DEF ReadsOf
<1> QED
  BY <1>0, <1>1, <1>4, StepKeeps

\* The steps of the commit make no reads.
LEMMA CommitOram ==
    ASSUME OramInv, NoneAssumption, NEW c \in Clients,
           Flush(c) \/ save_circuit_oram_state(c) \/ save_circuit_store_auth(c)
    PROVE  OramInv'
<1>0. Commits(tx[c].pc) /\ UNCHANGED <<wire, chunks, audit>>
  BY DEF Flush, save_circuit_oram_state, save_circuit_store_auth, AtStep, Commits
<1>1. /\ CoreInv' /\ tx'[c].pc \in {"state_index", "auth_index", "flush_chunk", "state_chunk", "auth_chunk", "reply"}
      /\ tx'[c].q = tx[c].q /\ tx'[c].reads = tx[c].reads
      /\ \A d \in Clients : d # c => tx'[d] = tx[d]
  BY FlushKeeps, SaveStateKeeps, SaveAuthKeeps, ZenonT(60) DEF OramInv
<1>2. tx[c].reads = AccessBudget
  BY <1>0, ZenonT(60) DEF OramInv, ReadsInv, ReadsOf, Commits, Pcs
<1>3. ReadsOf(tx[c])'
  BY <1>1, <1>2 DEF ReadsOf
<1> QED
  BY <1>0, <1>1, <1>3, StepKeeps, ZenonT(60) DEF Commits

LEMMA AnswerOram ==
    ASSUME OramInv, NoneAssumption, OramLookupAssumption, NEW c \in Clients, Answer(c)
    PROVE  OramInv'
<1> DEFINE q == tx[c].q
           a == [id |-> q.id, ok |-> TRUE, items |-> Len(q.slots), right |-> tx[c].right,
                 size |-> Demand(q) + direct_oram_response_padding_bytes(q)]
<1>0. CoreInv /\ CoreInv' /\ tx[c].pc = "reply" /\ UNCHANGED chunks
  BY AnswerKeeps, ZenonT(60) DEF OramInv, Answer, AtStep
<1>1. CASE Demand(q) > ChunkBudget(q)
  <2>1. Reply(c, Refused(c)) /\ Ends("over", c)
    BY <1>1, ZenonT(60) DEF Answer
  <2> QED
    BY <1>0, <2>1, RefusedKeeps, ZenonT(60) DEF OramInv
<1>2. CASE ~(Demand(q) > ChunkBudget(q))
  <2>1. Reply(c, a) /\ Ends("ok", c)
    BY <1>2, ZenonT(60) DEF Answer
  <2>2. tx[c] # NoTx /\ q \in Asks /\ tx[c].right \in Right /\ tx \in [Clients -> Txs \cup {NoTx}]
    BY <1>0, TxFacts, ZenonT(60) DEF CoreInv, TxInv, Right
  <2>3. Demand(q) \in Int /\ Len(q.slots) \in Nat /\ ChunkBudget(q) \in Int /\ q.id \in Nat
    BY <2>2, DemandFacts, BudgetFacts DEF OramInv, ReadsInv, Asks
  <2>4. Demand(q) + direct_oram_response_padding_bytes(q) \in Int
    BY <2>3 DEF direct_oram_response_padding_bytes
  <2>5. a \in Replies /\ a.id = q.id
    BY <2>2, <2>3, <2>4, ZenonT(60) DEF Replies
  <2> HIDE DEF a
  <2>6. WireInv'
    BY <2>1, <2>2, <2>5, ReplyWire DEF OramInv
  <2>7. ReadsInv'
    BY <1>0, <2>1, <2>2, ReplyReads DEF OramInv
  <2> QED
    BY <1>0, <2>6, <2>7 DEF OramInv
<1> QED
  BY <1>1, <1>2

LEMMA NextOram ==
    ASSUME OramInv, NoneAssumption, OramLookupAssumption, [OramNext]_oramVars
    PROVE  OramInv'
<1>0. CoreInv /\ WireInv /\ ReadsInv
  BY DEF OramInv
<1>1. CASE UNCHANGED oramVars
  <2>1. UNCHANGED <<chunks, up, disk, mem, latest, lock, tx, wire, audit>>
    BY <1>1 DEF oramVars
  <2>2. CoreInv'
    BY <1>0, <2>1, Elsewhere, ZenonT(60)
  <2>3. WireInv'
    BY <1>0, <2>1 DEF WireInv, OwnInv, LastInv, wire
  <2>4. ReadsInv'
    BY <1>0, <2>1, Zenon DEF ReadsInv, ReadsOf, FixedReads, IndexBudget
  <2> QED
    BY <2>2, <2>3, <2>4 DEF OramInv
<1>2. CASE Crash
  <2>1. CoreInv' /\ WireInv'
    BY <1>0, <1>2, CrashKeeps, CrashWire
  <2>2. ReadsInv'
    BY <1>0, <1>2, ZenonT(60) DEF Crash, ReadsInv, ReadsOf, FixedReads, NoTx, Pcs
  <2> QED
    BY <2>1, <2>2 DEF OramInv
<1>3. CASE open_with_trusted_state
  <2>0. UNCHANGED <<chunks, tx, wire, audit>>
    BY <1>3 DEF open_with_trusted_state
  <2>1. CoreInv'
    BY <1>0, <1>3, OpenKeeps, ZenonT(60)
  <2>2. WireInv'
    BY <1>0, <2>0 DEF WireInv, OwnInv, LastInv, wire
  <2>3. ReadsInv'
    BY <1>0, <2>0, Zenon DEF ReadsInv, ReadsOf, FixedReads, IndexBudget
  <2> QED
    BY <2>1, <2>2, <2>3 DEF OramInv
<1>4. ASSUME NEW c \in Clients, query_batch_padded(c) \/ Receive(c) \/ GiveUp(c)
      PROVE  OramInv'
  <2>0. UNCHANGED <<chunks, up, disk, mem, latest, lock, tx, audit>>
    BY <1>4, Zenon DEF query_batch_padded, Receive, GiveUp
  <2>1. CoreInv'
    BY <1>0, <2>0, Elsewhere
  <2>2. WireInv'
    BY <1>0, <1>4, QueryWire, ReceiveWire, GiveUpWire
  <2>3. ReadsInv'
    BY <1>0, <2>0, Zenon DEF ReadsInv, ReadsOf, FixedReads, IndexBudget
  <2> QED
    BY <2>1, <2>2, <2>3 DEF OramInv
<1>5. ASSUME NEW c \in Clients, handle_oram_lookup(c)
      PROVE  OramInv'
  <2>1. WireInv' /\ Head(inbox[c]) \in Asks
    BY <1>0, <1>5, HandleWire
  <2>2. CoreInv'
    BY <1>0, <1>5, <2>1, HandleKeeps, ZenonT(60)
  <2>3. /\ UNCHANGED <<chunks, audit>> /\ \A d \in Clients : d # c => tx'[d] = tx[d]
        /\ tx'[c].pc = "lock" /\ tx'[c].reads = 0
    BY <1>0, <1>5, ZenonT(60) DEF handle_oram_lookup, CoreInv, TxInv
  <2>4. ReadsOf(tx[c])'
    BY <2>3, ZenonT(60) DEF ReadsOf
  <2>5. ReadsInv'
    BY <1>0, <2>3, <2>4, ReadsElsewhere
  <2> QED
    BY <2>1, <2>2, <2>5 DEF OramInv
<1>6. ASSUME NEW c \in Clients, ReadFails(c) \/ CommitFails(c)
      PROVE  OramInv'
  <2>0. UNCHANGED chunks /\ tx[c].pc # "none" /\ Reply(c, Refused(c)) /\ Ends("poisoned", c)
    BY <1>6, Zenon DEF ReadFails, CommitFails, AtStep
  <2>1. CoreInv'
    BY <1>0, <1>6, ReadFailsKeeps, CommitFailsKeeps, ZenonT(60)
  <2>2. WireInv' /\ ReadsInv'
    BY <2>0, RefusedKeeps
  <2> QED
    BY <2>1, <2>2 DEF OramInv
<1>7. ASSUME NEW c \in Clients,
             \/ Begin(c) \/ lookup_many(c) \/ read_chunks(c) \/ Flush(c)
             \/ save_circuit_oram_state(c) \/ save_circuit_store_auth(c) \/ Answer(c)
      PROVE  OramInv'
  BY <1>7, BeginOram, IndexReadOram, ChunkReadOram, CommitOram, AnswerOram
<1> QED
  BY <1>1, <1>2, <1>3, <1>4, <1>5, <1>6, <1>7 DEF OramNext

\* What the invariant says of the properties.
LEMMA InvOramSafe ==
    ASSUME OramInv
    PROVE  OramSafe
<1>0. TxInv /\ PageInv /\ PhaseInv /\ WireInv /\ FixedReads
  BY DEF OramInv, CoreInv, ReadsInv
<1>1. OramTypeOK
  BY <1>0 DEF TxInv, PageInv, OramTypeOK, Versions, Flags
<1>2. AnswersRight /\ OwnResult
  BY <1>0, ZenonT(60) DEF WireInv, LastInv, AnswersRight, OwnResult
<1>3. QuietIsCommitted
  BY <1>0, ZenonT(60) DEF PageInv, PhaseInv, Committed, QuietIsCommitted
<1>4. CleanStart
  BY <1>0 DEF PageInv, CleanStart, Verified
<1> QED
  BY <1>0, <1>1, <1>2, <1>3, <1>4 DEF OramSafe

\* A page is read under the lock, and Preflight let the transaction in.
LEMMA NextNoRead ==
    ASSUME OramInv, [OramNext]_oramVars
    PROVE  [NoReadAfterPoison]_oramVars
<1> SUFFICES ASSUME NEW h \in Halves, poisoned[h], up, up' PROVE latest' = latest
  BY DEF NoReadAfterPoison
<1>0. \A c \in Clients : tx[c].pc \in {"none", "lock"}
  <2>1. \A c \in Clients : lock # c
    BY ZenonT(60) DEF OramInv, CoreInv, PhaseInv, Phase
  <2> QED
    BY <2>1, ZenonT(60) DEF OramInv, CoreInv, TxInv
<1>1. ASSUME NEW c \in Clients
      PROVE  ~lookup_many(c) /\ ~read_chunks(c) /\ ~ReadFails(c)
  BY <1>0, ZenonT(60) DEF lookup_many, read_chunks, ReadFails
<1>2. ASSUME NEW c \in Clients,
             \/ query_batch_padded(c) \/ Receive(c) \/ GiveUp(c) \/ handle_oram_lookup(c) \/ Begin(c) \/ Flush(c)
             \/ save_circuit_oram_state(c) \/ save_circuit_store_auth(c) \/ CommitFails(c) \/ Answer(c)
      PROVE  latest' = latest
  BY <1>2 DEF query_batch_padded, Receive, GiveUp, handle_oram_lookup, Begin, Flush,
              save_circuit_oram_state, save_circuit_store_auth, CommitFails, Answer
<1>3. Crash \/ open_with_trusted_state \/ UNCHANGED oramVars => latest' = latest
  BY Zenon DEF Crash, open_with_trusted_state, oramVars
<1> QED
  BY <1>1, <1>2, <1>3 DEF OramNext

-----------------------------------------------------------------------------
(* Theorems.                                                               *)

\* The invariant holds in every run.
THEOREM OramInvariant == OramLookupAssumption /\ OramSpec => []OramInv
<1> SUFFICES ASSUME OramLookupAssumption PROVE OramSpec => []OramInv
  OBVIOUS
<1>0. NoneAssumption
  BY DEF OramLookupAssumption
<1>1. OramInit => OramInv
  BY <1>0, InitOram
<1>2. OramInv /\ [OramNext]_oramVars => OramInv'
  BY <1>0, NextOram
<1> QED
  BY <1>1, <1>2, PTL DEF OramSpec

\* Direct ORAM lookups (oram.rs) with any number of clients, scripts, crashes
\* and failed page or file operations: every result returned was read from
\* pages of the controller's own version and belongs to the call that returns
\* it unless one was given up before, every lookup that runs to its end makes
\* access_budget reads, and between transactions the disk holds what runs.
THEOREM OramIsSafe == OramLookupAssumption /\ OramSpec => []OramSafe
<1> SUFFICES ASSUME OramLookupAssumption PROVE OramSpec => []OramSafe
  OBVIOUS
<1>1. OramInv => OramSafe
  BY InvOramSafe
<1> QED
  BY <1>1, OramInvariant, PTL

\* "Fail before mutating either half": a server that poisoned a half makes no
\* further read of either until it is started again.
THEOREM PoisonEndsReads == OramLookupAssumption /\ OramSpec => PoisonFinal
<1> SUFFICES ASSUME OramLookupAssumption PROVE OramSpec => [][NoReadAfterPoison]_oramVars
  BY DEF PoisonFinal
<1>1. OramInv /\ [OramNext]_oramVars => [NoReadAfterPoison]_oramVars
  BY NextNoRead
<1> QED
  BY <1>1, OramInvariant, PTL DEF OramSpec
=============================================================================
