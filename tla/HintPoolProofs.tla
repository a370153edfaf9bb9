---------------------------- MODULE HintPoolProofs ----------------------------
(***************************************************************************)
(* The hint pool's promises, for any number of processes, keys and         *)
(* databases and any pool size.                                            *)
(***************************************************************************)
EXTENDS HintPool, TLAPS, FiniteSetTheorems

\* The generator of p holds k and its file does not exist (yet).
LooseGen(p, k) == gen[p].step \in {"write", "rename", "push"} /\ gen[p].key = k

\* The i-th entry of p's queue is k, and it is in memory only.
LooseMem(p, i, k) == mem[p][i] = Entry(k, FALSE)

\* An entry that exists outside the directory has no file and was not served,
\* and there is one such copy of it: serving it needs no permission.
LooseIsUnserved ==
    \A k \in Keys : \A p \in Procs :
       /\ LooseGen(p, k) => served[k] = 0 /\ file[k] = None
       /\ \A i \in DOMAIN mem[p] : LooseMem(p, i, k) => served[k] = 0 /\ file[k] = None

LooseIsUnique ==
    \A k \in Keys : \A p, q \in Procs :
       /\ LooseGen(p, k) /\ LooseGen(q, k) => p = q
       /\ \A j \in DOMAIN mem[q] : ~(LooseGen(p, k) /\ LooseMem(q, j, k))
       /\ \A i \in DOMAIN mem[p], j \in DOMAIN mem[q] :
             LooseMem(p, i, k) /\ LooseMem(q, j, k) => p = q /\ i = j

\* The directory holds the entries that may still be served from it.
FileIsUnserved ==
    \A k \in Keys : (file[k] # None => served[k] = 0) /\ served[k] \in {0, 1}

\* Whatever a process holds was made for the database it serves.
HeldIsOwn ==
    \A p \in Procs :
       /\ gen[p].step # "idle" => made[gen[p].key] = binding[p]
       /\ \A i \in DOMAIN mem[p] : made[mem[p][i].key] = binding[p]
       /\ \A k \in hand[p] : made[k] = binding[p]

\* A key that was not drawn yet has neither file nor history.
FreshIsNowhere ==
    \A k \in Keys : made[k] = None => file[k] = None /\ served[k] = 0

\* A process that is down holds nothing, and only a running one generates.
DownIsEmpty ==
    \A p \in Procs :
       /\ up[p] = "down" => mem[p] = <<>> /\ hand[p] = {}
       /\ up[p] # "up" => gen[p] = Idle
       /\ gen[p].step = "idle" => gen[p] = Idle

\* The inductive invariants: of at-most-once service, of service for the
\* right database, and of the pool's size.
OnceInv ==
    /\ TypeOK /\ LooseIsUnserved /\ LooseIsUnique /\ FileIsUnserved
    /\ HeldIsOwn /\ FreshIsNowhere /\ DownIsEmpty /\ ServedForItsDatabase

SizeInv == TypeOK /\ DownIsEmpty /\ PoolBounded
-----------------------------------------------------------------------------
(* What Tail and Append do to a sequence, position by position.            *)

\* The front of a queue is removed: the others move up by one.
LEMMA TailFacts ==
    ASSUME NEW S, NEW s \in Seq(S), s # <<>>
    PROVE  /\ Tail(s) \in Seq(S)
           /\ Len(Tail(s)) = Len(s) - 1
           /\ Len(s) \in Nat /\ Len(s) > 0
           /\ 1 \in DOMAIN s /\ Head(s) = s[1] /\ Head(s) \in S
           /\ \A i \in DOMAIN Tail(s) :
                 i \in Nat \ {0} /\ i + 1 \in DOMAIN s /\ Tail(s)[i] = s[i + 1]
BY SMT

\* An element is added at the back: the others stay where they are.
LEMMA AppendFacts ==
    ASSUME NEW S, NEW s \in Seq(S), NEW e \in S
    PROVE  /\ Append(s, e) \in Seq(S)
           /\ Len(Append(s, e)) = Len(s) + 1
           /\ Len(s) \in Nat
           /\ \A i \in DOMAIN Append(s, e) :
                 \/ i \in DOMAIN s /\ Append(s, e)[i] = s[i]
                 \/ i = Len(s) + 1 /\ Append(s, e)[i] = e
BY SMTT(60)

-----------------------------------------------------------------------------
(* Type correctness.                                                       *)

\* The entries of a queue.
Entries == [key : Keys, persisted : BOOLEAN]

\* Every step keeps every variable in its type.
LEMMA TypeStep ==
    ASSUME TypeOK, [Next]_vars
    PROVE  TypeOK'
<1> USE DEF TypeOK, GenSteps, Entries
<1>1. ASSUME NEW p \in Procs, NEW b \in Bindings, Start(p, b)
      PROVE  TypeOK'
  BY <1>1, Zenon DEF Start
<1>2. ASSUME NEW p \in Procs, NEW k \in Keys, LoadFile(p, k)
      PROVE  TypeOK'
  <2>1. Append(mem[p], Entry(k, TRUE)) \in Seq(Entries)
    BY AppendFacts, Zenon DEF Entry
  <2> QED
    BY <1>2, <2>1, ZenonT(60) DEF LoadFile
<1>3. ASSUME NEW p \in Procs, NEW k \in Keys, Generate(p, k)
      PROVE  TypeOK'
  BY <1>3 DEF Generate, At
<1>4. ASSUME NEW p \in Procs, Ready(p)
      PROVE  TypeOK'
  BY <1>4, Zenon DEF Ready
<1>5. ASSUME NEW p \in Procs, WriteTmp(p)
      PROVE  TypeOK'
  <2>1. gen[p].key \in Keys
    BY <1>5 DEF WriteTmp
  <2>2. gen' \in [Procs -> [step : GenSteps, key : Keys \cup {None}]]
    BY <1>5, ZenonT(60) DEF WriteTmp
  <2>3. \A q \in Procs : gen'[q].step # "idle" => gen'[q].key \in Keys
    BY <1>5, <2>1 DEF WriteTmp
  <2>4. <<gen[p].key, p>> \in Keys \X Procs
    BY <2>1
  <2>5. tmp' \subseteq Keys \X Procs
    BY <1>5, <2>4 DEF WriteTmp
  <2> QED
    BY <1>5, <2>2, <2>3, <2>5, Zenon DEF WriteTmp
<1>6. ASSUME NEW p \in Procs, Rename(p)
      PROVE  TypeOK'
  BY <1>6, ZenonT(60) DEF Rename
<1>7. ASSUME NEW p \in Procs, PersistFails(p)
      PROVE  TypeOK'
  BY <1>7, ZenonT(60) DEF PersistFails
<1>8. ASSUME NEW p \in Procs, Push(p)
      PROVE  TypeOK'
  <2>1. Append(mem[p], Entry(gen[p].key, gen[p].step = "push_file")) \in Seq(Entries)
    <3>1. Entry(gen[p].key, gen[p].step = "push_file") \in Entries
      BY <1>8 DEF Push, Entry
    <3> QED
      BY <3>1, AppendFacts, Zenon
  <2> QED
    BY <1>8, <2>1, Zenon DEF Push, Idle
<1>9. ASSUME NEW p \in Procs, TakeFromMemory(p)
      PROVE  TypeOK'
  <2>1. Tail(mem[p]) \in Seq(Entries) /\ Head(mem[p]) \in Entries
    BY <1>9, TailFacts, Zenon DEF TakeFromMemory
  <2> QED
    BY <1>9, <2>1, SMTT(60) DEF TakeFromMemory, HandOut
<1>10. ASSUME NEW p \in Procs, Pop(p)
       PROVE  TypeOK'
  <2>1. Tail(mem[p]) \in Seq(Entries) /\ Head(mem[p]) \in Entries
    BY <1>10, TailFacts, Zenon DEF Pop
  <2> QED
    BY <1>10, <2>1, Zenon DEF Pop
<1>11. ASSUME NEW p \in Procs, NEW k \in Keys,
              RemoveOk(p, k) \/ RemoveMissing(p, k) \/ RemoveFails(p, k)
       PROVE  TypeOK'
  <2>1. CASE RemoveOk(p, k)
    BY <2>1 DEF RemoveOk, HandOut
  <2>2. CASE RemoveMissing(p, k)
    BY <2>2, Zenon DEF RemoveMissing
  <2>3. CASE RemoveFails(p, k)
    BY <2>3, Zenon DEF RemoveFails
  <2> QED
    BY <1>11, <2>1, <2>2, <2>3, Zenon
<1>12. ASSUME NEW p \in Procs, Crash(p)
       PROVE  TypeOK'
  <2>1. <<>> \in Seq(Entries) /\ Idle \in [step : GenSteps, key : Keys \cup {None}]
    BY DEF Idle
  <2>2. gen'[p].step = "idle"
    BY <1>12 DEF Crash, Idle
  <2>3. \A q \in Procs : gen'[q].step # "idle" => gen'[q].key \in Keys
    BY <1>12, <2>2 DEF Crash
  <2> QED
    BY <1>12, <2>1, <2>3, Zenon DEF Crash
<1>13. CASE UNCHANGED vars
  BY <1>13, Zenon DEF vars
<1> QED
  BY <1>1, <1>2, <1>3, <1>4, <1>5, <1>6, <1>7, <1>8, <1>9, <1>10, <1>11, <1>12,
     <1>13, Zenon DEF Next

-----------------------------------------------------------------------------
(* The pool's size.                                                        *)

\* A process that is not running has an idle generator and, when it is down,
\* nothing in its hands; every step keeps that.
LEMMA DownStep ==
    ASSUME TypeOK, DownIsEmpty, [Next]_vars
    PROVE  DownIsEmpty'
<1> USE DEF TypeOK, DownIsEmpty
<1>1. ASSUME NEW p \in Procs, NEW b \in Bindings, Start(p, b)
      PROVE  DownIsEmpty'
  BY <1>1 DEF Start
<1>2. ASSUME NEW p \in Procs, NEW k \in Keys, LoadFile(p, k) \/ Generate(p, k)
      PROVE  DownIsEmpty'
  <2>1. CASE LoadFile(p, k)
    BY <2>1, Zenon DEF LoadFile
  <2>2. CASE Generate(p, k)
    <3>1. gen'[p].step = "write" /\ up[p] = "up"
      BY <2>2 DEF Generate, At
    <3> QED
      BY <2>2, <3>1 DEF Generate
  <2> QED
    BY <1>2, <2>1, <2>2
<1>3. ASSUME NEW p \in Procs, Ready(p)
      PROVE  DownIsEmpty'
  BY <1>3 DEF Ready
<1>4. ASSUME NEW p \in Procs, WriteTmp(p) \/ Rename(p) \/ PersistFails(p)
      PROVE  DownIsEmpty'
  BY <1>4 DEF WriteTmp, Rename, PersistFails, Idle
<1>5. ASSUME NEW p \in Procs, Push(p)
      PROVE  DownIsEmpty'
  BY <1>5 DEF Push, Idle
<1>6. ASSUME NEW p \in Procs, TakeFromMemory(p) \/ Pop(p)
      PROVE  DownIsEmpty'
  BY <1>6 DEF TakeFromMemory, Pop
<1>7. ASSUME NEW p \in Procs, NEW k \in Keys,
             RemoveOk(p, k) \/ RemoveMissing(p, k) \/ RemoveFails(p, k)
      PROVE  DownIsEmpty'
  BY <1>7, Zenon DEF RemoveOk, RemoveMissing, RemoveFails
<1>8. ASSUME NEW p \in Procs, Crash(p)
      PROVE  DownIsEmpty'
  BY <1>8 DEF Crash, Idle
<1>9. CASE UNCHANGED vars
  BY <1>9 DEF vars
<1> QED
  BY <1>1, <1>2, <1>3, <1>4, <1>5, <1>6, <1>7, <1>8, <1>9, ZenonT(60) DEF Next

\* Loading stops at the pool's size, and the generator starts only when there
\* is room for its entry.
LEMMA SizeStep ==
    ASSUME SizeInv, [Next]_vars
    PROVE  PoolBounded'
<1> USE DEF SizeInv, TypeOK, PoolBounded
<1> USE PoolAssumption
<1>0. \A p \in Procs : mem[p] \in Seq(Entries) /\ Len(mem[p]) \in Nat
  <2>1. \A p \in Procs : mem[p] \in Seq(Entries)
    BY Zenon DEF Entries
  <2> QED
    BY <2>1
<1>1. ASSUME NEW p \in Procs, NEW b \in Bindings, Start(p, b)
      PROVE  PoolBounded'
  BY <1>1 DEF Start
<1>2. ASSUME NEW p \in Procs, NEW k \in Keys, LoadFile(p, k)
      PROVE  PoolBounded'
  <2>1. Len(Append(mem[p], Entry(k, TRUE))) = Len(mem[p]) + 1
    BY <1>0, AppendFacts DEF Entry, Entries
  <2>2. gen[p] = Idle
    BY <1>2 DEF LoadFile, DownIsEmpty
  <2> QED
    <3>1. CASE mem' = [mem EXCEPT ![p] = Append(@, Entry(k, TRUE))]
      <4>1. Len(mem'[p]) = Len(mem[p]) + 1 /\ Len(mem[p]) < PoolSize
        BY <1>2, <2>1, <3>1 DEF LoadFile
      <4>2. \A q \in Procs : gen'[q] = gen[q] /\ (q # p => mem'[q] = mem[q])
        BY <1>2, <3>1, Zenon DEF LoadFile
      <4>3. ASSUME NEW q \in Procs
            PROVE  Len(mem'[q]) <= PoolSize /\ (gen'[q] # Idle => Len(mem'[q]) < PoolSize)
        <5>1. CASE q = p
          BY <1>0, <2>2, <4>1, <4>2, <5>1
        <5>2. CASE q # p
          BY <4>2, <5>2
        <5> QED
          BY <5>1, <5>2
      <4> QED
        BY <4>3
    <3>2. CASE UNCHANGED mem
      BY <1>2, <3>2 DEF LoadFile
    <3> QED
      BY <1>2, <3>1, <3>2, Zenon DEF LoadFile
<1>3. ASSUME NEW p \in Procs, NEW k \in Keys, Generate(p, k)
      PROVE  PoolBounded'
  BY <1>3, <1>0 DEF Generate
<1>4. ASSUME NEW p \in Procs, Ready(p)
      PROVE  PoolBounded'
  BY <1>4 DEF Ready
<1>5. ASSUME NEW p \in Procs, WriteTmp(p) \/ Rename(p) \/ PersistFails(p)
      PROVE  PoolBounded'
  <2>1. gen[p] # Idle
    BY <1>5 DEF WriteTmp, Rename, PersistFails, Idle
  <2> QED
    BY <1>5, <1>0, <2>1 DEF WriteTmp, Rename, PersistFails
<1>6. ASSUME NEW p \in Procs, Push(p)
      PROVE  PoolBounded'
  <2> DEFINE e == Entry(gen[p].key, gen[p].step = "push_file")
  <2>1. e \in Entries
    BY <1>6 DEF Push, Entry, Entries
  <2>2. Len(Append(mem[p], e)) = Len(mem[p]) + 1
    BY <2>1, <1>0, AppendFacts
  <2>3. gen[p] # Idle
    BY <1>6 DEF Push, Idle
  <2>4. gen'[p] = Idle /\ Len(mem'[p]) = Len(mem[p]) + 1
    BY <1>6, <2>2 DEF Push
  <2>5. \A q \in Procs \ {p} : gen'[q] = gen[q] /\ mem'[q] = mem[q]
    BY <1>6 DEF Push
  <2> QED
    <3> SUFFICES ASSUME NEW q \in Procs
                 PROVE  /\ Len(mem'[q]) <= PoolSize
                        /\ gen'[q] # Idle => Len(mem'[q]) < PoolSize
      OBVIOUS
    <3>1. CASE q = p
      BY <1>0, <2>3, <2>4, <3>1
    <3>2. CASE q # p
      BY <2>5, <3>2
    <3> QED
      BY <3>1, <3>2
<1>7. ASSUME NEW p \in Procs, TakeFromMemory(p) \/ Pop(p)
      PROVE  PoolBounded'
  <2>1. Len(Tail(mem[p])) = Len(mem[p]) - 1
    BY <1>7, <1>0, TailFacts DEF TakeFromMemory, Pop
  <2> QED
    BY <1>7, <1>0, <2>1 DEF TakeFromMemory, Pop
<1>8. ASSUME NEW p \in Procs, NEW k \in Keys,
             RemoveOk(p, k) \/ RemoveMissing(p, k) \/ RemoveFails(p, k)
      PROVE  PoolBounded'
  BY <1>8 DEF RemoveOk, RemoveMissing, RemoveFails
<1>9. ASSUME NEW p \in Procs, Crash(p)
      PROVE  PoolBounded'
  <2>1. Len(<<>>) = 0
    OBVIOUS
  <2> QED
    BY <1>9, <1>0, <2>1 DEF Crash
<1>10. CASE UNCHANGED vars
  BY <1>10 DEF vars
<1> QED
  BY <1>1, <1>2, <1>3, <1>4, <1>5, <1>6, <1>7, <1>8, <1>9, <1>10, ZenonT(60) DEF Next

\* The pool starts empty.
LEMMA SizeInit == Init => SizeInv
<1> SUFFICES ASSUME Init PROVE SizeInv
  OBVIOUS
<1>1. TypeOK
  BY DEF Init, TypeOK, GenSteps, Idle
<1>2. DownIsEmpty
  BY DEF Init, DownIsEmpty, Idle
<1>3. PoolBounded
  BY PoolAssumption DEF Init, PoolBounded
<1> QED
  BY <1>1, <1>2, <1>3 DEF SizeInv

\* generation_loop and start-up together never hold more than pool_size
\* entries, the one under construction included, in any process.
THEOREM PoolIsBounded == Spec => []PoolBounded
<1>1. SizeInv /\ [Next]_vars => SizeInv'
  BY TypeStep, DownStep, SizeStep DEF SizeInv
<1>2. SizeInv => PoolBounded
  BY DEF SizeInv
<1> QED
  BY SizeInit, <1>1, <1>2, PTL DEF Spec

-----------------------------------------------------------------------------
(* Service for the right database.                                         *)

\* A key somebody holds was drawn: its database is a database.
LEMMA BindingIsReal ==
    ASSUME TypeOK, NEW p \in Procs
    PROVE  binding[p] \in Bindings /\ binding[p] # None
BY PoolAssumption, SMTT(60) DEF TypeOK, None

\* What a process loads, generates or keeps stays its own.
LEMMA HeldStep ==
    ASSUME TypeOK, HeldIsOwn, DownIsEmpty, [Next]_vars
    PROVE  HeldIsOwn'
<1> USE DEF TypeOK, HeldIsOwn
<1>0. \A p \in Procs : mem[p] \in Seq(Entries)
  BY Zenon DEF Entries
<1>1. ASSUME NEW p \in Procs, NEW b \in Bindings, Start(p, b)
      PROVE  HeldIsOwn'
  <2>1. gen[p].step = "idle" /\ mem[p] = <<>> /\ hand[p] = {}
    BY <1>1 DEF Start, DownIsEmpty, Idle
  <2> QED
    BY <1>1, <2>1 DEF Start
<1>2. ASSUME NEW p \in Procs, NEW k \in Keys, LoadFile(p, k)
      PROVE  HeldIsOwn'
  <2>1. CASE Usable(p, k)
    <3>1. Entry(k, TRUE) \in Entries /\ Entry(k, TRUE).key = k
      BY DEF Entry, Entries
    <3> DEFINE e == Entry(k, TRUE)
    <3> HIDE DEF e
    <3>4. e \in Entries
      BY <3>1, Zenon DEF e
    <3>2. \A i \in DOMAIN Append(mem[p], e) :
             \/ i \in DOMAIN mem[p] /\ Append(mem[p], e)[i] = mem[p][i]
             \/ Append(mem[p], e)[i] = e
      BY <1>0, <3>4, AppendFacts
    <3>3. mem' = [mem EXCEPT ![p] = Append(@, e)] /\ e.key = k /\ made[k] = binding[p]
      BY <1>2, <2>1, <3>1, Zenon DEF LoadFile, Usable, e
    <3> QED
      BY <1>2, <3>2, <3>3, SMTT(60) DEF LoadFile
  <2>2. CASE ~Usable(p, k)
    BY <1>2, <2>2 DEF LoadFile
  <2> QED
    BY <2>1, <2>2
<1>3. ASSUME NEW p \in Procs, NEW k \in Keys, Generate(p, k)
      PROVE  HeldIsOwn'
  <2>1. ASSUME NEW q \in Procs
        PROVE  /\ gen[q].step # "idle" => gen[q].key # k
               /\ \A i \in DOMAIN mem[q] : mem[q][i].key # k
               /\ k \notin hand[q]
    BY <1>3, BindingIsReal, SMTT(60) DEF Generate
  <2>2. gen'[p].key = k /\ made'[k] = binding'[p]
    BY <1>3, SMTT(60) DEF Generate, At
  <2> QED
    BY <1>3, <2>1, <2>2, SMTT(60) DEF Generate
<1>4. ASSUME NEW p \in Procs, Ready(p)
      PROVE  HeldIsOwn'
  BY <1>4, SMTT(60) DEF Ready
<1>5. ASSUME NEW p \in Procs, WriteTmp(p) \/ Rename(p) \/ PersistFails(p)
      PROVE  HeldIsOwn'
  <2>1. gen[p].step # "idle" /\ gen'[p].key = gen[p].key
    BY <1>5 DEF WriteTmp, Rename, PersistFails
  <2>2. /\ \A q \in Procs \ {p} : gen'[q] = gen[q]
        /\ UNCHANGED <<made, mem, hand, binding>>
    BY <1>5 DEF WriteTmp, Rename, PersistFails
  <2> QED
    BY <2>1, <2>2, ZenonT(60)
<1>6. ASSUME NEW p \in Procs, Push(p)
      PROVE  HeldIsOwn'
  <2> DEFINE e == Entry(gen[p].key, gen[p].step = "push_file")
  <2>1. e \in Entries /\ e.key = gen[p].key /\ made[gen[p].key] = binding[p]
    BY <1>6 DEF Push, Entry, Entries
  <2> HIDE DEF e
  <2>2. \A i \in DOMAIN Append(mem[p], e) :
             \/ i \in DOMAIN mem[p] /\ Append(mem[p], e)[i] = mem[p][i]
             \/ Append(mem[p], e)[i] = e
    BY <1>0, <2>1, AppendFacts
  <2>3. mem' = [mem EXCEPT ![p] = Append(@, e)] /\ gen'[p].step = "idle"
    BY <1>6 DEF Push, Idle, e
  <2> QED
    BY <1>6, <2>1, <2>2, <2>3, SMTT(60) DEF Push
<1>7. ASSUME NEW p \in Procs, TakeFromMemory(p) \/ Pop(p)
      PROVE  HeldIsOwn'
  <2>1. /\ 1 \in DOMAIN mem[p] /\ Head(mem[p]) = mem[p][1]
        /\ \A i \in DOMAIN Tail(mem[p]) :
              i + 1 \in DOMAIN mem[p] /\ Tail(mem[p])[i] = mem[p][i + 1]
    BY <1>0, <1>7, TailFacts DEF TakeFromMemory, Pop
  <2>2. CASE TakeFromMemory(p)
    BY <2>1, <2>2, SMTT(60) DEF TakeFromMemory
  <2>3. CASE Pop(p)
    BY <2>1, <2>3, SMTT(60) DEF Pop
  <2> QED
    BY <1>7, <2>2, <2>3
<1>8. ASSUME NEW p \in Procs, NEW k \in Keys,
             RemoveOk(p, k) \/ RemoveMissing(p, k) \/ RemoveFails(p, k)
      PROVE  HeldIsOwn'
  <2>1. /\ hand' = [hand EXCEPT ![p] = @ \ {k}]
        /\ UNCHANGED <<made, gen, mem, binding>>
    BY <1>8, SMTT(60) DEF RemoveOk, RemoveMissing, RemoveFails
  <2> QED
    BY <2>1, SMTT(60)
<1>9. ASSUME NEW p \in Procs, Crash(p)
      PROVE  HeldIsOwn'
  BY <1>9, SMTT(60) DEF Crash, Idle
<1>10. CASE UNCHANGED vars
  BY <1>10, SMTT(60) DEF vars
<1> QED
  BY <1>1, <1>2, <1>3, <1>4, <1>5, <1>6, <1>7, <1>8, <1>9, <1>10, ZenonT(60) DEF Next

\* Files and served entries are of keys that were drawn, and were served for
\* the database they were drawn for.
LEMMA DatabaseStep ==
    ASSUME TypeOK, HeldIsOwn, FreshIsNowhere, ServedForItsDatabase, [Next]_vars
    PROVE  FreshIsNowhere' /\ ServedForItsDatabase'
<1> USE DEF TypeOK, FreshIsNowhere, ServedForItsDatabase
<1>0. \A p \in Procs : mem[p] \in Seq(Entries)
  BY Zenon DEF Entries
<1>1. ASSUME NEW p \in Procs, NEW k \in Keys, LoadFile(p, k)
      PROVE  FreshIsNowhere' /\ ServedForItsDatabase'
  BY <1>1, Zenon DEF LoadFile
<1>2. ASSUME NEW p \in Procs, NEW k \in Keys, Generate(p, k)
      PROVE  FreshIsNowhere' /\ ServedForItsDatabase'
  <2>1. servedFor[k] = {}
    BY <1>2, PoolAssumption DEF Generate, None
  <2> QED
    BY <1>2, <2>1, BindingIsReal DEF Generate
<1>3. ASSUME NEW p \in Procs, Rename(p)
      PROVE  FreshIsNowhere' /\ ServedForItsDatabase'
  <2>1. gen[p].key \in Keys /\ made[gen[p].key] # None
    <3>1. gen[p].step # "idle"
      BY <1>3, SMTT(60) DEF Rename
    <3>2. made[gen[p].key] = binding[p]
      BY <3>1 DEF HeldIsOwn
    <3>3. binding[p] # None
      BY BindingIsReal, Zenon
    <3>4. gen[p].key \in Keys
      BY <3>1
    <3> QED
      BY <3>2, <3>3, <3>4
  <2> QED
    BY <1>3, <2>1 DEF Rename
<1>4. ASSUME NEW p \in Procs, NEW k \in Keys, made[k] = binding[p], HandOut(p, k),
             UNCHANGED made, file' = file \/ file' = [file EXCEPT ![k] = None]
      PROVE  FreshIsNowhere' /\ ServedForItsDatabase'
  BY <1>4, BindingIsReal DEF HandOut
<1>5. ASSUME NEW p \in Procs, TakeFromMemory(p)
      PROVE  FreshIsNowhere' /\ ServedForItsDatabase'
  <2>1. 1 \in DOMAIN mem[p] /\ Head(mem[p]) = mem[p][1] /\ Head(mem[p]) \in Entries
    BY <1>0, <1>5, TailFacts DEF TakeFromMemory
  <2>2. Head(mem[p]).key \in Keys /\ made[Head(mem[p]).key] = binding[p]
    BY <2>1 DEF HeldIsOwn, Entries
  <2> QED
    BY <1>4, <1>5, <2>2 DEF TakeFromMemory
<1>6. ASSUME NEW p \in Procs, NEW k \in Keys, RemoveOk(p, k)
      PROVE  FreshIsNowhere' /\ ServedForItsDatabase'
  BY <1>4, <1>6, ZenonT(60) DEF RemoveOk, HeldIsOwn
<1>7. CASE UNCHANGED <<made, file, served, servedFor>>
  BY <1>7
<1>8. ASSUME NEW p \in Procs,
             \/ \E b \in Bindings : Start(p, b)
             \/ Ready(p) \/ WriteTmp(p) \/ PersistFails(p) \/ Push(p) \/ Pop(p)
             \/ \E k \in Keys : RemoveMissing(p, k) \/ RemoveFails(p, k)
             \/ Crash(p)
      PROVE  UNCHANGED <<made, file, served, servedFor>>
  BY <1>8 DEF Start, Ready, WriteTmp, PersistFails, Push, Pop, RemoveMissing,
              RemoveFails, Crash
<1> QED
  BY <1>1, <1>2, <1>3, <1>5, <1>6, <1>7, <1>8, ZenonT(60) DEF Next, vars

-----------------------------------------------------------------------------
(* Service at most once.                                                   *)

Once == LooseIsUnserved /\ LooseIsUnique /\ FileIsUnserved

\* Nothing becomes loose: the steps that only drop copies, or move a
\* generator on without a file appearing.
LEMMA NoNewLoose ==
    ASSUME TypeOK, Once, UNCHANGED served,
           \A k \in Keys : file'[k] \in {file[k], None},
           \A p \in Procs : \A k \in Keys :
              /\ LooseGen(p, k)' => LooseGen(p, k)
              /\ \A i \in DOMAIN mem'[p] :
                    LooseMem(p, i, k)' => i \in DOMAIN mem[p] /\ LooseMem(p, i, k)
    PROVE  Once'
<1>1. LooseIsUnserved'
  BY DEF Once, LooseIsUnserved
<1>2. LooseIsUnique'
  BY DEF Once, LooseIsUnique
<1>3. FileIsUnserved'
  BY DEF Once, FileIsUnserved
<1> QED
  BY <1>1, <1>2, <1>3 DEF Once

\* A loaded entry has a file, so it is not loose.
LEMMA LoadFileOnce ==
    ASSUME TypeOK, Once, NEW p \in Procs, NEW k \in Keys, LoadFile(p, k)
    PROVE  Once'
<1>1. mem[p] \in Seq(Entries) /\ Entry(k, TRUE) \in Entries
  BY Zenon DEF TypeOK, Entries, Entry
<1>2. \A i \in DOMAIN Append(mem[p], Entry(k, TRUE)) :
         \/ i \in DOMAIN mem[p] /\ Append(mem[p], Entry(k, TRUE))[i] = mem[p][i]
         \/ Append(mem[p], Entry(k, TRUE))[i] = Entry(k, TRUE)
  BY <1>1, AppendFacts, ZenonT(60)
<1>3. \A h \in Keys : Entry(k, TRUE) # Entry(h, FALSE)
  BY DEF Entry
<1>4. \A q \in Procs : \A h \in Keys : \A i \in DOMAIN mem'[q] :
         LooseMem(q, i, h)' => i \in DOMAIN mem[q] /\ LooseMem(q, i, h)
  <2>1. CASE Usable(p, k)
    BY <1>2, <1>3, <2>1, Zenon DEF LoadFile, LooseMem, TypeOK
  <2>2. CASE ~Usable(p, k)
    BY <2>2, Zenon DEF LoadFile, LooseMem
  <2> QED
    BY <2>1, <2>2
<1>5. \A h \in Keys : file'[h] \in {file[h], None}
  BY Zenon DEF LoadFile, TypeOK
<1>6. \A q \in Procs : \A h \in Keys : LooseGen(q, h)' => LooseGen(q, h)
  BY DEF LoadFile, LooseGen
<1> QED
  BY <1>4, <1>5, <1>6, NoNewLoose DEF LoadFile

\* A freshly drawn key is held by nobody else and has no history.
LEMMA GenerateOnce ==
    ASSUME OnceInv, NEW p \in Procs, NEW k \in Keys, Generate(p, k)
    PROVE  Once'
<1> USE DEF OnceInv
<1>1. \A q \in Procs : ~LooseGen(q, k) /\ \A i \in DOMAIN mem[q] : ~LooseMem(q, i, k)
  <2> TAKE q \in Procs
  <2>1. ~LooseGen(q, k)
    BY BindingIsReal DEF Generate, LooseGen, HeldIsOwn
  <2>2. ASSUME NEW i \in DOMAIN mem[q], LooseMem(q, i, k)
        PROVE  FALSE
    <3>1. mem[q][i].key = k
      BY <2>2 DEF LooseMem, Entry
    <3> QED
      BY <3>1, BindingIsReal DEF Generate, HeldIsOwn
  <2> QED
    BY <2>1, <2>2
<1>2. served[k] = 0 /\ file[k] = None /\ UNCHANGED <<served, file, mem>>
  BY SMTT(60) DEF Generate, FreshIsNowhere
<1>3. \A q \in Procs, h \in Keys :
         LooseGen(q, h)' <=> IF q = p THEN h = k ELSE LooseGen(q, h)
  BY DEF Generate, LooseGen, At, TypeOK
<1>4. \A q \in Procs, h \in Keys : \A i \in DOMAIN mem'[q] :
         LooseMem(q, i, h)' <=> LooseMem(q, i, h)
  BY <1>2, SMTT(60) DEF LooseMem
<1>5. LooseIsUnserved'
  BY <1>2, <1>3, <1>4, SMTT(60) DEF LooseIsUnserved
<1>6. LooseIsUnique'
  BY <1>1, <1>2, <1>3, <1>4, SMTT(60) DEF LooseIsUnique
<1>7. FileIsUnserved'
  BY <1>2 DEF FileIsUnserved
<1> QED
  BY <1>5, <1>6, <1>7 DEF Once

\* The entry's only loose copy becomes a file.
LEMMA RenameOnce ==
    ASSUME TypeOK, Once, NEW p \in Procs, Rename(p)
    PROVE  Once'
<1> DEFINE k == gen[p].key
<1>1. k \in Keys /\ LooseGen(p, k)
  BY DEF Rename, TypeOK, LooseGen
<1>2. \A q \in Procs, h \in Keys : LooseGen(q, h)' <=> q # p /\ LooseGen(q, h)
  BY DEF Rename, LooseGen, TypeOK
<1>3. \A q \in Procs, h \in Keys : \A i \in DOMAIN mem'[q] :
         i \in DOMAIN mem[q] /\ (LooseMem(q, i, h)' <=> LooseMem(q, i, h))
  BY DEF Rename, LooseMem
<1>4. UNCHANGED served /\ \A h \in Keys \ {k} : file'[h] = file[h]
  BY SMTT(60) DEF Rename, TypeOK
<1> HIDE DEF k
<1>5. served[k] = 0 /\ \A q \in Procs : LooseGen(q, k) => q = p
  BY <1>1 DEF Once, LooseIsUnserved, LooseIsUnique
<1>6. \A q \in Procs : \A i \in DOMAIN mem[q] : ~LooseMem(q, i, k)
  BY <1>1, ZenonT(60) DEF Once, LooseIsUnique
<1>7. LooseIsUnserved'
  BY <1>2, <1>3, <1>4, <1>5, <1>6, ZenonT(60) DEF Once, LooseIsUnserved
<1>8. LooseIsUnique'
  BY <1>2, <1>3 DEF Once, LooseIsUnique
<1>9. FileIsUnserved'
  BY <1>4, <1>5, SMTT(60) DEF Once, FileIsUnserved
<1> QED
  BY <1>7, <1>8, <1>9 DEF Once

\* The generator's copy moves into the queue.
LEMMA PushOnce ==
    ASSUME TypeOK, Once, NEW p \in Procs, Push(p)
    PROVE  Once'
<1> DEFINE k == gen[p].key
           e == Entry(k, gen[p].step = "push_file")
           n == Len(mem[p]) + 1
<1>1. k \in Keys /\ e \in Entries /\ mem[p] \in Seq(Entries)
  BY Zenon DEF Push, TypeOK, Entries, Entry
<1>2. \A h \in Keys : e = Entry(h, FALSE) => h = k /\ LooseGen(p, h)
  BY Zenon DEF Push, Entry, LooseGen
<1>3. \A q \in Procs, h \in Keys : LooseGen(q, h)' <=> q # p /\ LooseGen(q, h)
  BY DEF Push, LooseGen, Idle, TypeOK
<1>4. UNCHANGED <<served, file>> /\ mem' = [mem EXCEPT ![p] = Append(@, e)]
  BY DEF Push
<1> HIDE DEF e, k
<1>5. \A i \in DOMAIN Append(mem[p], e) :
         \/ i \in DOMAIN mem[p] /\ Append(mem[p], e)[i] = mem[p][i]
         \/ i = n /\ Append(mem[p], e)[i] = e
  BY <1>1, AppendFacts, SMTT(60)
<1>6. \A q \in Procs, h \in Keys : \A i \in DOMAIN mem'[q] : LooseMem(q, i, h)' =>
         \/ i \in DOMAIN mem[q] /\ LooseMem(q, i, h)
         \/ q = p /\ i = n /\ LooseGen(p, h)
  BY <1>2, <1>4, <1>5, ZenonT(60) DEF LooseMem, TypeOK
<1> HIDE DEF n
<1>7. LooseIsUnserved'
  BY <1>3, <1>4, <1>6, ZenonT(60) DEF Once, LooseIsUnserved
<1>8. LooseIsUnique'
  BY <1>3, <1>6 DEF Once, LooseIsUnique
<1>9. FileIsUnserved'
  BY <1>4 DEF Once, FileIsUnserved
<1> QED
  BY <1>7, <1>8, <1>9 DEF Once

\* The front of a queue leaves it; the positions of the others shift.
LEMMA FrontOnce ==
    ASSUME TypeOK, NEW p \in Procs, mem[p] # <<>>,
           mem' = [mem EXCEPT ![p] = Tail(@)]
    PROVE  \A q \in Procs, h \in Keys : \A i \in DOMAIN mem'[q] :
              LET j == IF q = p THEN i + 1 ELSE i
              IN  /\ i \in Nat \ {0} /\ j \in DOMAIN mem[q]
                  /\ LooseMem(q, i, h)' => LooseMem(q, j, h)
<1>1. mem[p] \in Seq(Entries)
  BY Zenon DEF TypeOK, Entries
<1>2. \A i \in DOMAIN Tail(mem[p]) :
         i \in Nat \ {0} /\ i + 1 \in DOMAIN mem[p] /\ Tail(mem[p])[i] = mem[p][i + 1]
  BY <1>1, TailFacts
<1>3. \A q \in Procs : \A i \in DOMAIN mem[q] : i \in Nat \ {0}
  BY SMTT(60) DEF TypeOK
<1>4. mem'[p] = Tail(mem[p]) /\ \A q \in Procs \ {p} : mem'[q] = mem[q]
  BY SMTT(60) DEF TypeOK
<1> QED
  BY <1>2, <1>3, <1>4, ZenonT(60) DEF LooseMem

\* Popping an entry that has a file makes nothing loose.
LEMMA PopOnce ==
    ASSUME TypeOK, Once, NEW p \in Procs, Pop(p)
    PROVE  Once'
<1>1. /\ mem[p] # <<>> /\ mem' = [mem EXCEPT ![p] = Tail(@)]
      /\ UNCHANGED <<served, file, gen>>
  BY SMTT(60) DEF Pop
<1>2. \A q \in Procs, h \in Keys : \A i \in DOMAIN mem'[q] :
         LET j == IF q = p THEN i + 1 ELSE i
         IN  /\ i \in Nat \ {0} /\ j \in DOMAIN mem[q]
             /\ LooseMem(q, i, h)' => LooseMem(q, j, h)
  BY <1>1, FrontOnce, Zenon
<1>3. \A q \in Procs, h \in Keys : LooseGen(q, h)' <=> LooseGen(q, h)
  BY <1>1 DEF LooseGen
<1>4. LooseIsUnserved'
  BY <1>1, <1>2, <1>3, ZenonT(60) DEF Once, LooseIsUnserved
<1>5. LooseIsUnique'
  BY <1>2, <1>3 DEF Once, LooseIsUnique
<1>6. FileIsUnserved'
  BY <1>1, SMTT(60) DEF Once, FileIsUnserved
<1> QED
  BY <1>4, <1>5, <1>6 DEF Once

\* An entry served from memory was the only loose copy, and has no file.
LEMMA TakeFromMemoryOnce ==
    ASSUME TypeOK, Once, NEW p \in Procs, TakeFromMemory(p)
    PROVE  Once' /\ Head(mem[p]).key \in Keys /\ served[Head(mem[p]).key] = 0
<1>1. mem[p] \in Seq(Entries) /\ mem[p] # <<>> /\ ~Head(mem[p]).persisted
  BY Zenon DEF TypeOK, Entries, TakeFromMemory
<1>2. 1 \in DOMAIN mem[p] /\ Head(mem[p]) = mem[p][1] /\ Head(mem[p]) \in Entries
  BY <1>1, TailFacts
<1>3. PICK k \in Keys : k = Head(mem[p]).key /\ LooseMem(p, 1, k)
  BY <1>1, <1>2, ZenonT(60) DEF LooseMem, Entry, Entries
<1>4. mem' = [mem EXCEPT ![p] = Tail(@)] /\ UNCHANGED <<file, gen>>
  BY DEF TakeFromMemory
<1>5. served' = [served EXCEPT ![k] = @ + 1]
  BY <1>3 DEF TakeFromMemory, HandOut
<1>6. served[k] = 0 /\ file[k] = None
  BY <1>2, <1>3, SMTT(60) DEF Once, LooseIsUnserved
<1>7. served'[k] = 1 /\ \A h \in Keys \ {k} : served'[h] = served[h]
  BY <1>3, <1>5, <1>6, SMTT(60) DEF TypeOK
<1>8. \A q \in Procs, h \in Keys : \A i \in DOMAIN mem'[q] :
         LET j == IF q = p THEN i + 1 ELSE i
         IN  /\ i \in Nat \ {0} /\ j \in DOMAIN mem[q]
             /\ LooseMem(q, i, h)' => LooseMem(q, j, h)
  BY <1>1, <1>4, FrontOnce, ZenonT(60)
<1>9. \A q \in Procs, h \in Keys : LooseGen(q, h)' <=> LooseGen(q, h)
  BY <1>4 DEF LooseGen
<1>10. \A q \in Procs : ~LooseGen(q, k) /\ \A i \in DOMAIN mem'[q] : ~LooseMem(q, i, k)'
  <2> TAKE q \in Procs
  <2>1. ~LooseGen(q, k)
    BY <1>2, <1>3 DEF Once, LooseIsUnique
  <2>2. ASSUME NEW i \in DOMAIN mem'[q], LooseMem(q, i, k)'
        PROVE  FALSE
    <3> DEFINE j == IF q = p THEN i + 1 ELSE i
    <3>1. i \in Nat \ {0} /\ j \in DOMAIN mem[q] /\ LooseMem(q, j, k)
      BY <1>3, <1>8, <2>2
    <3>2. q = p => j # 1
      BY <3>1, SMTT(60)
    <3> HIDE DEF j
    <3>3. q = p /\ j = 1
      BY <1>2, <1>3, <3>1, SMTT(60) DEF Once, LooseIsUnique
    <3> QED
      BY <3>2, <3>3
  <2> QED
    BY <2>1, <2>2
<1>11. LooseIsUnserved'
  <2>1. ASSUME NEW q \in Procs, NEW h \in Keys, LooseGen(q, h)'
        PROVE  served'[h] = 0 /\ file'[h] = None
    BY <1>4, <1>7, <1>9, <1>10, <2>1, SMTT(60) DEF Once, LooseIsUnserved
  <2>2. ASSUME NEW q \in Procs, NEW h \in Keys, NEW i \in DOMAIN mem'[q],
               LooseMem(q, i, h)'
        PROVE  served'[h] = 0 /\ file'[h] = None
    <3>1. h # k
      BY <1>10, <2>2, SMTT(60)
    <3>2. \E j \in DOMAIN mem[q] : LooseMem(q, j, h)
      BY <1>8, <2>2, SMTT(60)
    <3>3. served[h] = 0 /\ file[h] = None
      BY <3>2, ZenonT(60) DEF Once, LooseIsUnserved
    <3> QED
      BY <1>4, <1>7, <3>1, <3>3
  <2> QED
    BY <2>1, <2>2, SMTT(60) DEF LooseIsUnserved
<1>12. LooseIsUnique'
  BY <1>8, <1>9, SMTT(60) DEF Once, LooseIsUnique
<1>13. FileIsUnserved'
  BY <1>4, <1>6, <1>7 DEF Once, FileIsUnserved
<1> QED
  BY <1>3, <1>6, <1>11, <1>12, <1>13, SMTT(60) DEF Once

\* An entry whose file was just removed was not served before, and nobody
\* holds a copy that could be served without a file.
LEMMA RemoveOkOnce ==
    ASSUME TypeOK, Once, NEW p \in Procs, NEW k \in Keys, RemoveOk(p, k)
    PROVE  Once' /\ served[k] = 0
<1>1. served[k] = 0
  BY SMTT(60) DEF RemoveOk, Once, FileIsUnserved
<1>2. served'[k] = 1 /\ file'[k] = None
  BY <1>1, SMTT(60) DEF RemoveOk, HandOut, TypeOK
<1>3. /\ UNCHANGED <<mem, gen>>
      /\ \A h \in Keys \ {k} : served'[h] = served[h] /\ file'[h] = file[h]
  BY SMTT(60) DEF RemoveOk, HandOut, TypeOK
<1>4. \A q \in Procs : ~LooseGen(q, k) /\ \A i \in DOMAIN mem[q] : ~LooseMem(q, i, k)
  BY SMTT(60) DEF RemoveOk, Once, LooseIsUnserved
<1>5. \A q \in Procs, h \in Keys :
         /\ LooseGen(q, h)' <=> LooseGen(q, h)
         /\ \A i \in DOMAIN mem'[q] : LooseMem(q, i, h)' <=> LooseMem(q, i, h)
  BY <1>3, ZenonT(60) DEF LooseGen, LooseMem
<1>6. LooseIsUnserved'
  <2>1. LooseIsUnserved
    BY Zenon DEF Once
  <2> SUFFICES ASSUME NEW h \in Keys, NEW q \in Procs
               PROVE  /\ LooseGen(q, h)' => served'[h] = 0 /\ file'[h] = None
                      /\ \A i \in DOMAIN mem'[q] :
                            LooseMem(q, i, h)' => served'[h] = 0 /\ file'[h] = None
    BY Zenon DEF LooseIsUnserved
  <2>2. CASE h = k
    BY <1>3, <1>4, <1>5, <2>2, Zenon
  <2>3. CASE h # k
    <3>1. /\ LooseGen(q, h) => served[h] = 0 /\ file[h] = None
          /\ \A i \in DOMAIN mem[q] :
                LooseMem(q, i, h) => served[h] = 0 /\ file[h] = None
      BY <2>1, Zenon DEF LooseIsUnserved
    <3> QED
      BY <1>3, <1>5, <2>3, <3>1, Zenon
  <2> QED
    BY <2>2, <2>3, Zenon
<1>7. LooseIsUnique'
  BY <1>3, <1>5, SMTT(60) DEF Once, LooseIsUnique
<1>8. FileIsUnserved'
  BY <1>2, <1>3, SMTT(60) DEF Once, FileIsUnserved
<1> QED
  BY <1>1, <1>6, <1>7, <1>8, SMTT(60) DEF Once

\* Every step of every process keeps the three facts.
LEMMA OnceStep ==
    ASSUME OnceInv, [Next]_vars
    PROVE  Once'
<1>0. TypeOK /\ Once
  BY SMTT(60) DEF OnceInv, Once
<1>1. ASSUME NEW p \in Procs, NEW b \in Bindings, Start(p, b)
      PROVE  Once'
  BY <1>0, <1>1, NoNewLoose, Zenon DEF Start, LooseGen, LooseMem
<1>2. ASSUME NEW p \in Procs, NEW k \in Keys, LoadFile(p, k)
      PROVE  Once'
  BY <1>0, <1>2, LoadFileOnce
<1>3. ASSUME NEW p \in Procs, NEW k \in Keys, Generate(p, k)
      PROVE  Once'
  BY <1>3, GenerateOnce
<1>4. ASSUME NEW p \in Procs, Ready(p)
      PROVE  Once'
  BY <1>0, <1>4, NoNewLoose, Zenon DEF Ready, LooseGen, LooseMem
<1>5. ASSUME NEW p \in Procs, WriteTmp(p) \/ PersistFails(p)
      PROVE  Once'
  <2>1. \A q \in Procs, h \in Keys : LooseGen(q, h)' => LooseGen(q, h)
    <3>1. \E s \in GenSteps \ {"idle"} : gen' = [gen EXCEPT ![p].step = s]
      BY <1>5 DEF WriteTmp, PersistFails, GenSteps
    <3>2. gen[p].step \in {"write", "rename"}
      BY <1>5 DEF WriteTmp, PersistFails
    <3> QED
      BY <1>0, <3>1, <3>2 DEF LooseGen, TypeOK
  <2>2. UNCHANGED <<served, file, mem>>
    BY <1>5 DEF WriteTmp, PersistFails
  <2> QED
    BY <1>0, <2>1, <2>2, NoNewLoose, Zenon DEF LooseMem
<1>6. ASSUME NEW p \in Procs, Rename(p)
      PROVE  Once'
  BY <1>0, <1>6, RenameOnce
<1>7. ASSUME NEW p \in Procs, Push(p)
      PROVE  Once'
  BY <1>0, <1>7, PushOnce
<1>8. ASSUME NEW p \in Procs, TakeFromMemory(p)
      PROVE  Once'
  BY <1>0, <1>8, TakeFromMemoryOnce
<1>9. ASSUME NEW p \in Procs, Pop(p)
      PROVE  Once'
  BY <1>0, <1>9, PopOnce
<1>10. ASSUME NEW p \in Procs, NEW k \in Keys, RemoveOk(p, k)
       PROVE  Once'
  BY <1>0, <1>10, RemoveOkOnce
<1>11. ASSUME NEW p \in Procs, NEW k \in Keys, RemoveMissing(p, k) \/ RemoveFails(p, k)
       PROVE  Once'
  BY <1>0, <1>11, NoNewLoose, Zenon
     DEF RemoveMissing, RemoveFails, LooseGen, LooseMem
<1>12. ASSUME NEW p \in Procs, Crash(p)
       PROVE  Once'
  <2>1. \A q \in Procs, h \in Keys : LooseGen(q, h)' => LooseGen(q, h)
    BY <1>0, <1>12 DEF Crash, LooseGen, Idle, TypeOK
  <2>2. \A q \in Procs, h \in Keys : \A i \in DOMAIN mem'[q] :
           LooseMem(q, i, h)' => i \in DOMAIN mem[q] /\ LooseMem(q, i, h)
    <3>1. mem'[p] = <<>> /\ \A q \in Procs \ {p} : mem'[q] = mem[q]
      BY <1>0, <1>12 DEF Crash, TypeOK
    <3>2. DOMAIN mem'[p] = {}
      BY <3>1
    <3> QED
      BY <3>1, <3>2, Zenon DEF LooseMem
  <2>3. UNCHANGED <<served, file>>
    BY <1>12 DEF Crash
  <2> QED
    BY <1>0, <2>1, <2>2, <2>3, NoNewLoose
<1>13. CASE UNCHANGED vars
  BY <1>0, <1>13, NoNewLoose, Zenon DEF vars, LooseGen, LooseMem
<1> QED
  BY <1>1, <1>2, <1>3, <1>4, <1>5, <1>6, <1>7, <1>8, <1>9, <1>10, <1>11, <1>12,
     <1>13 DEF Next

\* Nothing was drawn, written or served before the first start.
LEMMA OnceInit == Init => OnceInv
<1> SUFFICES ASSUME Init PROVE OnceInv
  OBVIOUS
<1>1. TypeOK /\ DownIsEmpty
  BY SizeInit DEF SizeInv
<1>2. \A p \in Procs : gen[p] = Idle /\ mem[p] = <<>> /\ DOMAIN mem[p] = {} /\ hand[p] = {}
  BY SMTT(60) DEF Init
<1>3. LooseIsUnserved /\ LooseIsUnique
  BY <1>2, SMTT(60) DEF LooseIsUnserved, LooseIsUnique, LooseGen, Idle
<1>4. FileIsUnserved /\ FreshIsNowhere /\ ServedForItsDatabase
  BY SMTT(60) DEF Init, FileIsUnserved, FreshIsNowhere, ServedForItsDatabase
<1>5. HeldIsOwn
  BY <1>2 DEF HeldIsOwn, Idle
<1> QED
  BY <1>1, <1>3, <1>4, <1>5 DEF OnceInv

\* The inductive invariant of the pool.
LEMMA OnceInvariant == Spec => []OnceInv
<1>1. OnceInv /\ [Next]_vars => OnceInv'
  <2> SUFFICES ASSUME OnceInv, [Next]_vars PROVE OnceInv'
    OBVIOUS
  <2>1. TypeOK'
    BY TypeStep DEF OnceInv
  <2>2. DownIsEmpty' /\ HeldIsOwn'
    BY DownStep, HeldStep DEF OnceInv
  <2>3. FreshIsNowhere' /\ ServedForItsDatabase'
    BY DatabaseStep DEF OnceInv
  <2>4. Once'
    BY OnceStep
  <2> QED
    BY <2>1, <2>2, <2>3, <2>4 DEF OnceInv, Once
<1> QED
  BY OnceInit, <1>1, PTL DEF Spec

\* try_take hands out an entry at most once over all processes that share the
\* directory, whatever crashes, restarts, failed writes and failed removals
\* happen, and only for the database the entry was computed for.
THEOREM PoolServesOnce == Spec => [](ServedAtMostOnce /\ ServedForItsDatabase)
<1>1. OnceInv => ServedAtMostOnce /\ ServedForItsDatabase
  BY DEF OnceInv, FileIsUnserved, ServedAtMostOnce
<1> QED
  BY OnceInvariant, <1>1, PTL

\* Every variable of the pool keeps its type.
THEOREM PoolTypes == Spec => []TypeOK
<1>1. OnceInv => TypeOK
  BY SMTT(60) DEF OnceInv
<1> QED
  BY OnceInvariant, <1>1, PTL

\* Handing out an entry that was not handed out before, for the database it
\* was made for, is a step of the abstract supply.
LEMMA HandOutIsGive ==
    ASSUME OnceInv, NEW p \in Procs, NEW k \in Keys, HandOut(p, k),
           served[k] = 0, made[k] = binding[p], UNCHANGED made, servedFor'[k] \subseteq {made[k]}
    PROVE  Supply!Give(k)
<1>1. made[k] # None /\ None = Supply!None
  BY BindingIsReal, SMTT(60) DEF OnceInv, None, Supply!None
<1>2. served' = [served EXCEPT ![k] = 1]
  BY SMTT(60) DEF HandOut, OnceInv, TypeOK
<1>3. servedFor'[k] = {made[k]}
  BY SMTT(60) DEF HandOut, OnceInv, TypeOK
<1>4. servedFor' = [servedFor EXCEPT ![k] = {made[k]}]
  BY <1>3, ZenonT(60) DEF HandOut, OnceInv, TypeOK
<1> QED
  BY <1>1, <1>2, <1>4, SMTT(60) DEF Supply!Give

\* The pool of processes, files and threads implements the abstract supply:
\* each step makes a fresh entry, gives one away for the first time and for
\* its own database, or is invisible to clients.
THEOREM PoolImplementsSupply == Spec => ImplementsSupply
<1> USE DEF Supply!vars
<1>1. Init => Supply!Init
  BY DEF Init, Supply!Init, None, Supply!None
<1>2. OnceInv /\ OnceInv' /\ [Next]_vars => [Supply!Next]_(Supply!vars)
  <2> SUFFICES ASSUME OnceInv, OnceInv', [Next]_vars
               PROVE  Supply!Next \/ UNCHANGED <<made, served, servedFor>>
    OBVIOUS
  <2>0. TypeOK /\ Once
    BY DEF OnceInv, Once
  <2>1. ASSUME NEW p \in Procs, NEW k \in Keys, Generate(p, k)
        PROVE  Supply!Next
    <3>1. Supply!Make(k, binding[p])
      BY <2>1 DEF Generate, Supply!Make, None, Supply!None
    <3> QED
      BY <2>0, <3>1, BindingIsReal DEF Supply!Next
  <2>2. ASSUME NEW p \in Procs, TakeFromMemory(p)
        PROVE  Supply!Next
    <3>1. PICK k \in Keys : k = Head(mem[p]).key /\ served[k] = 0
      BY <2>0, <2>2, TakeFromMemoryOnce, SMTT(60)
    <3>2. mem[p] \in Seq(Entries)
      BY <2>0, ZenonT(60) DEF TypeOK, Entries
    <3>3. 1 \in DOMAIN mem[p] /\ Head(mem[p]) = mem[p][1]
      BY <2>2, <3>2, TailFacts, ZenonT(60) DEF TakeFromMemory
    <3>4. made[k] = binding[p]
      BY <3>1, <3>3 DEF OnceInv, HeldIsOwn
    <3>5. HandOut(p, k) /\ UNCHANGED made
      BY <2>2, <3>1, SMTT(60) DEF TakeFromMemory
    <3>6. servedFor'[k] \subseteq {made[k]}
      BY <3>5, SMTT(60) DEF OnceInv, ServedForItsDatabase
    <3> QED
      BY <3>1, <3>4, <3>5, <3>6, HandOutIsGive, SMTT(60) DEF Supply!Next
  <2>3. ASSUME NEW p \in Procs, NEW k \in Keys, RemoveOk(p, k)
        PROVE  Supply!Next
    <3>1. served[k] = 0
      BY <2>0, <2>3, RemoveOkOnce, ZenonT(60)
    <3>2. made[k] = binding[p] /\ HandOut(p, k) /\ UNCHANGED made
      BY <2>3, SMTT(60) DEF RemoveOk, OnceInv, HeldIsOwn
    <3>3. servedFor'[k] \subseteq {made[k]}
      BY <3>2, ZenonT(60) DEF OnceInv, ServedForItsDatabase
    <3> QED
      BY <3>1, <3>2, <3>3, HandOutIsGive DEF Supply!Next
  <2>4. ASSUME NEW p \in Procs,
               \/ \E b \in Bindings : Start(p, b)
               \/ \E k \in Keys : LoadFile(p, k)
               \/ Ready(p) \/ WriteTmp(p) \/ Rename(p) \/ PersistFails(p)
               \/ Push(p) \/ Pop(p)
               \/ \E k \in Keys : RemoveMissing(p, k) \/ RemoveFails(p, k)
               \/ Crash(p)
        PROVE  UNCHANGED <<made, served, servedFor>>
    BY <2>4, Zenon
       DEF Start, LoadFile, Ready, WriteTmp, Rename, PersistFails, Push, Pop,
                RemoveMissing, RemoveFails, Crash
  <2> QED
    BY <2>1, <2>2, <2>3, <2>4, ZenonT(60) DEF Next, vars
<1> QED
  BY OnceInvariant, <1>1, <1>2, PTL DEF Spec, Supply!Spec, ImplementsSupply

\* All that try_take and the refill promise, for any number of processes that
\* share a directory, any keys, databases and pool size.
THEOREM PoolIsSafe == Spec => []PoolSafe
<1>1. TypeOK /\ ServedAtMostOnce /\ ServedForItsDatabase /\ PoolBounded => PoolSafe
  BY Zenon DEF PoolSafe
<1> QED
  BY <1>1, PoolTypes, PoolServesOnce, PoolIsBounded, PTL
-----------------------------------------------------------------------------
(* Where what a process holds comes from, step by step.                    *)

\* An entry of a queue was there before, was loaded from a complete file, or
\* was pushed by the generator.
MemFrom(q, e) ==
    \/ \E j \in DOMAIN mem[q] : e = mem[q][j]
    \/ \E k \in Keys : e = Entry(k, TRUE) /\ file[k] = "ok" /\ file'[k] = "ok"
    \/ gen[q].step \in {"push", "push_file"} /\ e = Entry(gen[q].key, gen[q].step = "push_file")

\* A popped entry was popped before or was in the queue with a file.
HandFrom(q, k) == k \in hand[q] \/ \E j \in DOMAIN mem[q] : mem[q][j] = Entry(k, TRUE)

\* A generator at work keeps its key, and passes on a file only after it has
\* put it into the directory, or has just drawn its key.
GenFrom(q) ==
    \/ gen'[q].step = "idle"
    \/ /\ gen[q].step # "idle" /\ gen'[q].key = gen[q].key
       /\ gen'[q].step = "push_file" => gen[q].step = "push_file" \/ file'[gen[q].key] = "ok"
    \/ gen'[q].step = "write" /\ gen'[q].key \in Keys /\ made[gen'[q].key] = None
       /\ made'[gen'[q].key] # None

\* A file is put there by a generator, and removed by start-up or by the
\* handler that serves the entry.
FileFrom(k) ==
    \/ file'[k] = file[k]
    \/ file'[k] = "ok" /\ \E q \in Procs : gen[q].step = "rename" /\ gen[q].key = k
    \/ file'[k] = None /\ \E q \in Procs : ~Usable(q, k)
    \/ file'[k] = None /\ served'[k] = served[k] + 1

Origins ==
    /\ \A q \in Procs : \A i \in DOMAIN mem'[q] : MemFrom(q, mem'[q][i])
    /\ \A q \in Procs : \A k \in hand'[q] : HandFrom(q, k)
    /\ \A q \in Procs : GenFrom(q)
    /\ \A k \in Keys : FileFrom(k)

\* Every step of the pool gives what a process holds one of these origins.
LEMMA OriginsStep ==
    ASSUME TypeOK, [Next]_vars
    PROVE  Origins
<1>0. \A q \in Procs : mem[q] \in Seq(Entries)
  BY Zenon DEF TypeOK, Entries
<1>a. ASSUME UNCHANGED mem
      PROVE  \A q \in Procs : \A i \in DOMAIN mem'[q] : MemFrom(q, mem'[q][i])
  BY <1>a, Zenon DEF MemFrom
<1>b. ASSUME NEW p \in Procs, mem' = [mem EXCEPT ![p] = Tail(@)], mem[p] # <<>>
      PROVE  \A q \in Procs : \A i \in DOMAIN mem'[q] : MemFrom(q, mem'[q][i])
  <2>1. \A i \in DOMAIN Tail(mem[p]) : i + 1 \in DOMAIN mem[p] /\ Tail(mem[p])[i] = mem[p][i + 1]
    BY <1>0, <1>b, TailFacts
  <2>2. mem'[p] = Tail(mem[p]) /\ \A q \in Procs \ {p} : mem'[q] = mem[q]
    BY <1>b, Zenon DEF TypeOK
  <2>3. \A q \in Procs : \A j \in DOMAIN mem[q] : MemFrom(q, mem[q][j])
    BY Zenon DEF MemFrom
  <2>4. \A i \in DOMAIN mem'[p] : MemFrom(p, mem'[p][i])
    BY <2>1, <2>2, <2>3, Zenon
  <2> QED
    BY <2>2, <2>3, <2>4, Zenon
<1>c. ASSUME NEW p \in Procs, NEW e \in Entries, mem' = [mem EXCEPT ![p] = Append(@, e)], MemFrom(p, e)
      PROVE  \A q \in Procs : \A i \in DOMAIN mem'[q] : MemFrom(q, mem'[q][i])
  <2>1. \A i \in DOMAIN Append(mem[p], e) :
           \/ i \in DOMAIN mem[p] /\ Append(mem[p], e)[i] = mem[p][i]
           \/ Append(mem[p], e)[i] = e
    BY <1>0, AppendFacts
  <2>2. mem'[p] = Append(mem[p], e) /\ \A q \in Procs \ {p} : mem'[q] = mem[q]
    BY <1>c, Zenon DEF TypeOK
  <2>3. \A q \in Procs : \A j \in DOMAIN mem[q] : MemFrom(q, mem[q][j])
    BY Zenon DEF MemFrom
  <2>4. \A i \in DOMAIN mem'[p] : MemFrom(p, mem'[p][i])
    BY <1>c, <2>1, <2>2, <2>3, Zenon
  <2> QED
    BY <2>2, <2>3, <2>4, Zenon
<1>d. ASSUME \A q \in Procs : hand'[q] \subseteq hand[q]
      PROVE  \A q \in Procs : \A k \in hand'[q] : HandFrom(q, k)
  BY <1>d, Zenon DEF HandFrom
<1>e. ASSUME UNCHANGED gen
      PROVE  \A q \in Procs : GenFrom(q)
  BY <1>e, Zenon DEF GenFrom
<1>f. ASSUME UNCHANGED file
      PROVE  \A k \in Keys : FileFrom(k)
  BY <1>f, Zenon DEF FileFrom
<1>1. ASSUME NEW p \in Procs, NEW b \in Bindings, Start(p, b)
      PROVE  Origins
  BY <1>1, <1>a, <1>d, <1>e, <1>f, Zenon DEF Start, Origins
<1>2. ASSUME NEW p \in Procs, NEW k \in Keys, LoadFile(p, k)
      PROVE  Origins
  <2>1. \A q \in Procs : \A i \in DOMAIN mem'[q] : MemFrom(q, mem'[q][i])
    <3>1. CASE Usable(p, k)
      <4>1. Entry(k, TRUE) \in Entries
        BY Zenon DEF Entry, Entries
      <4>2. MemFrom(p, Entry(k, TRUE))
        BY <1>2, <3>1, Zenon DEF LoadFile, Usable, MemFrom
      <4> QED
        BY <1>2, <3>1, <4>1, <4>2, <1>c, Zenon DEF LoadFile
    <3>2. CASE ~Usable(p, k)
      BY <1>2, <3>2, <1>a, Zenon DEF LoadFile
    <3> QED
      BY <3>1, <3>2
  <2>2. \A h \in Keys : FileFrom(h)
    <3>1. CASE Usable(p, k)
      BY <1>2, <3>1, <1>f, Zenon DEF LoadFile
    <3>2. CASE ~Usable(p, k)
      BY <1>2, <3>2, Zenon DEF LoadFile, FileFrom, TypeOK
    <3> QED
      BY <3>1, <3>2
  <2> QED
    BY <1>2, <2>1, <2>2, <1>d, <1>e, Zenon DEF LoadFile, Origins
<1>3. ASSUME NEW p \in Procs, NEW k \in Keys, Generate(p, k)
      PROVE  Origins
  <2>1. made'[k] = binding[p] /\ made'[k] # None /\ made[k] = None
    BY <1>3, BindingIsReal, Zenon DEF Generate, TypeOK
  <2>2. gen'[p].step = "write" /\ gen'[p].key = k /\ \A q \in Procs \ {p} : gen'[q] = gen[q]
    BY <1>3 DEF Generate, At, TypeOK
  <2>3. \A q \in Procs : GenFrom(q)
    BY <2>1, <2>2, Zenon DEF GenFrom
  <2> QED
    BY <1>3, <2>3, <1>a, <1>d, <1>f, Zenon DEF Generate, Origins
<1>4. ASSUME NEW p \in Procs, Ready(p)
      PROVE  Origins
  BY <1>4, <1>a, <1>d, <1>e, <1>f, Zenon DEF Ready, Origins
<1>5. ASSUME NEW p \in Procs, WriteTmp(p) \/ PersistFails(p)
      PROVE  Origins
  <2>1. \A q \in Procs : GenFrom(q)
    <3>1. PICK s \in {"rename", "push"} : gen' = [gen EXCEPT ![p].step = s]
      BY <1>5, Zenon DEF WriteTmp, PersistFails
    <3>2. gen[p].step # "idle"
      BY <1>5 DEF WriteTmp, PersistFails
    <3>3. gen'[p].step = s /\ gen'[p].key = gen[p].key /\ \A q \in Procs \ {p} : gen'[q] = gen[q]
      BY <3>1 DEF TypeOK
    <3> QED
      BY <3>2, <3>3, Zenon DEF GenFrom
  <2> QED
    BY <1>5, <2>1, <1>a, <1>d, <1>f, Zenon DEF WriteTmp, PersistFails, Origins
<1>6. ASSUME NEW p \in Procs, Rename(p)
      PROVE  Origins
  <2>1. /\ gen'[p].step = "push_file" /\ gen'[p].key = gen[p].key
        /\ \A q \in Procs \ {p} : gen'[q] = gen[q]
    BY <1>6 DEF Rename, TypeOK
  <2>2. gen[p].step = "rename" /\ gen[p].key \in Keys
    BY <1>6, Zenon DEF Rename, TypeOK
  <2>3. file'[gen[p].key] = "ok" /\ \A k \in Keys : k # gen[p].key => file'[k] = file[k]
    BY <1>6, <2>2, Zenon DEF Rename, TypeOK
  <2>4. \A q \in Procs : GenFrom(q)
    BY <2>1, <2>2, <2>3, Zenon DEF GenFrom
  <2>5. \A k \in Keys : FileFrom(k)
    BY <2>2, <2>3, Zenon DEF FileFrom
  <2> QED
    BY <1>6, <2>4, <2>5, <1>a, <1>d, Zenon DEF Rename, Origins
<1>7. ASSUME NEW p \in Procs, Push(p)
      PROVE  Origins
  <2>1. Entry(gen[p].key, gen[p].step = "push_file") \in Entries
    BY <1>7, Zenon DEF Push, TypeOK, Entries, Entry
  <2>2. MemFrom(p, Entry(gen[p].key, gen[p].step = "push_file"))
    BY <1>7, Zenon DEF Push, MemFrom
  <2>3. \A q \in Procs : \A i \in DOMAIN mem'[q] : MemFrom(q, mem'[q][i])
    BY <1>7, <2>1, <2>2, <1>c, Zenon DEF Push
  <2>4. \A q \in Procs : GenFrom(q)
    BY <1>7, Zenon DEF Push, GenFrom, Idle, TypeOK
  <2> QED
    BY <1>7, <2>3, <2>4, <1>d, <1>f, Zenon DEF Push, Origins
<1>8. ASSUME NEW p \in Procs, TakeFromMemory(p)
      PROVE  Origins
  BY <1>8, <1>b, <1>d, <1>e, <1>f, Zenon DEF TakeFromMemory, Origins
<1>9. ASSUME NEW p \in Procs, Pop(p)
      PROVE  Origins
  <2>1. 1 \in DOMAIN mem[p] /\ Head(mem[p]) = mem[p][1] /\ mem[p][1] \in Entries
    BY <1>0, <1>9, TailFacts DEF Pop
  <2>2. mem[p][1] = Entry(Head(mem[p]).key, TRUE)
    BY <1>9, <2>1 DEF Pop, Entries, Entry
  <2>3. \A q \in Procs : \A k \in hand'[q] : HandFrom(q, k)
    BY <1>9, <2>1, <2>2, Zenon DEF Pop, HandFrom, TypeOK
  <2> QED
    BY <1>9, <2>3, <1>b, <1>e, <1>f, Zenon DEF Pop, Origins
<1>10. ASSUME NEW p \in Procs, NEW k \in Keys, RemoveOk(p, k)
       PROVE  Origins
  <2>1. \A h \in Keys : FileFrom(h)
    BY <1>10, Zenon DEF RemoveOk, HandOut, FileFrom, TypeOK
  <2>2. \A q \in Procs : hand'[q] \subseteq hand[q]
    BY <1>10, Zenon DEF RemoveOk, TypeOK
  <2> QED
    BY <1>10, <2>1, <2>2, <1>a, <1>d, <1>e, Zenon DEF RemoveOk, Origins
<1>11. ASSUME NEW p \in Procs, NEW k \in Keys, RemoveMissing(p, k) \/ RemoveFails(p, k)
       PROVE  Origins
  <2>1. \A q \in Procs : hand'[q] \subseteq hand[q]
    BY <1>11, Zenon DEF RemoveMissing, RemoveFails, TypeOK
  <2> QED
    BY <1>11, <2>1, <1>a, <1>d, <1>e, <1>f, Zenon DEF RemoveMissing, RemoveFails, Origins
<1>12. ASSUME NEW p \in Procs, Crash(p)
       PROVE  Origins
  <2>1. mem'[p] = <<>> /\ \A q \in Procs \ {p} : mem'[q] = mem[q]
    BY <1>12, Zenon DEF Crash, TypeOK
  <2>2. DOMAIN mem'[p] = {}
    BY <2>1
  <2>3. \A q \in Procs : \A i \in DOMAIN mem'[q] : MemFrom(q, mem'[q][i])
    BY <2>1, <2>2, Zenon DEF MemFrom
  <2>4. \A q \in Procs : hand'[q] \subseteq hand[q]
    BY <1>12, Zenon DEF Crash, TypeOK
  <2>5. \A q \in Procs : GenFrom(q)
    BY <1>12, Zenon DEF Crash, GenFrom, Idle, TypeOK
  <2> QED
    BY <1>12, <2>3, <2>4, <2>5, <1>d, <1>f, Zenon DEF Crash, Origins
<1>13. CASE UNCHANGED vars
  BY <1>13, <1>a, <1>d, <1>e, <1>f, Zenon DEF vars, Origins
<1> QED
  BY <1>1, <1>2, <1>3, <1>4, <1>5, <1>6, <1>7, <1>8, <1>9, <1>10, <1>11, <1>12,
     <1>13, ZenonT(60) DEF Next

-----------------------------------------------------------------------------
(* Entries are not wasted.                                                 *)

\* Process p counts on the file of k.
Filed(p, k) ==
    \/ k \in hand[p]
    \/ \E i \in DOMAIN mem[p] : mem[p][i] = Entry(k, TRUE)
    \/ gen[p].step = "push_file" /\ gen[p].key = k

\* No file is torn, and a file that a process counts on is missing only when
\* its entry was served.
FiledInv ==
    /\ \A k \in Keys : file[k] # "torn"
    /\ \A p \in Procs, k \in Keys : Filed(p, k) /\ file[k] = None => served[k] = 1

\* Start-up finds no file of another database to remove, so only the handler
\* that serves an entry takes its file away.
LEMMA FiledStep ==
    ASSUME OnceInv, OnceInv', FiledInv, \A b, c \in Bindings : b = c, [Next]_vars
    PROVE  FiledInv'
<1>0. Origins
  BY OriginsStep, Zenon DEF OnceInv
<1>1. \A k \in Keys : file[k] = "ok" => \A q \in Procs : Usable(q, k)
  <2> SUFFICES ASSUME NEW k \in Keys, file[k] = "ok", NEW q \in Procs
               PROVE  made[k] = binding[q]
    BY Zenon DEF Usable
  <2>1. made[k] \in Bindings \cup {None} /\ binding[q] \in Bindings
    BY Zenon DEF OnceInv, TypeOK
  <2>2. made[k] # None
    BY SMT DEF OnceInv, FreshIsNowhere, None
  <2> QED
    BY <2>1, <2>2, Zenon
<1>2. \A k \in Keys : file[k] \in {None, "ok"}
  BY Zenon DEF OnceInv, TypeOK, FiledInv
<1>3. \A k \in Keys : file'[k] # "torn"
  BY <1>0, <1>2, SMT DEF Origins, FileFrom, None
<1>4. \A k \in Keys : served[k] = 1 => served'[k] = 1
  <2>1. \A k \in Keys : served[k] \in {0, 1} /\ served'[k] \in {0, 1}
    BY Zenon DEF OnceInv, FileIsUnserved
  <2>2. UNCHANGED served \/ \E p \in Procs, k \in Keys : HandOut(p, k)
    <3>1. ASSUME NEW p \in Procs, TakeFromMemory(p)
          PROVE  \E k \in Keys : HandOut(p, k)
      <4>1. mem[p] \in Seq(Entries) /\ mem[p] # <<>>
        BY <3>1, Zenon DEF OnceInv, TypeOK, Entries, TakeFromMemory
      <4>2. Head(mem[p]) \in Entries
        BY <4>1, TailFacts
      <4>3. Head(mem[p]).key \in Keys
        BY <4>2 DEF Entries
      <4> QED
        BY <3>1, <4>3, Zenon DEF TakeFromMemory
    <3> QED
      BY <3>1, ZenonT(60) DEF Next, vars, Start, LoadFile, Generate, Ready, WriteTmp, Rename,
         PersistFails, Push, Pop, RemoveOk, RemoveMissing, RemoveFails, Crash
  <2>3. ASSUME NEW p \in Procs, NEW k \in Keys, HandOut(p, k), NEW h \in Keys, served[h] = 1
        PROVE  served'[h] = 1
    <3>1. served \in [Keys -> Nat] /\ served' = [served EXCEPT ![k] = @ + 1]
      BY <2>3, Zenon DEF OnceInv, TypeOK, HandOut
    <3>2. served'[k] = served[k] + 1 /\ \A j \in Keys \ {k} : served'[j] = served[j]
      BY <3>1, Zenon
    <3> QED
      BY <2>1, <2>3, <3>2, SMT
  <2> QED
    BY <2>2, <2>3, Zenon
<1>5. \A k \in Keys : file'[k] = None => file[k] = None \/ served'[k] = 1
  <2> SUFFICES ASSUME NEW k \in Keys, file'[k] = None, file[k] = "ok"
               PROVE  served'[k] = 1
    BY <1>2, Zenon
  <2>1. served[k] = 0
    BY SMT DEF OnceInv, FileIsUnserved, None
  <2>2. served'[k] = served[k] + 1
    BY <1>0, <1>1, SMT DEF Origins, FileFrom, None
  <2> QED
    BY <2>1, <2>2
<1>6. \A p \in Procs, k \in Keys : Filed(p, k)' => Filed(p, k) \/ file'[k] = "ok"
  <2> SUFFICES ASSUME NEW p \in Procs, NEW k \in Keys, Filed(p, k)'
               PROVE  Filed(p, k) \/ file'[k] = "ok"
    OBVIOUS
  <2>0. mem[p] \in Seq(Entries)
    BY Zenon DEF OnceInv, TypeOK, Entries
  <2>1. CASE k \in hand'[p]
    BY <1>0, <2>1, Zenon DEF Origins, HandFrom, Filed
  <2>2. ASSUME NEW i \in DOMAIN mem'[p], mem'[p][i] = Entry(k, TRUE)
        PROVE  Filed(p, k) \/ file'[k] = "ok"
    <3>1. MemFrom(p, mem'[p][i])
      BY <1>0, Zenon DEF Origins
    <3>2. ASSUME NEW h, NEW f \in BOOLEAN, Entry(k, TRUE) = Entry(h, f)
          PROVE  h = k /\ f = TRUE
      BY <3>2 DEF Entry
    <3>3. (gen[p].step = "push_file") \in BOOLEAN
      OBVIOUS
    <3> QED
      BY <2>2, <3>1, <3>2, <3>3, Zenon DEF MemFrom, Filed
  <2>3. CASE gen'[p].step = "push_file" /\ gen'[p].key = k
    <3>1. GenFrom(p)
      BY <1>0, Zenon DEF Origins
    <3>2. "idle" # "push_file" /\ "write" # "push_file"
      OBVIOUS
    <3> QED
      BY <2>3, <3>1, <3>2, Zenon DEF GenFrom, Filed
  <2> QED
    BY <2>1, <2>2, <2>3, Zenon DEF Filed
<1> QED
  <2> SUFFICES ASSUME NEW p \in Procs, NEW k \in Keys, Filed(p, k)', file'[k] = None
               PROVE  served'[k] = 1
    BY <1>3, Zenon DEF FiledInv
  <2>1. Filed(p, k)
    BY <1>6 DEF None
  <2> QED
    BY <2>1, <1>4, <1>5, Zenon DEF FiledInv

\* While all processes serve one database, try_take skips an entry only
\* because a client got it: neither another process's start-up nor a failed
\* write makes a usable entry disappear.
THEOREM PoolWastesNothing == Spec => []SkippedWasServed
<1>1. CASE Cardinality(Bindings) # 1
  <2>1. SkippedWasServed
    BY <1>1, Zenon DEF SkippedWasServed
  <2> QED
    BY <2>1, PTL
<1>2. CASE Cardinality(Bindings) = 1
  <2>1. \A b, c \in Bindings : b = c
    <3>1. \E x : Bindings = {x}
      BY <1>2, FS_Singleton, BindingsAssumption
    <3> QED BY <3>1
  <2>2. Init => FiledInv
    <3> SUFFICES ASSUME Init PROVE FiledInv
      OBVIOUS
    <3>1. \A p \in Procs : gen[p] = Idle /\ mem[p] = <<>> /\ DOMAIN mem[p] = {} /\ hand[p] = {}
      BY SMTT(60) DEF Init
    <3>2. \A p \in Procs, k \in Keys : ~Filed(p, k)
      <4>1. \A p \in Procs : gen[p].step = "idle"
        BY <3>1 DEF Idle
      <4>2. "idle" # "push_file"
        OBVIOUS
      <4> QED
        BY <3>1, <4>1, <4>2, Zenon DEF Filed
    <3>3. \A k \in Keys : file[k] # "torn"
      BY DEF Init, None
    <3> QED
      BY <3>2, <3>3, Zenon DEF FiledInv
  <2>3. OnceInv /\ OnceInv' /\ FiledInv /\ [Next]_vars => FiledInv'
    BY <2>1, FiledStep, Zenon
  <2>4. FiledInv /\ TypeOK => SkippedWasServed
    BY Zenon DEF FiledInv, TypeOK, Filed, SkippedWasServed
  <2> QED
    BY <2>2, <2>3, <2>4, OnceInvariant, PoolTypes, PTL DEF Spec
<1> QED
  BY <1>1, <1>2

-----------------------------------------------------------------------------
(* Power failures: a torn file is never held.                              *)

\* An entry keeps the database it was computed from.
LEMMA MadeStep ==
    ASSUME TypeOK, [Next]_vars
    PROVE  \A k \in Keys : made[k] # None => made'[k] = made[k]
<1>1. ASSUME NEW p \in Procs, NEW h \in Keys, Generate(p, h)
      PROVE  \A k \in Keys : made[k] # None => made'[k] = made[k]
  BY <1>1, Zenon DEF Generate, TypeOK
<1>2. UNCHANGED made \/ \E p \in Procs, k \in Keys : Generate(p, k)
  BY ZenonT(60) DEF Next, vars, Start, LoadFile, Ready, WriteTmp, Rename, PersistFails,
     Push, Pop, TakeFromMemory, HandOut, RemoveOk, RemoveMissing, RemoveFails, Crash
<1> QED
  BY <1>1, <1>2, Zenon

\* Process p holds entry k: popped, queued, or being generated.
Held(p, k) ==
    \/ k \in hand[p]
    \/ \E i \in DOMAIN mem[p] : mem[p][i].key = k
    \/ gen[p].step # "idle" /\ gen[p].key = k

\* What a power failure adds: nobody holds the entry of a torn file, and a key
\* that was never drawn has no file, in the directory or on the disk.
TornInv ==
    /\ durable \in [Keys -> {None, "ok", "torn"}]
    /\ \A k \in Keys : file[k] = "torn" => \A p \in Procs : ~Held(p, k)
    /\ \A k \in Keys : made[k] = None => file[k] = None /\ durable[k] = None
    /\ \A p \in Procs : gen[p].step # "idle" => made[gen[p].key] # None

\* Between two power failures no file becomes torn and nobody takes a torn
\* one up.
LEMMA TornStep ==
    ASSUME TypeOK, TornInv, [Next]_vars, UNCHANGED durable
    PROVE  TornInv'
<1>0. Origins
  BY OriginsStep, Zenon
<1>1. \A k \in Keys : made'[k] = None => made[k] = None
  BY MadeStep, Zenon
<1>2. \A k \in Keys : made'[k] = None => file'[k] = None
  <2> SUFFICES ASSUME NEW k \in Keys, made'[k] = None
               PROVE  file'[k] = None
    OBVIOUS
  <2>1. made[k] = None /\ file[k] = None /\ FileFrom(k)
    BY <1>0, <1>1, Zenon DEF TornInv, Origins
  <2>2. ASSUME NEW q \in Procs, gen[q].step = "rename", gen[q].key = k
        PROVE  FALSE
    <3>1. gen[q].step # "idle"
      BY <2>2
    <3> QED
      BY <2>1, <2>2, <3>1, Zenon DEF TornInv
  <2> QED
    BY <2>1, <2>2, Zenon DEF FileFrom
<1>3. \A p \in Procs : gen'[p].step # "idle" => made'[gen'[p].key] # None
  <2> SUFFICES ASSUME NEW p \in Procs, gen'[p].step # "idle"
               PROVE  made'[gen'[p].key] # None
    OBVIOUS
  <2>1. GenFrom(p)
    BY <1>0, Zenon DEF Origins
  <2>2. CASE gen[p].step # "idle" /\ gen'[p].key = gen[p].key
    <3>1. gen[p].key \in Keys /\ made[gen[p].key] # None
      BY <2>2, Zenon DEF TypeOK, TornInv
    <3> QED
      BY <2>2, <3>1, MadeStep, Zenon
  <2> QED
    BY <2>1, <2>2, Zenon DEF GenFrom
<1>4. ASSUME NEW k \in Keys, file'[k] = "torn", NEW p \in Procs
      PROVE  ~Held(p, k)'
  <2>1. file[k] = "torn"
    <3>1. FileFrom(k)
      BY <1>0, Zenon DEF Origins
    <3>2. "torn" # "ok" /\ "torn" # None
      BY DEF None
    <3> QED
      BY <1>4, <3>1, <3>2, Zenon DEF FileFrom
  <2>2. ~Held(p, k) /\ made[k] # None
    <3>1. "torn" # None
      BY DEF None
    <3> QED
      BY <2>1, <3>1, Zenon DEF TornInv
  <2>3. k \notin hand'[p]
    <3>1. Entry(k, TRUE).key = k
      BY DEF Entry
    <3> QED
      BY <1>0, <2>2, <3>1, Zenon DEF Origins, HandFrom, Held
  <2>4. ASSUME NEW i \in DOMAIN mem'[p], mem'[p][i].key = k
        PROVE  FALSE
    <3>1. MemFrom(p, mem'[p][i])
      BY <1>0, Zenon DEF Origins
    <3>2. \A h, f : Entry(h, f).key = h
      BY DEF Entry
    <3>3. "torn" # "ok" /\ "push" # "idle" /\ "push_file" # "idle"
      OBVIOUS
    <3>4. CASE \E j \in DOMAIN mem[p] : mem'[p][i] = mem[p][j]
      BY <2>2, <2>4, <3>4, Zenon DEF Held
    <3>5. CASE \E h \in Keys : mem'[p][i] = Entry(h, TRUE) /\ file[h] = "ok"
      BY <2>1, <2>4, <3>2, <3>3, <3>5, Zenon
    <3>6. CASE /\ gen[p].step \in {"push", "push_file"}
               /\ mem'[p][i] = Entry(gen[p].key, gen[p].step = "push_file")
      <4>1. gen[p].key = k
        <5>1. PICK f : mem'[p][i] = Entry(gen[p].key, f)
          BY <3>6, Zenon
        <5> QED
          BY <2>4, <3>2, <5>1, Zenon
      <4>2. gen[p].step # "idle"
        BY <3>6
      <4> QED
        BY <2>2, <4>1, <4>2, Zenon DEF Held
    <3> QED
      BY <3>1, <3>4, <3>5, <3>6, Zenon DEF MemFrom
  <2>5. ~(gen'[p].step # "idle" /\ gen'[p].key = k)
    <3>1. GenFrom(p)
      BY <1>0, Zenon DEF Origins
    <3> QED
      BY <2>2, <3>1, Zenon DEF GenFrom, Held
  <2> QED
    BY <2>3, <2>4, <2>5, Zenon DEF Held
<1> QED
  BY <1>1, <1>2, <1>3, <1>4, Zenon DEF TornInv

\* A power failure forgets everything the processes held, and leaves of a file
\* what the directory or the disk had of it.
LEMMA TornPowerLoss ==
    ASSUME TypeOK, TornInv, PowerLoss
    PROVE  TornInv' /\ TypeOK'
<1>1. \A p \in Procs : gen'[p] = Idle /\ mem'[p] = <<>> /\ DOMAIN mem'[p] = {} /\ hand'[p] = {}
  BY SMTT(60) DEF PowerLoss
<1>2. \A p \in Procs : gen'[p].step = "idle"
  BY <1>1 DEF Idle
<1>3. \A p \in Procs, k \in Keys : ~Held(p, k)'
  BY <1>1, <1>2, Zenon DEF Held
<1>4. \A k \in Keys : made'[k] = None => file'[k] = None /\ durable'[k] = None
  <2> SUFFICES ASSUME NEW k \in Keys, made'[k] = None
               PROVE  file'[k] = None /\ durable'[k] = None
    OBVIOUS
  <2>1. made[k] = None /\ file[k] = None /\ durable[k] = None
    BY Zenon DEF PowerLoss, TornInv
  <2>2. file'[k] \in Survivors(k) /\ durable' = file'
    BY Zenon DEF PowerLoss
  <2>3. None # "ok"
    BY DEF None
  <2> QED
    BY <2>1, <2>2, <2>3, Zenon DEF Survivors
<1>5. durable' \in [Keys -> {None, "ok", "torn"}] /\ file' \in [Keys -> {None, "ok", "torn"}]
  BY Zenon DEF PowerLoss
<1>6. TornInv'
  BY <1>2, <1>3, <1>4, <1>5, Zenon DEF TornInv
<1>7. mem' \in [Procs -> Seq([key : Keys, persisted : BOOLEAN])]
  BY SMTT(60) DEF PowerLoss
<1>8. gen' \in [Procs -> [step : GenSteps, key : Keys \cup {None}]]
  BY SMTT(60) DEF PowerLoss, GenSteps, Idle
<1>9. /\ up' \in [Procs -> {"down", "loading", "up"}]
      /\ load' \in [Procs -> SUBSET Keys] /\ hand' \in [Procs -> SUBSET Keys]
  BY SMTT(60) DEF PowerLoss
<1>10. TypeOK'
  BY <1>2, <1>5, <1>7, <1>8, <1>9, ZenonT(60) DEF PowerLoss, TypeOK
<1> QED
  BY <1>6, <1>10

\* The kernel writing a file back changes only what the disk has.
LEMMA TornWriteback ==
    ASSUME TypeOK, TornInv, NEW k \in Keys, Writeback(k)
    PROVE  TornInv' /\ TypeOK'
<1>1. UNCHANGED vars /\ durable' = [durable EXCEPT ![k] = file[k]]
  BY Zenon DEF Writeback
<1>2. TypeOK'
  BY <1>1, ZenonT(60) DEF vars, TypeOK
<1>3. durable' \in [Keys -> {None, "ok", "torn"}]
  BY <1>1, Zenon DEF TypeOK, TornInv
<1>4. \A h \in Keys : made'[h] = None => file'[h] = None /\ durable'[h] = None
  BY <1>1, ZenonT(60) DEF vars, TornInv
<1>5. UNCHANGED <<file, hand, mem, gen, made>>
  BY <1>1, Zenon DEF vars
<1>6. \A h \in Keys : \A p \in Procs : Held(p, h)' => Held(p, h)
  BY <1>5, Zenon DEF Held
<1> QED
  BY <1>2, <1>3, <1>4, <1>5, <1>6, Zenon DEF TornInv

\* Whatever power failures leave half-written, no process ever has an entry
\* read from a torn file: the checksum of decode_pool_file refuses it, and
\* nobody can hold an entry whose file a failure has torn.
THEOREM TornIsNeverLoaded == PowerSpec => []TornNeverLoaded
<1>1. PowerInit => TypeOK /\ TornInv
  <2> SUFFICES ASSUME PowerInit PROVE TypeOK /\ TornInv
    OBVIOUS
  <2>1. TypeOK
    BY OnceInit, Zenon DEF PowerInit, OnceInv
  <2>2. durable \in [Keys -> {None, "ok", "torn"}]
    BY Zenon DEF PowerInit
  <2>3. \A k \in Keys : file[k] = None /\ durable[k] = None /\ file[k] # "torn"
    BY DEF PowerInit, Init, None
  <2>4. \A p \in Procs : gen[p].step = "idle"
    BY DEF PowerInit, Init, Idle
  <2> QED
    BY <2>1, <2>2, <2>3, <2>4, Zenon DEF TornInv
<1>2. TypeOK /\ TornInv /\ [PowerNext]_powerVars => TypeOK' /\ TornInv'
  <2> SUFFICES ASSUME TypeOK, TornInv, [PowerNext]_powerVars
               PROVE  TypeOK' /\ TornInv'
    OBVIOUS
  <2>1. CASE [Next]_vars /\ UNCHANGED durable
    BY <2>1, TypeStep, TornStep, Zenon
  <2> QED
    BY <2>1, TornPowerLoss, TornWriteback, Zenon DEF PowerNext, PoolNext, powerVars
<1>3. TypeOK /\ TornInv => TornNeverLoaded
  BY Zenon DEF TornInv, Held, TornNeverLoaded
<1> QED
  BY <1>1, <1>2, <1>3, PTL DEF PowerSpec
=============================================================================
