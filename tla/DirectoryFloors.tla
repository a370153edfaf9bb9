-------------------------- MODULE DirectoryFloors ---------------------------
(***************************************************************************)
(* Accepting directory events one at a time into a shared rollback store:  *)
(* verify_and_persist_directory_entry_v1 and its checkpoint twin.  A tab   *)
(* loads the floor of the event's coordinate, decides, and writes the      *)
(* successor with a compare-and-swap; between the two awaits other tabs    *)
(* may have moved the floor.  The answer of a compare-and-swap may be lost *)
(* after it took effect, and a tab may be closed at any await; either way  *)
(* the caller may hand the same event in again.  Events are the ones the   *)
(* directory key signed that are current: their number is small and any    *)
(* subset may be presented in any order.                                   *)
(***************************************************************************)
EXTENDS DirectoryRules, Sequences

CONSTANTS Tabs,     \* callers that share one rollback store
          Events,   \* signed, current events, of one provider and one shard
          Calls     \* bound: events handed in over all tabs

CallsAssumption == Calls \in Nat

\* What verification has established of an event before it is handed to the
\* floor: its fields are those of a current event, and ids are hashes.
EventsAssumption ==
    /\ \A e \in Events :
          \/ /\ e.kind = "entry" /\ e.seq \in Nat \ {0} /\ e.at \in Nat \ {0} /\ e.op \in Nat
             /\ \/ e.status = "Active" /\ e.op > 0 /\ e.digest # 0
                \/ e.status = "Tombstone" /\ e.op = 0 /\ e.digest = 0
          \/ e.kind = "checkpoint" /\ e.epoch \in Nat \ {0} /\ e.at \in Nat \ {0}
    /\ \A e, f \in Events : e.id = f.id => e = f

VARIABLES store,    \* durable floors: coordinate kind -> optional floor
          tab,      \* what each tab is doing
          accepted, \* history: events some call returned Ok for
          calls     \* calls made so far

floorsVars == <<store, tab, accepted, calls>>

FloorKeys == {"entry", "checkpoint"}

Idle == [pc |-> "idle"]

FloorsTypeOK ==
    /\ DOMAIN store = FloorKeys
    /\ \A k \in FloorKeys : store[k] # <<>> => Len(store[k]) = 1 /\ FloorValid(store[k][1])
    /\ DOMAIN tab = Tabs
    /\ \A t \in Tabs :
         \/ tab[t] = Idle
         \/ tab[t].pc = "load" /\ tab[t].ev \in Events
         \/ /\ tab[t].pc = "swap" /\ tab[t].ev \in Events
            /\ tab[t].next \in Prepare(tab[t].ev, tab[t].cur)
    /\ accepted \subseteq Events
    /\ calls \in 0..Calls

FloorsInit ==
    /\ store = [k \in FloorKeys |-> <<>>]
    /\ tab = [t \in Tabs |-> Idle]
    /\ accepted = {}
    /\ calls = 0

\* verify_and_persist_*: the event verifies, the load is awaited.
Present(t, e) ==
    /\ tab[t] = Idle
    /\ calls < Calls
    /\ calls' = calls + 1
    /\ tab' = [tab EXCEPT ![t] = [pc |-> "load", ev |-> e]]
    /\ UNCHANGED <<store, accepted>>

\* The load answers: refused, an exact replay, or a write to make.
Load(t) ==
    /\ tab[t].pc = "load"
    /\ LET e == tab[t].ev
           cur == store[e.kind]
           next == Prepare(e, cur)
       IN \/ /\ next = {}
             /\ tab' = [tab EXCEPT ![t] = Idle]
             /\ UNCHANGED accepted
          \/ /\ \E s \in next : cur = <<s>>
             /\ tab' = [tab EXCEPT ![t] = Idle]
             /\ accepted' = accepted \cup {e}
          \/ \E s \in next :
             /\ cur # <<s>>
             /\ tab' = [tab EXCEPT ![t] = [pc |-> "swap", ev |-> e, cur |-> cur, next |-> s]]
             /\ UNCHANGED accepted
    /\ UNCHANGED <<store, calls>>

\* The store's side of a compare-and-swap.
StoreAfter(t) ==
    LET k == tab[t].ev.kind
    IN IF store[k] = tab[t].cur THEN [store EXCEPT ![k] = <<tab[t].next>>] ELSE store

\* Mutant: the successor is stored whatever the store holds by now.
SwapBlind(t) ==
    /\ tab[t].pc = "swap"
    /\ store' = [store EXCEPT ![tab[t].ev.kind] = <<tab[t].next>>]
    /\ accepted' = accepted \cup {tab[t].ev}
    /\ tab' = [tab EXCEPT ![t] = Idle]
    /\ UNCHANGED calls

\* Mutant: a conflict is taken for success, another tab being as good.
SwapConflictOk(t) ==
    /\ tab[t].pc = "swap"
    /\ store' = StoreAfter(t)
    /\ accepted' = accepted \cup {tab[t].ev}
    /\ tab' = [tab EXCEPT ![t] = Idle]
    /\ UNCHANGED calls

\* persist_*_candidate: Applied and AlreadyCurrent return the event, a
\* Conflict returns an error.
Swap(t) ==
    /\ tab[t].pc = "swap"
    /\ store' = StoreAfter(t)
    /\ accepted' = IF store'[tab[t].ev.kind] = <<tab[t].next>>
                   THEN accepted \cup {tab[t].ev} ELSE accepted
    /\ tab' = [tab EXCEPT ![t] = Idle]
    /\ UNCHANGED calls

\* The write took effect and its answer is lost, or the tab is closed while
\* it waits: the call returns nothing.
SwapUnanswered(t) ==
    /\ tab[t].pc = "swap"
    /\ store' = StoreAfter(t)
    /\ tab' = [tab EXCEPT ![t] = Idle]
    /\ UNCHANGED <<accepted, calls>>

Drop(t) ==
    /\ tab[t] # Idle
    /\ tab' = [tab EXCEPT ![t] = Idle]
    /\ UNCHANGED <<store, accepted, calls>>

FloorsNext ==
    \E t \in Tabs :
        \/ \E e \in Events : Present(t, e)
        \/ Load(t)
        \/ Swap(t)
        \/ SwapUnanswered(t)
        \/ Drop(t)

FloorsSpec == FloorsInit /\ [][FloorsNext]_floorsVars

----------------------------------------------------------------------------
(* Properties.                                                             *)

\* Whatever other tabs and lost answers do, a stored floor only rises: its
\* sequence or epoch never falls, an equal one keeps its event, and the
\* operator epoch never falls, not even across a tombstone.
FloorsRise ==
    \A k \in FloorKeys : store[k] # <<>> =>
      /\ store'[k] # <<>>
      /\ store'[k][1].seq >= store[k][1].seq
      /\ store'[k][1].seq = store[k][1].seq => store'[k] = store[k]
      /\ k = "entry" => store'[k][1].op >= store[k][1].op

\* The same for every step of a behaviour.
FloorsNeverFall == [][FloorsRise]_floorsVars

\* An event that some call returned Ok for is at or below the durable floor,
\* and is the floor's own event when it is at the floor: it survives a
\* restart and cannot be forked afterwards.
OkIsDurable ==
    \A e \in accepted :
        LET n == IF e.kind = "entry" THEN e.seq ELSE e.epoch
        IN /\ store[e.kind] # <<>>
           /\ n <= store[e.kind][1].seq
           /\ n = store[e.kind][1].seq => e.id = store[e.kind][1].id

\* No two tabs ever accept two versions of one thing: one event for a
\* sequence or a checkpoint epoch, one assertion for an operator epoch.
NoSplitAcceptance ==
    \A e, f \in accepted :
        /\ e.kind = "entry" /\ f.kind = "entry" /\ e.seq = f.seq => e = f
        /\ e.kind = "checkpoint" /\ f.kind = "checkpoint" /\ e.epoch = f.epoch => e = f
        /\ (e.kind = "entry" /\ f.kind = "entry" /\ e.op > 0 /\ e.op = f.op)
             => e.digest = f.digest

\* A provider accepted again after its tombstone was accepted carries a
\* newer operator epoch than anything accepted before the tombstone.
ReturnIsNewer ==
    \A old, gone, back \in {e \in accepted : e.kind = "entry"} :
        (/\ gone.status = "Tombstone" /\ back.status = "Active" /\ old.status = "Active"
         /\ old.seq < gone.seq /\ gone.seq < back.seq) => back.op > old.op

\* A caller whose answer was lost gets Ok when it hands the stored event in
\* again, and that does not move the floor.
StoredIsReplayable ==
    \A e \in Events :
        (store[e.kind] # <<>> /\ store[e.kind][1].id = e.id)
            => Prepare(e, store[e.kind]) = {store[e.kind][1]}

\* The rollback store under concurrent tabs, lost answers and repeated calls:
\* an accepted event is at or below the durable floor, no two versions of one
\* thing are accepted, a provider returns with a newer operator epoch, and the
\* stored event can be handed in again.
FloorsSafe == FloorsTypeOK /\ OkIsDurable /\ NoSplitAcceptance /\ ReturnIsNewer /\ StoredIsReplayable
=============================================================================
