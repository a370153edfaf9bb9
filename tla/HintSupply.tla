------------------------------ MODULE HintSupply ------------------------------
(***************************************************************************)
(* What a hint pool promises its clients, whatever processes, files and    *)
(* threads it is made of: an entry is computed once, for one database, and *)
(* is given away at most once, for that database.                          *)
(***************************************************************************)
EXTENDS Naturals

CONSTANTS Keys, Bindings

VARIABLES made,         \* made[k]: the database k was computed for, or None
          given,        \* given[k]: how often k was given away
          givenFor      \* givenFor[k]: the databases it was given away for

vars == <<made, given, givenFor>>

None == "none"

Init ==
    /\ made = [k \in Keys |-> None]
    /\ given = [k \in Keys |-> 0]
    /\ givenFor = [k \in Keys |-> {}]

Make(k, b) ==
    /\ made[k] = None
    /\ made' = [made EXCEPT ![k] = b]
    /\ UNCHANGED <<given, givenFor>>

Give(k) ==
    /\ made[k] # None /\ given[k] = 0
    /\ given' = [given EXCEPT ![k] = 1]
    /\ givenFor' = [givenFor EXCEPT ![k] = {made[k]}]
    /\ UNCHANGED made

Next == \E k \in Keys : Give(k) \/ \E b \in Bindings : Make(k, b)

Spec == Init /\ [][Next]_vars
=============================================================================
