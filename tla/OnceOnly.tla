------------------------------ MODULE OnceOnly ------------------------------
(***************************************************************************)
(* What a one-shot store promises, whoever keeps it: an item is taken at   *)
(* most once, never while a rival is taken and never once its authority is *)
(* withdrawn; a taken item gets at most one outcome; nothing is undone.    *)
(***************************************************************************)
EXTENDS Naturals

CONSTANTS Items,     \* what may be taken
          Rivals,    \* pairs of items of which only one may ever be taken
          Outcomes,  \* what a taken item may end with
          Times,     \* when items are taken and withdrawn
          None       \* "not taken", "no outcome"

VARIABLES taken,     \* taken[i]: when i was taken
          outcome,   \* outcome[i]: how i ended
          withdrawn  \* withdrawn[i]: the times from which i must not be taken

vars == <<taken, outcome, withdrawn>>

Init ==
    /\ taken = [i \in Items |-> None]
    /\ outcome = [i \in Items |-> None]
    /\ withdrawn = [i \in Items |-> {}]

Take(i, t) ==
    /\ taken[i] = None
    /\ \A j \in Items : <<i, j>> \in Rivals => taken[j] = None
    /\ \A from \in withdrawn[i] : t < from
    /\ taken' = [taken EXCEPT ![i] = t]
    /\ UNCHANGED <<outcome, withdrawn>>

Finish(i, o) ==
    /\ taken[i] # None /\ outcome[i] = None
    /\ outcome' = [outcome EXCEPT ![i] = o]
    /\ UNCHANGED <<taken, withdrawn>>

Withdraw(i, from) ==
    /\ withdrawn' = [withdrawn EXCEPT ![i] = @ \cup {from}]
    /\ UNCHANGED <<taken, outcome>>

Next == \E i \in Items :
    \/ \E t \in Times : Take(i, t) \/ Withdraw(i, t)
    \/ \E o \in Outcomes : Finish(i, o)

Spec == Init /\ [][Next]_vars
=============================================================================
