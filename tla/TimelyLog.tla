------------------------------ MODULE TimelyLog ------------------------------
(***************************************************************************)
(* What a ledger of perishable evidence promises: entries are only ever    *)
(* added, one at a time; each is settled before the next is added, in the  *)
(* order of time, and counts only if it was settled before it expired.     *)
(***************************************************************************)
EXTENDS Naturals, Sequences

VARIABLE entries  \* records of what was added, when, until when it was good,
                  \* when it was settled, and how

Entry(item, opened, notAfter) ==
    [item |-> item, opened |-> opened, notAfter |-> notAfter,
     settled |-> opened, verdict |-> "pending"]

Settled(entry, at) ==
    [item |-> entry.item, opened |-> entry.opened, notAfter |-> entry.notAfter,
     settled |-> at, verdict |-> IF at < entry.notAfter THEN "accepted" ELSE "expired"]

Last == entries[Len(entries)]
Waits == entries # <<>> /\ Last.verdict = "pending"

Init == entries = <<>>

Open ==
    /\ ~Waits
    /\ Len(entries') = Len(entries) + 1
    /\ SubSeq(entries', 1, Len(entries)) = entries
    /\ LET new == entries'[Len(entries) + 1] IN
        /\ new = Entry(new.item, new.opened, new.notAfter)
        /\ entries # <<>> => Last.settled <= new.opened

Settle ==
    /\ Waits
    /\ Len(entries') = Len(entries)
    /\ LET old == Last
           new == entries'[Len(entries)]
       IN /\ entries' = [entries EXCEPT ![Len(entries)] = new]
          /\ old.opened <= new.settled
          /\ new = Settled(old, new.settled)

Next == Open \/ Settle

Spec == Init /\ [][Next]_entries
=============================================================================
