---------------------------- MODULE StopContract ----------------------------
(***************************************************************************)
(* What the global STOP promises to its callers, without phases, locks,    *)
(* anchors or clocks: requests are begun one at a time, succeed only in    *)
(* the epoch they were begun in, and end otherwise only together with a    *)
(* STOP that closes that epoch.  Only a resume clears a STOP, and only     *)
(* with nothing open.                                                      *)
(***************************************************************************)
EXTENDS Naturals

CONSTANTS
    Requests,
    Activations    \* requests that expand public exposure

VARIABLES
    stopped,
    epoch,
    status,        \* status[r]: "new", "open", "succeeded" or "ended"
    born           \* born[r]: the epoch in which r was begun

vars == <<stopped, epoch, status, born>>

Open == {r \in Requests : status[r] = "open"}

TypeOK ==
    /\ stopped \in BOOLEAN
    /\ epoch \in Nat
    /\ status \in [Requests -> {"new", "open", "succeeded", "ended"}]
    /\ born \in [Requests -> Nat]

Init ==
    /\ stopped = TRUE
    /\ epoch = 0
    /\ status = [r \in Requests |-> "new"]
    /\ born = [r \in Requests |-> 0]

Begin(r) ==
    /\ Open = {}
    /\ status[r] = "new"
    /\ r \in Activations => ~stopped
    /\ status' = [status EXCEPT ![r] = "open"]
    /\ born' = [born EXCEPT ![r] = epoch]
    /\ UNCHANGED <<stopped, epoch>>

Succeed(r) ==
    /\ status[r] = "open"
    /\ born[r] = epoch
    /\ r \in Activations => ~stopped
    /\ status' = [status EXCEPT ![r] = "succeeded"]
    /\ UNCHANGED <<stopped, epoch, born>>

\* A STOP, with or without the end of the open request.
Halt ==
    /\ stopped' = TRUE
    /\ epoch' = epoch + 1
    /\ status' \in {status,
                    [r \in Requests |-> IF status[r] = "open" THEN "ended" ELSE status[r]]}
    /\ UNCHANGED born

Resume ==
    /\ stopped
    /\ Open = {}
    /\ stopped' = FALSE
    /\ epoch' = epoch + 1
    /\ UNCHANGED <<status, born>>

Next ==
    \/ Halt \/ Resume
    \/ \E r \in Requests : Begin(r) \/ Succeed(r)

Spec == Init /\ [][Next]_vars
=============================================================================
