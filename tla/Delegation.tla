----------------------------- MODULE Delegation -----------------------------
(***************************************************************************)
(* What a client may rely on when it delegates a tool call to the daemon:  *)
(* the call is handed to at most one worker process and at most once, it   *)
(* ends with exactly one outcome, it is answered only after it was handed  *)
(* over, and a call the daemon refused was and will be run by nobody (so a *)
(* refused call can be retried without running its tool twice).            *)
(***************************************************************************)
EXTENDS Naturals

CONSTANTS Calls, Machines

VARIABLES
    outcome,   \* how each call ended; "none" while it has not
    given      \* how often each call was handed to each worker process

Refusal == {"notFound", "unavailable"}
Failure == {"gone", "deadline", "cancelled"}

Init ==
    /\ outcome = [c \in Calls |-> "none"]
    /\ given = [c \in Calls |-> [m \in Machines |-> 0]]

\* No worker process has been handed c.
Unhanded(c) == \A m \in Machines : given[c][m] = 0

Hand(c, m) ==
    /\ Unhanded(c)
    /\ outcome[c] \notin Refusal
    /\ given' = [given EXCEPT ![c][m] = @ + 1]
    /\ UNCHANGED outcome

End(c, o) ==
    /\ outcome[c] = "none"
    /\ o = "answer" => ~Unhanded(c)
    /\ o \in Refusal => Unhanded(c)
    /\ outcome' = [outcome EXCEPT ![c] = o]
    /\ UNCHANGED given

Next == \E c \in Calls :
          \/ \E m \in Machines : Hand(c, m)
          \/ \E o \in Refusal \cup Failure \cup {"answer"} : End(c, o)

Spec == Init /\ [][Next]_<<outcome, given>>
=============================================================================
