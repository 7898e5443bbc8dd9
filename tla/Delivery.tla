------------------------------ MODULE Delivery ------------------------------
(***************************************************************************)
(* What the submission pipeline promises: each submission is a row that    *)
(* goes from pending to confirmed once, and confirmed means received.      *)
(* Without an idempotency key the server may hold several copies of it,    *)
(* but no more than one and one for every outcome the client has lost.     *)
(* The queue, its passes, requests and answers are not seen at this level. *)
(***************************************************************************)
EXTENDS Naturals

CONSTANT Submissions

VARIABLES
    row,      \* "none", "pending" or "confirmed"
    receipt,  \* the number of the copy the client knows of, or 0
    copies,   \* copies the server has
    losses    \* outcomes of requests that the client does not know

vars == <<row, receipt, copies, losses>>

Init ==
    /\ row = [s \in Submissions |-> "none"]
    /\ receipt = [s \in Submissions |-> 0]
    /\ copies = [s \in Submissions |-> 0]
    /\ losses = [s \in Submissions |-> 0]

Submit(s) ==
    /\ row[s] = "none" /\ row' = [row EXCEPT ![s] = "pending"]
    /\ UNCHANGED <<receipt, copies, losses>>

\* The server stores a copy, perhaps long after the client has given up the
\* request, but never of a submission that was confirmed without one.
Receive(s) ==
    /\ row[s] = "pending" \/ receipt[s] # 0
    /\ copies[s] <= losses[s]
    /\ copies' = [copies EXCEPT ![s] = @ + 1]
    /\ UNCHANGED <<row, receipt, losses>>

\* Nothing of a confirmed submission is lost: it is not sent any more.
LoseOutcome(s) ==
    /\ row[s] = "pending" /\ losses' = [losses EXCEPT ![s] = @ + 1]
    /\ UNCHANGED <<row, receipt, copies>>

Confirm(s) ==
    /\ row[s] = "pending" /\ row' = [row EXCEPT ![s] = "confirmed"]
    /\ \E n \in 1 .. copies[s] : receipt' = [receipt EXCEPT ![s] = n]
    /\ UNCHANGED <<copies, losses>>

\* The submission linked no event.
ConfirmNothing(s) ==
    /\ row[s] = "pending" /\ copies[s] = 0 /\ row' = [row EXCEPT ![s] = "confirmed"]
    /\ UNCHANGED <<receipt, copies, losses>>

Next == \E s \in Submissions :
    Submit(s) \/ Receive(s) \/ LoseOutcome(s) \/ Confirm(s) \/ ConfirmNothing(s)

Spec == Init /\ [][Next]_vars
=============================================================================
