----------------------------- MODULE FeePromise -----------------------------
(***************************************************************************)
(* What an applicant is promised about the application fee: it is taken    *)
(* once, kept in trust until the application is decided, and then either   *)
(* earned by an approval or sent back, whatever became of the requests,    *)
(* webhooks and deadlines in between.                                      *)
(***************************************************************************)
VARIABLE fee

Init == fee = "unpaid"

Take   == fee = "unpaid" /\ fee' = "held"
Earn   == fee = "held" /\ fee' = "earned"
Return == fee = "held" /\ fee' = "returning"

Next == Take \/ Earn \/ Return

Spec == Init /\ [][Next]_fee
=============================================================================
