----------------------------- MODULE AccessGate -----------------------------
(***************************************************************************)
(* What the database promises about a reporter's sessions, whatever it     *)
(* takes to get the signed role and the database to agree: a session is    *)
(* let in only while the reporter is not suspended, and only if its token  *)
(* was issued after the administrators' latest decision.                   *)
(***************************************************************************)
CONSTANT Sessions

VARIABLES suspended,  \* the latest decision was a suspension
          fresh,      \* sessions whose token is newer than that decision
          admitted    \* sessions the row policies let in

gate == <<suspended, fresh, admitted>>

Init ==
    /\ suspended = FALSE
    /\ fresh = Sessions
    /\ admitted = {}

\* A suspension or a reinstatement shuts every session out, for good: it has
\* to get a new token.
Decide ==
    /\ suspended' = ~suspended
    /\ fresh' = {}
    /\ admitted' = {}

\* A session gets a new token, which lets it in at once or not yet.
Renew(u) ==
    /\ fresh' = fresh \cup {u}
    /\ \/ admitted' = admitted \ {u}
       \/ ~suspended /\ admitted' = admitted \cup {u}
    /\ UNCHANGED suspended

\* Access is opened to sessions with a fresh token, or withdrawn from all.
Open ==
    /\ ~suspended
    /\ admitted' \in SUBSET fresh
    /\ UNCHANGED <<suspended, fresh>>

Withdraw ==
    /\ admitted' = {}
    /\ UNCHANGED <<suspended, fresh>>

Next == Decide \/ (\E u \in Sessions : Renew(u)) \/ Open \/ Withdraw

Spec == Init /\ [][Next]_gate
=============================================================================
