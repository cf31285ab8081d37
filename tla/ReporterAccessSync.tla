------------------------- MODULE ReporterAccessSync -------------------------
(***************************************************************************)
(* Keeping the signed role of one reporter in step with the database.      *)
(*                                                                         *)
(* The database row (reporter_profiles) says which role the account should *)
(* have and counts its changes of mind in a generation.  The role that a   *)
(* session carries is signed by the Auth service, which has a store of its *)
(* own; the two share no transaction.  Syncers copy the one to the other:  *)
(*   - administrators' requests, up to SyncRounds rounds of claim, write   *)
(*     and completion (cms/.../reporter.service.ts, syncAccess);           *)
(*   - temporary onboarding requests, one round each, after an approval    *)
(*     (reporter/.../temporary-onboarding.service.ts).                     *)
(* A database function is one transaction under the row's lock and one     *)
(* action.  The write to Auth is one action too: its trigger locks the     *)
(* same row while it validates.  A write may also time out at the caller   *)
(* and land later, whenever it likes.                                      *)
(*                                                                         *)
(* A syncer is identified with the claim token it drew: it holds at most   *)
(* one claim, and a claim it abandoned has no holder left.                 *)
(***************************************************************************)
EXTENDS Naturals

CONSTANTS Admins,        \* administrators' sync requests
          Temps,         \* temporary onboarding requests
          Sessions,      \* the reporter's signed-in devices
          NoToken,       \* access_sync_claim_token is null
          SyncRounds,    \* rounds of one syncAccess call (4 in the code)
          MaxGeneration  \* bound: generations explored

ASSUME SyncersDiffer ==
    /\ Admins \cap Temps = {}
    /\ NoToken \notin Admins \cup Temps
ASSUME BoundsArePositive ==
    /\ SyncRounds \in Nat \ {0}
    /\ MaxGeneration \in Nat \ {0}

Syncers     == Admins \cup Temps
Generations == 1..MaxGeneration

VARIABLES
    generation,        \* access_sync_generation
    desired,           \* access_sync_desired_role
    status,            \* access_sync_status
    operation,         \* access_sync_operation
    suspended,         \* public_status = 'suspended', and profiles.is_active = false
    claim,             \* claim token, its generation and whether the lease is live
    metadata,          \* the Auth service's role and generation for the account
    writes,            \* writes to Auth that timed out and may still land
    syncer,            \* where each syncer is
    jwt,               \* what each session's token says
    decisions          \* history: suspensions and reinstatements so far

row  == <<generation, desired, status, operation, suspended, claim>>
vars == <<row, metadata, writes, syncer, jwt, decisions>>

Roles  == {"none", "reporter"}
Signed == [role : Roles, generation : 0..MaxGeneration]
Token  == [role : Roles, generation : 0..MaxGeneration, decisions : Nat]
Claim  == [token : Syncers \cup {NoToken}, generation : 0..MaxGeneration, live : BOOLEAN]
SyncerState == [pc : {"idle", "approved", "claim", "write", "complete"},
                target : Signed, ok : BOOLEAN, rounds : 0..SyncRounds]

NoClaim == [token |-> NoToken, generation |-> 0, live |-> FALSE]
Reader  == [role |-> "none", generation |-> 0]
Idle    == [pc |-> "idle", target |-> Reader, ok |-> FALSE, rounds |-> 0]

\* The role and generation the row wants Auth to hold.
Wanted == [role |-> desired, generation |-> generation]

\* approve_reporter_application, or its temporary counterpart, has just made
\* the row; a token that is out was issued to a reader.
Init ==
    /\ generation = 1
    /\ desired = "reporter"
    /\ status = "pending"
    /\ operation = "approval"
    /\ suspended = FALSE
    /\ claim = NoClaim
    /\ metadata = Reader
    /\ writes = {}
    /\ syncer = [s \in Syncers |->
                   IF s \in Temps THEN [Idle EXCEPT !.pc = "approved"] ELSE Idle]
    /\ jwt = [u \in Sessions |-> [role |-> "none", generation |-> 0, decisions |-> 0]]
    /\ decisions = 0

\* A new generation the sync has to catch up with.
NewGeneration ==
    /\ generation < MaxGeneration
    /\ generation' = generation + 1
    /\ status' = "pending"

-----------------------------------------------------------------------------
(* Administrators' decisions.  Neither touches a claim that is out.         *)

\* suspend_reporter
Suspend ==
    /\ ~suspended
    /\ NewGeneration
    /\ suspended' = TRUE
    /\ desired' = "none"
    /\ operation' = "suspension"
    /\ decisions' = decisions + 1
    /\ UNCHANGED <<claim, metadata, writes, syncer, jwt>>

\* reinstate_reporter; a repeated call answers without a change.
Reinstate ==
    /\ suspended
    /\ NewGeneration
    /\ suspended' = FALSE
    /\ desired' = "reporter"
    /\ operation' = "reinstatement"
    /\ decisions' = decisions + 1
    /\ UNCHANGED <<claim, metadata, writes, syncer, jwt>>

-----------------------------------------------------------------------------
(* The three steps of a round.                                              *)

Leased == claim.token # NoToken /\ claim.live

Claimed(s, g) ==
    /\ status' = "pending"
    /\ claim' = [token |-> s, generation |-> g, live |-> TRUE]
    /\ syncer' = [syncer EXCEPT
                    ![s].pc = "write",
                    ![s].target = [role |-> desired, generation |-> g],
                    ![s].rounds = @ + 1]

\* claim_reporter_access_sync takes the claim, first moving to a repair
\* generation if a completed sync no longer agrees with Auth.
ClaimAccess(s) ==
    LET drifted == status = "succeeded" /\ metadata # Wanted
        g == IF drifted THEN generation + 1 ELSE generation
    IN  /\ s \in Admins
        /\ syncer[s].pc \in {"idle", "claim"}
        /\ status = "succeeded" => drifted
        /\ g \in Generations
        /\ generation' = g
        /\ operation' = IF drifted THEN "reconciliation" ELSE operation
        /\ IF Leased
           THEN /\ syncer' = [syncer EXCEPT ![s] = Idle]
                /\ status' = "pending"
                /\ UNCHANGED claim
           ELSE Claimed(s, g)
        /\ UNCHANGED <<desired, suspended, metadata, writes, jwt, decisions>>

\* claim_temporary_reporter_access_sync, which serves approvals only.
ClaimTemporary(s) ==
    /\ s \in Temps
    /\ syncer[s].pc = "approved"
    /\ operation = "approval"
    /\ desired = "reporter"
    /\ status # "succeeded"
    /\ ~Leased
    /\ Claimed(s, generation)
    /\ UNCHANGED <<generation, desired, operation, suspended,
                   metadata, writes, jwt, decisions>>

\* The claim answers that there is nothing to do, or is refused.
ClaimAnswersNo(s) ==
    /\ \/ s \in Admins /\ syncer[s].pc = "claim" /\ status = "succeeded" /\ metadata = Wanted
       \/ /\ s \in Temps
          /\ syncer[s].pc = "approved"
          /\ Leased \/ status = "succeeded" \/ operation # "approval"
    /\ syncer' = [syncer EXCEPT ![s] = Idle]
    /\ UNCHANGED <<row, metadata, writes, jwt, decisions>>

\* Mutant: Auth takes every write.
NoFence(m) == TRUE

\* Mutant: a write only has to be of the current generation or an older one.
FenceOnOrder(m) == m.generation <= generation

\* enforce_reporter_access_metadata_generation, the trigger on Auth's table:
\* a write that changes the role or the generation has to be what the row
\* wants now.
Fence(m) == m = metadata \/ m = Wanted

\* The caller has its answer and goes on to the completion.
Written(s, ok) ==
    syncer' = [syncer EXCEPT ![s].pc = "complete", ![s].ok = ok]

\* setSignedRole: the write is made, ...
WriteAccepted(s) ==
    /\ syncer[s].pc = "write"
    /\ Fence(syncer[s].target)
    /\ metadata' = syncer[s].target
    /\ Written(s, TRUE)
    /\ UNCHANGED <<row, writes, jwt, decisions>>

\* ... or is refused or lost, or the caller gives up on it while it is on
\* its way.
WriteFails(s) ==
    /\ syncer[s].pc = "write"
    /\ writes' \in {writes, writes \cup {syncer[s].target}}
    /\ Written(s, FALSE)
    /\ UNCHANGED <<row, metadata, jwt, decisions>>

\* A write nobody waits for any more reaches the trigger.
LateWrite(m) ==
    /\ m \in writes
    /\ writes' = writes \ {m}
    /\ metadata' = IF Fence(m) THEN m ELSE metadata
    /\ UNCHANGED <<row, syncer, jwt, decisions>>

\* Mutant: any completion of the current generation counts.
OwnsByGeneration(s) == syncer[s].target.generation = generation

\* The claim of the row is the one this syncer drew.
Owns(s) == claim.token = s /\ claim.generation = syncer[s].target.generation

\* A completion that came too late is answered "stale", and syncAccess starts
\* another round, if it has one left.
AnotherRound(s) ==
    syncer' = [syncer EXCEPT ![s] =
                 IF syncer[s].rounds < SyncRounds
                 THEN [Idle EXCEPT !.pc = "claim", !.rounds = syncer[s].rounds]
                 ELSE Idle]

Completed(s, ok) ==
    /\ status' = IF ok THEN "succeeded" ELSE "failed"
    /\ claim' = NoClaim
    /\ syncer' = [syncer EXCEPT ![s] = Idle]
    /\ UNCHANGED <<generation, operation>>

\* Auth was written under a claim that does not count any more: what it holds
\* is not known to be right, so the row moves to a repair generation.
Repair ==
    /\ NewGeneration
    /\ operation' = "reconciliation"

\* complete_reporter_access_sync
CompleteAccess(s) ==
    LET sync == syncer[s]
        current == Owns(s) /\ generation = sync.target.generation
    IN  /\ s \in Admins
        /\ sync.pc = "complete"
        /\ \/ /\ current /\ (sync.ok => metadata = sync.target)
              /\ Completed(s, sync.ok)
           \/ /\ ~current \/ (sync.ok /\ metadata # sync.target)
              /\ claim' = IF Owns(s) THEN NoClaim ELSE claim
              /\ IF sync.ok THEN Repair ELSE UNCHANGED <<generation, status, operation>>
              /\ AnotherRound(s)
        /\ UNCHANGED <<desired, suspended, metadata, writes, jwt, decisions>>

\* Mutant: the generation and the operation of the row are not compared.
CompleteTemporaryUnfenced(s) ==
    /\ s \in Temps
    /\ syncer[s].pc = "complete"
    /\ \/ /\ Owns(s) /\ claim.live
          /\ Completed(s, syncer[s].ok /\ metadata = syncer[s].target)
       \/ /\ ~(Owns(s) /\ claim.live)
          /\ syncer' = [syncer EXCEPT ![s] = Idle]
          /\ UNCHANGED <<generation, status, operation, claim>>
    /\ UNCHANGED <<desired, suspended, metadata, writes, jwt, decisions>>

\* complete_temporary_reporter_access_sync: a lease that ran out is given
\* back, and a write that cannot be found in Auth counts as failed.
CompleteTemporary(s) ==
    LET sync == syncer[s]
        current == /\ Owns(s)
                   /\ generation = sync.target.generation
                   /\ operation = "approval"
                   /\ desired = "reporter"
    IN  /\ s \in Temps
        /\ sync.pc = "complete"
        /\ \/ /\ current /\ claim.live
              /\ Completed(s, sync.ok /\ metadata = sync.target)
           \/ /\ ~(current /\ claim.live)
              /\ claim' = IF current THEN NoClaim ELSE claim
              /\ syncer' = [syncer EXCEPT ![s] = Idle]
              /\ UNCHANGED <<generation, status, operation>>
        /\ UNCHANGED <<desired, suspended, metadata, writes, jwt, decisions>>

\* The request dies, or its database call does: its claim stays.
SyncerStops(s) ==
    /\ syncer[s].pc # "idle"
    /\ syncer' = [syncer EXCEPT ![s] = Idle]
    /\ UNCHANGED <<row, metadata, writes, jwt, decisions>>

\* Five minutes pass.
LeaseLapses ==
    /\ claim.live
    /\ claim' = [claim EXCEPT !.live = FALSE]
    /\ UNCHANGED <<generation, desired, status, operation, suspended,
                   metadata, writes, syncer, jwt, decisions>>

-----------------------------------------------------------------------------
(* Sessions.                                                                *)

\* A device signs in, or its token is refreshed: Auth signs what it holds.
RefreshSession(u) ==
    /\ jwt' = [jwt EXCEPT ![u] = [role |-> metadata.role,
                                  generation |-> metadata.generation,
                                  decisions |-> decisions]]
    /\ UNCHANGED <<row, metadata, writes, syncer, decisions>>

\* Mutant: a session is let in by its role alone.
AdmittedByRole(u) == jwt[u].role = "reporter" /\ status = "succeeded" /\ ~suspended

\* The test every reporter-owned row policy and function makes.
Admitted(u) ==
    /\ jwt[u].role = "reporter"
    /\ jwt[u].generation = generation
    /\ status = "succeeded"
    /\ ~suspended

SyncerStep(s) ==
    \/ ClaimAccess(s) \/ ClaimTemporary(s) \/ ClaimAnswersNo(s)
    \/ WriteAccepted(s) \/ WriteFails(s)
    \/ CompleteAccess(s) \/ CompleteTemporary(s)
    \/ SyncerStops(s)

Next ==
    \/ Suspend \/ Reinstate
    \/ \E s \in Syncers : SyncerStep(s)
    \/ \E m \in writes : LateWrite(m)
    \/ LeaseLapses
    \/ \E u \in Sessions : RefreshSession(u)

Spec == Init /\ [][Next]_vars

-----------------------------------------------------------------------------
(* Properties.                                                              *)

\* Every variable stays within its type.
TypeOK ==
    /\ generation \in Generations
    /\ desired \in Roles
    /\ status \in {"pending", "succeeded", "failed"}
    /\ operation \in {"approval", "suspension", "reinstatement", "reconciliation"}
    /\ suspended \in BOOLEAN
    /\ claim \in Claim
    /\ metadata \in Signed
    /\ writes \in SUBSET Signed
    /\ syncer \in [Syncers -> SyncerState]
    /\ jwt \in [Sessions -> Token]
    /\ decisions \in Nat

\* A sync is reported as succeeded only while both stores agree: after a
\* suspension the role is gone from Auth, after a reinstatement it is back,
\* and no write that lands late has changed that since.
SuccessIsAgreed == status = "succeeded" => metadata = Wanted

\* A syncer that wrote to Auth and still holds the current claim finds its
\* write there when it completes: nothing another syncer or a late write does
\* in between undoes it, and the verification in the completion never fails.
VerifiedWriteHolds ==
    \A s \in Syncers :
        /\ syncer[s].pc = "complete" /\ syncer[s].ok
        /\ syncer[s].target.generation = generation
        => metadata = syncer[s].target

\* A confirmed sync is not taken back under its own generation: a completion
\* or a claim that comes late, or again, never downgrades it.
SuccessIsMonotonic ==
    [][status = "succeeded" /\ generation' = generation => status' = "succeeded"]_vars

\* The temporary onboarding path, which runs without an administrator, never
\* completes a sync once an administrator has decided about the reporter.
TemporaryNeverOverrules ==
    [][status' = "succeeded" /\ status # "succeeded" /\ decisions > 0 =>
          \E s \in Admins : syncer[s].pc = "complete" /\ syncer'[s].pc = "idle"]_vars

\* The whole protocol keeps what the row policies promise: a session is let in
\* only while the reporter is not suspended, with a token that is newer than
\* the latest suspension or reinstatement.
Gate == INSTANCE AccessGate WITH
    fresh    <- {u \in Sessions : jwt[u].decisions = decisions},
    admitted <- {u \in Sessions : Admitted(u)}

KeepsTheGate == Gate!Spec
=============================================================================
