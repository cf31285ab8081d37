---------------------- MODULE ReporterAccessSync_proofs ----------------------
(***************************************************************************)
(* Proofs about ReporterAccessSync, for any number of syncers, sessions,   *)
(* rounds and generations.                                                 *)
(*                                                                         *)
(* The argument: the trigger lets into Auth only what the row wants at     *)
(* that moment, so what Auth holds for the current generation is what the  *)
(* row wants (MetadataInv), and so is what any syncer brings for it        *)
(* (SyncersInv).  Every decision of an administrator raises the            *)
(* generation, so a token older than it can never match again (TokensInv). *)
(***************************************************************************)
EXTENDS ReporterAccessSync, TLAPS

\* Auth never runs ahead of the row, and agrees with its current generation.
MetadataInv ==
    /\ metadata.generation <= generation
    /\ metadata.generation = generation => metadata.role = desired

\* What a syncer carries was wanted by the row under the generation it claimed.
Carries(s) ==
    syncer[s].pc \in {"write", "complete"} =>
        /\ syncer[s].target.generation <= generation
        /\ syncer[s].target.generation = generation => syncer[s].target.role = desired

\* A syncer that is about to claim has a round left.
HasRound(s) ==
    syncer[s].pc \in {"idle", "approved", "claim"} => syncer[s].rounds < SyncRounds

SyncersInv == \A s \in Syncers : Carries(s) /\ HasRound(s)

\* A completed sync has given its claim back.
ClaimInv == status = "succeeded" => claim = NoClaim

\* What the decisions made so far have left in the row.
DecisionInv ==
    /\ suspended <=> desired = "none"
    /\ decisions > 0 => operation # "approval"

\* No token is ahead of the row, and one from before the latest decision is
\* behind its generation.
TokensInv ==
    \A u \in Sessions :
        /\ jwt[u].generation <= generation
        /\ jwt[u].decisions <= decisions
        /\ jwt[u].decisions < decisions => jwt[u].generation < generation

IInv ==
    /\ TypeOK
    /\ MetadataInv
    /\ SyncersInv
    /\ ClaimInv
    /\ DecisionInv
    /\ TokensInv
    /\ SuccessIsAgreed
    /\ VerifiedWriteHolds

-----------------------------------------------------------------------------
(* Type correctness.                                                        *)

\* Taking the claim keeps the types of what it changes.
LEMMA ClaimedType ==
    ASSUME TypeOK, NEW s \in Syncers, NEW g \in Generations, Claimed(s, g),
           syncer[s].rounds < SyncRounds
    PROVE  /\ status' \in {"pending", "succeeded", "failed"}
           /\ claim' \in Claim
           /\ syncer' \in [Syncers -> SyncerState]
<1> USE BoundsArePositive DEF TypeOK, Generations, Claimed
<1>1. [token |-> s, generation |-> g, live |-> TRUE] \in Claim
  BY DEF Claim
<1>2. [role |-> desired, generation |-> g] \in Signed
  BY DEF Signed
<1>3. syncer[s].rounds + 1 \in 0..SyncRounds
  BY DEF SyncerState
<1>4. syncer' \in [Syncers -> SyncerState]
  BY <1>2, <1>3 DEF SyncerState
<1> QED
  BY <1>1, <1>4

\* Every step of a syncer keeps the types.
LEMMA SyncerStepType ==
    ASSUME TypeOK, SyncersInv, NEW s \in Syncers, SyncerStep(s)
    PROVE  TypeOK'
<1> USE BoundsArePositive DEF TypeOK, Generations
<1>0. /\ syncer[s] \in SyncerState
      /\ syncer[s].rounds \in 0..SyncRounds
      /\ syncer[s].target \in Signed
      /\ NoClaim \in Claim
      /\ Idle \in SyncerState
  BY DEF SyncerState, NoClaim, Claim, Idle, Reader, Signed, Roles
<1>1. CASE ClaimAccess(s)
  <2>1. syncer[s].rounds < SyncRounds
    BY <1>1 DEF ClaimAccess, SyncersInv, HasRound
  <2>2. PICK g \in Generations :
           /\ generation' = g
           /\ operation' \in {"reconciliation", operation}
           /\ UNCHANGED <<desired, suspended, metadata, writes, jwt, decisions>>
           /\ \/ Claimed(s, g)
              \/ /\ syncer' = [syncer EXCEPT ![s] = Idle]
                 /\ status' = "pending"
                 /\ UNCHANGED claim
    BY <1>1 DEF ClaimAccess
  <2>3. /\ status' \in {"pending", "succeeded", "failed"}
        /\ claim' \in Claim
        /\ syncer' \in [Syncers -> SyncerState]
    BY <1>0, <2>1, <2>2, ClaimedType
  <2> QED
    BY <2>2, <2>3
<1>2. CASE ClaimTemporary(s)
  <2>1. syncer[s].rounds < SyncRounds
    BY <1>2 DEF ClaimTemporary, SyncersInv, HasRound
  <2>2. /\ status' \in {"pending", "succeeded", "failed"}
        /\ claim' \in Claim
        /\ syncer' \in [Syncers -> SyncerState]
    BY <1>2, <2>1, ClaimedType DEF ClaimTemporary
  <2> QED
    BY <1>2, <2>2 DEF ClaimTemporary
<1>3. CASE ClaimAnswersNo(s) \/ SyncerStops(s)
  BY <1>0, <1>3 DEF ClaimAnswersNo, SyncerStops, row
<1>4. CASE WriteAccepted(s) \/ WriteFails(s)
  <2>1. syncer' \in [Syncers -> SyncerState]
    BY <1>0, <1>4 DEF WriteAccepted, WriteFails, Written, SyncerState
  <2>2. metadata' \in Signed /\ writes' \in SUBSET Signed
    BY <1>0, <1>4 DEF WriteAccepted, WriteFails
  <2> QED
    BY <1>4, <2>1, <2>2 DEF WriteAccepted, WriteFails, row
<1>5. CASE CompleteAccess(s) \/ CompleteTemporary(s)
  <2>1. \E x \in SyncerState : syncer' = [syncer EXCEPT ![s] = x]
    <3>1. Completed(s, syncer[s].ok) \/ Completed(s, syncer[s].ok /\ metadata = syncer[s].target)
            => syncer' = [syncer EXCEPT ![s] = Idle]
      BY DEF Completed
    <3>2. [Idle EXCEPT !.pc = "claim", !.rounds = syncer[s].rounds] \in SyncerState
      BY <1>0 DEF Idle, SyncerState
    <3>3. AnotherRound(s) => \E x \in SyncerState : syncer' = [syncer EXCEPT ![s] = x]
      BY <1>0, <3>2 DEF AnotherRound
    <3> QED
      BY <1>0, <1>5, <3>1, <3>3 DEF CompleteAccess, CompleteTemporary
  <2>2. claim' \in {claim, NoClaim}
    BY <1>5 DEF CompleteAccess, CompleteTemporary, Completed
  <2>3. /\ generation' \in Generations
        /\ status' \in {"pending", "succeeded", "failed"}
        /\ operation' \in {"reconciliation", operation}
    BY <1>5 DEF CompleteAccess, CompleteTemporary, Completed, Repair, NewGeneration
  <2>4. UNCHANGED <<desired, suspended, metadata, writes, jwt, decisions>>
    BY <1>5 DEF CompleteAccess, CompleteTemporary
  <2>5. syncer' \in [Syncers -> SyncerState]
    BY <2>1
  <2> QED
    BY <1>0, <2>2, <2>3, <2>4, <2>5
<1> QED
  BY <1>1, <1>2, <1>3, <1>4, <1>5 DEF SyncerStep

\* Every step keeps the types.
LEMMA StepType ==
    ASSUME TypeOK, SyncersInv, [Next]_vars PROVE TypeOK'
<1> USE BoundsArePositive DEF TypeOK, Generations
<1>1. CASE Suspend \/ Reinstate
  <2>1. NewGeneration => generation' \in 1..MaxGeneration /\ status' = "pending"
    BY DEF NewGeneration
  <2>2. decisions + 1 \in Nat
    OBVIOUS
  <2>3. CASE Suspend
    BY <2>1, <2>2, <2>3 DEF Suspend, Roles
  <2>4. CASE Reinstate
    BY <2>1, <2>2, <2>4 DEF Reinstate, Roles
  <2> QED
    BY <1>1, <2>3, <2>4
<1>2. CASE \E s \in Syncers : SyncerStep(s)
  BY <1>2, SyncerStepType
<1>3. CASE \E m \in writes : LateWrite(m)
  BY <1>3 DEF LateWrite, row
<1>4. CASE LeaseLapses
  BY <1>4 DEF LeaseLapses, Claim
<1>5. CASE \E u \in Sessions : RefreshSession(u)
  <2>1. [role |-> metadata.role, generation |-> metadata.generation, decisions |-> decisions]
           \in Token
    BY DEF Signed, Token
  <2> QED
    BY <1>5, <2>1 DEF RefreshSession, row
<1>6. CASE UNCHANGED vars
  BY <1>6 DEF vars, row
<1> QED
  BY <1>1, <1>2, <1>3, <1>4, <1>5, <1>6 DEF Next

-----------------------------------------------------------------------------
(* The inductive invariant, action by action.                               *)

\* Agreement of Auth with the row, field by field.
LEMMA WantedFields ==
    ASSUME TypeOK, NEW m \in Signed
    PROVE  m = Wanted <=> m.role = desired /\ m.generation = generation
  BY DEF TypeOK, Wanted, Signed

\* A generation is only ever raised, and keeps its desired role.
RowMoves ==
    /\ generation <= generation'
    /\ generation' = generation => desired' = desired

\* A syncer that does not move is not hurt by a row that does.
LEMMA WaitingSyncer ==
    ASSUME IInv, TypeOK', RowMoves, NEW s \in Syncers, syncer'[s] = syncer[s]
    PROVE  Carries(s)' /\ HasRound(s)'
<1>1. syncer[s].target.generation \in Nat /\ generation \in Nat /\ generation' \in Nat
  BY BoundsArePositive DEF IInv, TypeOK, SyncerState, Signed, Generations
<1>2. Carries(s) /\ HasRound(s)
  BY DEF IInv, SyncersInv
<1> QED
  BY <1>1, <1>2 DEF RowMoves, Carries, HasRound

\* When the row moves to a new generation, Auth and the tokens fall behind.
LEMMA RowMovesOn ==
    ASSUME IInv, TypeOK', RowMoves, UNCHANGED <<metadata, jwt, decisions>>
    PROVE  MetadataInv' /\ TokensInv'
<1>1. /\ generation \in Nat /\ generation' \in Nat /\ metadata.generation \in Nat
      /\ \A u \in Sessions : jwt[u].generation \in Nat
  BY BoundsArePositive DEF IInv, TypeOK, Signed, Token, Generations
<1>2. MetadataInv'
  BY <1>1 DEF IInv, MetadataInv, RowMoves
<1>3. TokensInv'
  <2> SUFFICES ASSUME NEW u \in Sessions
               PROVE  /\ jwt[u].generation <= generation'
                      /\ jwt[u].decisions <= decisions
                      /\ jwt[u].decisions < decisions => jwt[u].generation < generation'
    BY DEF TokensInv
  <2> QED
    BY <1>1 DEF IInv, TokensInv, RowMoves
<1> QED
  BY <1>2, <1>3

\* Suspension and reinstatement: the new generation is one nobody has written
\* or signed yet.
LEMMA DecisionKeeps ==
    ASSUME IInv, TypeOK', Suspend \/ Reinstate
    PROVE  IInv'
<1>1. /\ generation' = generation + 1
      /\ decisions' = decisions + 1
      /\ status' = "pending"
      /\ operation' # "approval"
      /\ suspended' <=> desired' = "none"
      /\ UNCHANGED <<claim, metadata, writes, syncer, jwt>>
  BY DEF Suspend, Reinstate, NewGeneration, IInv, TypeOK
<1>2. /\ generation \in Nat /\ decisions \in Nat /\ metadata.generation \in Nat
      /\ \A u \in Sessions : jwt[u].generation \in Nat /\ jwt[u].decisions \in Nat
      /\ \A s \in Syncers : syncer[s].target.generation \in Nat
  BY BoundsArePositive DEF IInv, TypeOK, Signed, Token, Generations, SyncerState
<1>3. RowMoves
  BY <1>1, <1>2 DEF RowMoves
<1>4. SyncersInv'
  BY <1>1, <1>3, WaitingSyncer DEF SyncersInv
<1>5. MetadataInv'
  BY <1>1, <1>2 DEF IInv, MetadataInv
<1>6. TokensInv'
  <2> SUFFICES ASSUME NEW u \in Sessions
               PROVE  /\ jwt[u].generation < generation + 1
                      /\ jwt[u].decisions < decisions + 1
    BY <1>1, <1>2 DEF TokensInv
  <2> QED
    BY <1>2 DEF IInv, TokensInv
<1>7. ClaimInv' /\ SuccessIsAgreed' /\ DecisionInv'
  BY <1>1 DEF ClaimInv, SuccessIsAgreed, DecisionInv
<1>8. VerifiedWriteHolds'
  <2> SUFFICES ASSUME NEW s \in Syncers, syncer[s].pc = "complete"
               PROVE  syncer[s].target.generation # generation + 1
    BY <1>1 DEF VerifiedWriteHolds
  <2>1. Carries(s)
    BY DEF IInv, SyncersInv
  <2> QED
    BY <1>2, <2>1 DEF Carries
<1> QED
  BY <1>4, <1>5, <1>6, <1>7, <1>8 DEF IInv

\* A claim takes the row's present wish along; a drifted success, which the
\* invariant excludes, is all that could move the generation here.
LEMMA ClaimKeeps ==
    ASSUME IInv, TypeOK', NEW s \in Syncers,
           ClaimAccess(s) \/ ClaimTemporary(s) \/ ClaimAnswersNo(s) \/ SyncerStops(s)
    PROVE  IInv'
<1>1. /\ UNCHANGED <<generation, desired, operation, suspended, metadata, writes, jwt, decisions>>
      /\ status' \in {"pending", status}
      /\ status' = "succeeded" => UNCHANGED claim
  <2>1. CASE ClaimAccess(s)
    BY <2>1 DEF ClaimAccess, Claimed, IInv, SuccessIsAgreed
  <2>2. CASE ClaimTemporary(s)
    BY <2>2 DEF ClaimTemporary, Claimed
  <2>3. CASE ClaimAnswersNo(s) \/ SyncerStops(s)
    BY <2>3 DEF ClaimAnswersNo, SyncerStops, row
  <2> QED
    BY <2>1, <2>2, <2>3
<1>2. \/ syncer' = [syncer EXCEPT ![s] = Idle]
      \/ syncer' = [syncer EXCEPT ![s].pc = "write", ![s].target = Wanted, ![s].rounds = @ + 1]
  BY <1>1 DEF ClaimAccess, ClaimTemporary, ClaimAnswersNo, SyncerStops, Claimed, Wanted
<1>3. RowMoves
  BY <1>1, BoundsArePositive DEF RowMoves, IInv, TypeOK, Generations
<1>4. \A w \in Syncers : w # s => syncer'[w] = syncer[w]
  BY <1>2 DEF IInv, TypeOK
<1>5. /\ syncer'[s].pc \in {"idle", "write"}
      /\ syncer'[s].pc = "idle" => syncer'[s].rounds = 0
      /\ syncer'[s].pc = "write" => syncer'[s].target = Wanted
  BY <1>2 DEF Idle, IInv, TypeOK, SyncerState
<1>6. SyncersInv'
  <2>1. Carries(s)' /\ HasRound(s)'
    BY <1>1, <1>5, BoundsArePositive DEF Carries, HasRound, Wanted, IInv, TypeOK, Generations
  <2>2. \A w \in Syncers : w # s => Carries(w)' /\ HasRound(w)'
    BY <1>3, <1>4, WaitingSyncer
  <2> QED
    BY <2>1, <2>2 DEF SyncersInv
<1>7. VerifiedWriteHolds'
  BY <1>1, <1>4, <1>5 DEF IInv, VerifiedWriteHolds
<1>8. MetadataInv' /\ TokensInv'
  BY <1>1, <1>3, RowMovesOn
<1>9. ClaimInv' /\ SuccessIsAgreed' /\ DecisionInv'
  BY <1>1 DEF IInv, ClaimInv, SuccessIsAgreed, DecisionInv, Wanted
<1> QED
  BY <1>6, <1>7, <1>8, <1>9 DEF IInv

\* Whatever passes the trigger leaves Auth as it was or as the row wants it.
LEMMA WriteKeeps ==
    ASSUME IInv, TypeOK',
           \/ \E s \in Syncers : WriteAccepted(s) \/ WriteFails(s)
           \/ \E m \in writes : LateWrite(m)
    PROVE  IInv'
<1>1. /\ UNCHANGED <<row, jwt, decisions>>
      /\ metadata' \in {metadata, Wanted}
  BY DEF WriteAccepted, WriteFails, LateWrite, Fence
<1>2. RowMoves
  BY <1>1, BoundsArePositive DEF RowMoves, row, IInv, TypeOK, Generations
<1>3. MetadataInv'
  BY <1>1, BoundsArePositive DEF row, IInv, TypeOK, Generations, MetadataInv, Wanted
<1>4. TokensInv' /\ ClaimInv' /\ DecisionInv' /\ SuccessIsAgreed'
  BY <1>1 DEF row, IInv, TokensInv, ClaimInv, DecisionInv, SuccessIsAgreed, Wanted
<1>5. \A s \in Syncers : \/ syncer'[s] = syncer[s]
                         \/ /\ syncer[s].pc = "write"
                            /\ syncer'[s].pc = "complete"
                            /\ syncer'[s].target = syncer[s].target
                            /\ syncer'[s].ok => metadata' = syncer[s].target
  <2>1. ASSUME NEW w \in Syncers, WriteAccepted(w) \/ WriteFails(w), NEW s \in Syncers
        PROVE  \/ syncer'[s] = syncer[s]
               \/ /\ syncer[s].pc = "write"
                  /\ syncer'[s].pc = "complete"
                  /\ syncer'[s].target = syncer[s].target
                  /\ syncer'[s].ok => metadata' = syncer[s].target
    <3>1. syncer \in [Syncers -> SyncerState]
      BY DEF IInv, TypeOK
    <3>2. CASE s = w
      BY <2>1, <3>1, <3>2 DEF WriteAccepted, WriteFails, Written, SyncerState
    <3>3. CASE s # w
      BY <2>1, <3>1, <3>3 DEF WriteAccepted, WriteFails, Written
    <3> QED
      BY <3>2, <3>3
  <2>2. (\E m \in writes : LateWrite(m)) => UNCHANGED syncer
    BY DEF LateWrite
  <2> QED
    BY <2>1, <2>2
<1>6. SyncersInv'
  <2> SUFFICES ASSUME NEW s \in Syncers PROVE Carries(s)' /\ HasRound(s)'
    BY DEF SyncersInv
  <2>1. CASE syncer'[s] = syncer[s]
    BY <1>2, <2>1, WaitingSyncer
  <2>2. CASE syncer'[s] # syncer[s]
    BY <1>1, <1>5, <2>2 DEF IInv, SyncersInv, Carries, HasRound, row
  <2> QED
    BY <2>1, <2>2
<1>7. VerifiedWriteHolds'
  <2> SUFFICES ASSUME NEW s \in Syncers, syncer'[s].pc = "complete", syncer'[s].ok,
                      syncer'[s].target.generation = generation
               PROVE  metadata' = syncer'[s].target
    BY <1>1 DEF VerifiedWriteHolds, row
  <2>1. CASE syncer'[s] = syncer[s]
    <3>1. metadata = syncer[s].target /\ syncer[s].target.role = desired
      BY <2>1 DEF IInv, VerifiedWriteHolds, SyncersInv, Carries
    <3>2. metadata = Wanted
      BY <2>1, <3>1, WantedFields DEF IInv, TypeOK
    <3> QED
      BY <1>1, <2>1, <3>1, <3>2
  <2>2. CASE syncer'[s] # syncer[s]
    BY <1>5, <2>2
  <2> QED
    BY <2>1, <2>2
<1> QED
  BY <1>3, <1>4, <1>6, <1>7 DEF IInv

\* A completion confirms what it finds in Auth, gives up, or moves the row to
\* a repair generation.
LEMMA CompletionKeeps ==
    ASSUME IInv, TypeOK', NEW s \in Syncers, CompleteAccess(s) \/ CompleteTemporary(s)
    PROVE  IInv'
<1>1. /\ UNCHANGED <<desired, suspended, metadata, writes, jwt, decisions>>
      /\ syncer[s].pc = "complete"
  BY DEF CompleteAccess, CompleteTemporary
<1>2. \/ /\ UNCHANGED <<generation, operation>>
         /\ claim' = NoClaim
         /\ \/ status' = "failed"
            \/ /\ status' = "succeeded"
               /\ metadata = syncer[s].target
               /\ generation = syncer[s].target.generation
      \/ /\ UNCHANGED <<generation, operation, status>>
         /\ claim' \in {claim, NoClaim}
      \/ /\ generation' = generation + 1
         /\ operation' = "reconciliation"
         /\ status' = "pending"
  BY DEF CompleteAccess, CompleteTemporary, Completed, Repair, NewGeneration
<1>3. /\ syncer'[s].pc \in {"idle", "claim"}
      /\ syncer'[s].rounds < SyncRounds
      /\ \A w \in Syncers : w # s => syncer'[w] = syncer[w]
  <2>1. 0 < SyncRounds
    BY BoundsArePositive
  <2>2. \/ syncer' = [syncer EXCEPT ![s] = Idle]
        \/ /\ syncer[s].rounds < SyncRounds
           /\ syncer' = [syncer EXCEPT ![s] =
                           [Idle EXCEPT !.pc = "claim", !.rounds = syncer[s].rounds]]
    BY DEF CompleteAccess, CompleteTemporary, Completed, AnotherRound
  <2>3. syncer \in [Syncers -> SyncerState]
    BY DEF IInv, TypeOK
  <2>4. CASE syncer' = [syncer EXCEPT ![s] = Idle]
    BY <2>1, <2>3, <2>4 DEF Idle
  <2>5. CASE /\ syncer[s].rounds < SyncRounds
             /\ syncer' = [syncer EXCEPT ![s] =
                             [Idle EXCEPT !.pc = "claim", !.rounds = syncer[s].rounds]]
    BY <2>3, <2>5 DEF Idle
  <2> QED
    BY <2>2, <2>4, <2>5
<1>4. generation \in Nat
  BY BoundsArePositive DEF IInv, TypeOK, Generations
<1>5. RowMoves
  BY <1>1, <1>2, <1>4 DEF RowMoves
<1>6. MetadataInv' /\ TokensInv'
  BY <1>1, <1>5, RowMovesOn
<1>7. SyncersInv'
  <2>1. Carries(s)' /\ HasRound(s)'
    BY <1>3 DEF Carries, HasRound
  <2>2. \A w \in Syncers : w # s => Carries(w)' /\ HasRound(w)'
    BY <1>3, <1>5, WaitingSyncer
  <2> QED
    BY <2>1, <2>2 DEF SyncersInv
<1>8. ClaimInv' /\ DecisionInv'
  BY <1>1, <1>2 DEF IInv, ClaimInv, DecisionInv
<1>9. SuccessIsAgreed'
  <2>1. CASE status' = "succeeded" /\ metadata = syncer[s].target
                /\ generation = syncer[s].target.generation /\ generation' = generation
    <3>1. metadata.role = desired
      BY <1>1, <2>1 DEF IInv, SyncersInv, Carries
    <3>2. metadata = Wanted
      BY <2>1, <3>1, WantedFields DEF IInv, TypeOK
    <3> QED
      BY <1>1, <2>1, <3>2 DEF SuccessIsAgreed, Wanted
  <2>2. CASE UNCHANGED <<generation, status>>
    BY <1>1, <2>2 DEF IInv, SuccessIsAgreed, Wanted
  <2>3. CASE status' # "succeeded"
    BY <2>3 DEF SuccessIsAgreed
  <2> QED
    BY <1>2, <2>1, <2>2, <2>3
<1>10. VerifiedWriteHolds'
  <2> SUFFICES ASSUME NEW w \in Syncers, syncer'[w].pc = "complete", syncer'[w].ok,
                      syncer'[w].target.generation = generation'
               PROVE  metadata = syncer'[w].target
    BY <1>1 DEF VerifiedWriteHolds
  <2>1. w # s /\ syncer'[w] = syncer[w]
    BY <1>3
  <2>2. Carries(w) /\ syncer[w].target.generation \in Nat
    BY DEF IInv, SyncersInv, TypeOK, SyncerState, Signed
  <2>3. generation' = generation
    BY <1>2, <1>4, <2>1, <2>2 DEF Carries
  <2> QED
    BY <2>1, <2>3 DEF IInv, VerifiedWriteHolds
<1> QED
  BY <1>6, <1>7, <1>8, <1>9, <1>10 DEF IInv

\* A renewed token says what Auth says now; the clock only ends leases.
LEMMA OthersKeep ==
    ASSUME IInv, TypeOK',
           LeaseLapses \/ (\E u \in Sessions : RefreshSession(u)) \/ UNCHANGED vars
    PROVE  IInv'
<1>1. /\ UNCHANGED <<generation, desired, status, operation, suspended,
                     metadata, writes, syncer, decisions>>
      /\ claim' \in {claim, [claim EXCEPT !.live = FALSE]}
      /\ claim' # claim => claim.live
  BY DEF LeaseLapses, RefreshSession, vars, row
<1>2. ClaimInv'
  BY <1>1 DEF IInv, ClaimInv, NoClaim
<1>3. TokensInv'
  <2> SUFFICES ASSUME NEW u \in Sessions
               PROVE  /\ jwt'[u].generation <= generation
                      /\ jwt'[u].decisions <= decisions
                      /\ jwt'[u].decisions < decisions => jwt'[u].generation < generation
    BY <1>1 DEF TokensInv
  <2>1. CASE jwt'[u] = jwt[u]
    BY <2>1 DEF IInv, TokensInv
  <2>2. CASE jwt'[u] # jwt[u]
    <3>1. jwt'[u].generation = metadata.generation /\ jwt'[u].decisions = decisions
      BY <2>2 DEF LeaseLapses, RefreshSession, vars, IInv, TypeOK
    <3> QED
      BY <3>1 DEF IInv, MetadataInv, TypeOK
  <2> QED
    BY <2>1, <2>2
<1> QED
  BY <1>1, <1>2, <1>3 DEF IInv, MetadataInv, SyncersInv, Carries, HasRound, DecisionInv,
     SuccessIsAgreed, VerifiedWriteHolds, Wanted

\* The invariant holds at the start and is kept by every step.
LEMMA Initially == Init => IInv
<1> SUFFICES ASSUME Init PROVE IInv
  OBVIOUS
<1> USE BoundsArePositive DEF Init
<1>1. TypeOK
  <2>1. Idle \in SyncerState /\ [Idle EXCEPT !.pc = "approved"] \in SyncerState
    <3>1. Reader \in Signed /\ 0 \in 0..SyncRounds
      BY DEF Reader, Signed, Roles
    <3>2. Idle \in SyncerState
      BY <3>1 DEF Idle, SyncerState
    <3> QED
      BY <3>2 DEF SyncerState
  <2>2. /\ Reader \in Signed
        /\ NoClaim \in Claim
        /\ [role |-> "none", generation |-> 0, decisions |-> 0] \in Token
    BY DEF Reader, Signed, NoClaim, Claim, Token, Roles
  <2>3. syncer \in [Syncers -> SyncerState] /\ jwt \in [Sessions -> Token]
    BY <2>1, <2>2
  <2>4. generation \in Generations /\ decisions \in Nat
    BY DEF Generations
  <2> QED
    BY <2>2, <2>3, <2>4 DEF TypeOK, Roles
<1>2. SyncersInv /\ VerifiedWriteHolds
  BY DEF SyncersInv, Carries, HasRound, VerifiedWriteHolds, Idle
<1>3. MetadataInv /\ ClaimInv /\ DecisionInv /\ SuccessIsAgreed
  BY DEF MetadataInv, ClaimInv, DecisionInv, SuccessIsAgreed, Reader
<1>4. TokensInv
  BY DEF TokensInv
<1> QED
  BY <1>1, <1>2, <1>3, <1>4 DEF IInv

LEMMA Inductive == IInv /\ [Next]_vars => IInv'
<1> SUFFICES ASSUME IInv, [Next]_vars PROVE IInv'
  OBVIOUS
<1>1. TypeOK'
  BY StepType DEF IInv
<1>2. CASE Suspend \/ Reinstate
  BY <1>1, <1>2, DecisionKeeps
<1>3. ASSUME NEW s \in Syncers, SyncerStep(s) PROVE IInv'
  BY <1>1, <1>3, ClaimKeeps, WriteKeeps, CompletionKeeps DEF SyncerStep
<1>4. CASE \E m \in writes : LateWrite(m)
  BY <1>1, <1>4, WriteKeeps
<1>5. CASE LeaseLapses \/ (\E u \in Sessions : RefreshSession(u)) \/ UNCHANGED vars
  BY <1>1, <1>5, OthersKeep
<1> QED
  BY <1>2, <1>3, <1>4, <1>5 DEF Next

-----------------------------------------------------------------------------
(* The theorems.                                                            *)

\* The synchronization keeps its inductive invariant.
THEOREM Invariance == Spec => []IInv
<1> QED
  BY Initially, Inductive, PTL DEF Spec

\* The variables of the synchronization keep their types.
THEOREM TypeCorrect == Spec => []TypeOK
<1>1. IInv => TypeOK
  BY DEF IInv
<1> QED
  BY <1>1, Invariance, PTL

\* A sync is reported as succeeded only while both stores agree.
THEOREM StoresAgree == Spec => []SuccessIsAgreed
<1>1. IInv => SuccessIsAgreed
  BY DEF IInv
<1> QED
  BY <1>1, Invariance, PTL

\* The verification of a completion never fails under the current claim.
THEOREM WritesAreFoundAgain == Spec => []VerifiedWriteHolds
<1>1. IInv => VerifiedWriteHolds
  BY DEF IInv
<1> QED
  BY <1>1, Invariance, PTL

\* A confirmed sync is not downgraded under its own generation.
THEOREM SuccessStands == Spec => SuccessIsMonotonic
<1> DEFINE Step == status = "succeeded" /\ generation' = generation => status' = "succeeded"
<1>1. ASSUME IInv, [Next]_vars, status = "succeeded", generation' = generation
      PROVE  status' = "succeeded"
  <2>1. claim = NoClaim /\ metadata = Wanted /\ generation \in Nat
    BY <1>1, BoundsArePositive DEF IInv, ClaimInv, SuccessIsAgreed, TypeOK, Generations
  <2>2. CASE Suspend \/ Reinstate
    BY <1>1, <2>1, <2>2 DEF Suspend, Reinstate, NewGeneration
  <2>3. ASSUME NEW s \in Syncers, SyncerStep(s) PROVE status' = "succeeded"
    <3>1. ~Owns(s)
      BY <2>1, SyncersDiffer DEF Owns, NoClaim, Syncers
    <3>2. CASE CompleteAccess(s) \/ CompleteTemporary(s)
      BY <1>1, <2>1, <3>1, <3>2
      DEF CompleteAccess, CompleteTemporary, Repair, NewGeneration
    <3>3. CASE ~(CompleteAccess(s) \/ CompleteTemporary(s))
      BY <1>1, <2>1, <2>3, <3>3 DEF SyncerStep, ClaimAccess, ClaimTemporary, ClaimAnswersNo,
         WriteAccepted, WriteFails, SyncerStops, row
    <3> QED
      BY <3>2, <3>3
  <2>4. (\E m \in writes : LateWrite(m)) \/ LeaseLapses \/ UNCHANGED vars
          \/ (\E u \in Sessions : RefreshSession(u)) => UNCHANGED status
    BY DEF LateWrite, LeaseLapses, RefreshSession, vars, row
  <2> QED
    BY <1>1, <2>2, <2>3, <2>4 DEF Next
<1>2. IInv /\ [Next]_vars => [Step]_vars
  BY <1>1
<1> QED
  BY <1>2, Invariance, PTL DEF Spec, SuccessIsMonotonic

\* The temporary onboarding path completes nothing after a decision.
THEOREM DecisionsStand == Spec => TemporaryNeverOverrules
<1> DEFINE Step == status' = "succeeded" /\ status # "succeeded" /\ decisions > 0 =>
                     \E s \in Admins : syncer[s].pc = "complete" /\ syncer'[s].pc = "idle"
<1>1. ASSUME IInv, [Next]_vars, status' = "succeeded", status # "succeeded", decisions > 0
      PROVE  \E s \in Admins : syncer[s].pc = "complete" /\ syncer'[s].pc = "idle"
  <2>1. operation # "approval"
    BY <1>1 DEF IInv, DecisionInv
  <2>2. ASSUME NEW s \in Syncers, SyncerStep(s)
        PROVE  s \in Admins /\ syncer[s].pc = "complete" /\ syncer'[s].pc = "idle"
    <3>1. ~CompleteTemporary(s)
      BY <1>1, <2>1 DEF CompleteTemporary
    <3>2. CASE CompleteAccess(s)
      <4>1. syncer' = [syncer EXCEPT ![s] = Idle] /\ syncer \in [Syncers -> SyncerState]
        BY <1>1, <3>2 DEF CompleteAccess, Completed, Repair, NewGeneration, IInv, TypeOK
      <4> QED
        BY <3>2, <4>1 DEF CompleteAccess, Idle
    <3>3. ~CompleteAccess(s) => status' \in {"pending", status}
      BY <2>2, <3>1 DEF SyncerStep, ClaimAccess, ClaimTemporary, ClaimAnswersNo, Claimed,
         WriteAccepted, WriteFails, SyncerStops, row
    <3> QED
      BY <1>1, <3>2, <3>3
  <2>3. ~(Suspend \/ Reinstate)
    BY <1>1 DEF Suspend, Reinstate, NewGeneration
  <2>4. (\E m \in writes : LateWrite(m)) \/ LeaseLapses \/ UNCHANGED vars
          \/ (\E u \in Sessions : RefreshSession(u)) => UNCHANGED status
    BY DEF LateWrite, LeaseLapses, RefreshSession, vars, row
  <2> QED
    BY <1>1, <2>2, <2>3, <2>4 DEF Next
<1>2. IInv /\ [Next]_vars => [Step]_vars
  BY <1>1
<1> QED
  BY <1>2, Invariance, PTL DEF Spec, TemporaryNeverOverrules

\* A session that is let in has a token of the latest decision's time: its
\* generation is the row's, and an older token's is not.
LEMMA AdmittedIsFresh ==
    IInv => {u \in Sessions : Admitted(u)} \subseteq {u \in Sessions : jwt[u].decisions = decisions}
<1> SUFFICES ASSUME IInv, NEW u \in Sessions, Admitted(u) PROVE jwt[u].decisions = decisions
  OBVIOUS
<1>1. /\ jwt[u].generation = generation /\ generation \in Nat
      /\ jwt[u].decisions \in Nat /\ decisions \in Nat
  BY BoundsArePositive DEF Admitted, IInv, TypeOK, Token, Generations
<1> QED
  BY <1>1 DEF IInv, TokensInv

\* The same in the next state.
LEMMA AdmittedIsFreshNext ==
    IInv' => ({u \in Sessions : Admitted(u)} \subseteq {u \in Sessions : jwt[u].decisions = decisions})'
  BY AdmittedIsFresh, PTL

\* The synchronization implements the gate: no session gets in by a token that
\* is older than the latest decision about the reporter.
THEOREM ImplementsGate == Spec => KeepsTheGate
<1> DEFINE Fresh == {u \in Sessions : jwt[u].decisions = decisions}
           In    == {u \in Sessions : Admitted(u)}
<1>1. Init => Gate!Init
  BY DEF Init, Gate!Init, Admitted
<1>2. ASSUME IInv, IInv', [Next]_vars PROVE [Gate!Next]_Gate!gate
  <2>1. CASE Suspend \/ Reinstate
    <3>1. suspended' = ~suspended /\ decisions' = decisions + 1 /\ status' = "pending"
             /\ UNCHANGED jwt
      BY <2>1 DEF Suspend, Reinstate, NewGeneration
    <3>2. Fresh' = {}
      <4> SUFFICES ASSUME NEW u \in Sessions PROVE jwt[u].decisions # decisions + 1
        BY <3>1
      <4> QED
        BY <1>2 DEF IInv, TokensInv, TypeOK, Token
    <3>3. In' = {}
      BY <3>1 DEF Admitted
    <3> QED
      BY <3>1, <3>2, <3>3 DEF Gate!Next, Gate!Decide
  <2>2. ASSUME NEW u \in Sessions, RefreshSession(u) PROVE Gate!Renew(u)
    <3>1. /\ UNCHANGED <<row, decisions>>
          /\ jwt'[u].decisions = decisions
          /\ \A v \in Sessions : v # u => jwt'[v] = jwt[v]
      BY <1>2, <2>2 DEF RefreshSession, IInv, TypeOK
    <3>2. Fresh' = Fresh \cup {u}
      BY <3>1
    <3>3. \A v \in Sessions : v # u => (Admitted(v)' <=> Admitted(v))
      BY <3>1 DEF Admitted, row
    <3>4. CASE Admitted(u)'
      <4>1. ~suspended
        BY <3>1, <3>4 DEF Admitted, row
      <4>2. In' = In \cup {u}
        BY <3>3, <3>4
      <4> QED
        BY <3>1, <3>2, <4>1, <4>2 DEF Gate!Renew, row
    <3>5. CASE ~Admitted(u)'
      <4>1. In' = In \ {u}
        BY <3>3, <3>5
      <4> QED
        BY <3>1, <3>2, <4>1 DEF Gate!Renew, row
    <3> QED
      BY <3>4, <3>5
  <2>3. CASE UNCHANGED <<suspended, jwt, decisions>>
    <3>1. UNCHANGED <<suspended, Fresh>>
      BY <2>3
    <3>2. CASE suspended
      <4>1. In' = {}
        BY <2>3, <3>2 DEF Admitted
      <4> QED
        BY <3>1, <4>1 DEF Gate!Next, Gate!Withdraw
    <3>3. CASE ~suspended
      <4>1. In' \subseteq Fresh'
        BY <1>2, AdmittedIsFreshNext
      <4>2. In' \in SUBSET Fresh
        BY <3>1, <4>1
      <4> QED
        BY <3>1, <3>3, <4>2 DEF Gate!Next, Gate!Open
    <3> QED
      BY <3>2, <3>3
  <2>4. ASSUME NEW s \in Syncers, SyncerStep(s) PROVE UNCHANGED <<suspended, jwt, decisions>>
    BY <2>4 DEF SyncerStep, ClaimAccess, ClaimTemporary, ClaimAnswersNo, WriteAccepted,
       WriteFails, CompleteAccess, CompleteTemporary, SyncerStops, row
  <2>5. (\E m \in writes : LateWrite(m)) \/ LeaseLapses \/ UNCHANGED vars
           => UNCHANGED <<suspended, jwt, decisions>>
    BY DEF LateWrite, LeaseLapses, vars, row
  <2> QED
    BY <1>2, <2>1, <2>2, <2>3, <2>4, <2>5 DEF Next, Gate!Next
<1> QED
  BY <1>1, <1>2, Invariance, PTL DEF Spec, KeepsTheGate, Gate!Spec
=============================================================================
