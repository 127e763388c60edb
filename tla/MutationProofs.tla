---- MODULE MutationProofs ----
(***************************************************************************)
(* Theorems about MutationSafety, for any TASKs, operations, targets,      *)
(* workers and bounds.                                                     *)
(***************************************************************************)
EXTENDS MutationSafety, TLAPS

(* The post-state of an operation is a content a target may have. *)
LEMMA PostType == \A o \in Ops : Post(o) \in Bytes
  BY ConstantsAssumption DEF Post

(* What an operation's evidence shows is typed evidence. *)
LEMMA ViewType ==
  ASSUME RecordsOK, NEW k \in Tasks
  PROVE  View(k) \in Evidence
<1>1. Manifest(k) \subseteq Targets
  BY ConstantsAssumption DEF Manifest, OpsOf
<1>2. View(k) \in [Manifest(k) -> Bytes]
  BY <1>1 DEF View, RecordsOK
<1> QED
  BY <1>2 DEF Evidence

(* The initial state is typed. *)
LEMMA TypeInit == Init => TypeOK
<1> SUFFICES ASSUME Init PROVE TypeOK
  OBVIOUS
<1>1. RecordsOK
  <2>1. Unsettled \in Outcome
    BY DEF Unsettled, Outcome
  <2>2. \A o \in Ops : settled[o] = Unsettled
    BY DEF Init
  <2>3. settled \in [Ops -> Outcome] /\ rollbacks \subseteq Ops \X Nat \X RollbackEnd
    BY <2>1 DEF Init
  <2> QED
    BY <2>3, ConstantsAssumption DEF Init, RecordsOK, Record, OperationStatus, MicrotaskStatus
<1>2. ClaimsOK
  BY DEF Init, ClaimsOK, Claim, NoClaim
<1>3. LocksOK
  BY DEF Init, LocksOK
<1>4. ProcsOK
  BY DEF Init, ProcsOK, Call, NoCall, Labels, OperationStatus
<1>5. HistoryOK
  BY DEF Init, HistoryOK
<1> QED
  BY <1>1, <1>2, <1>3, <1>4, <1>5 DEF TypeOK

(* Leaving a request, and dropping its locks, keep the types. *)
LEMMA IdleType ==
  ASSUME ProcsOK, NEW w \in Workers, Idle(w)
  PROVE  ProcsOK'
  BY DEF ProcsOK, Idle, NoCall, Call, Labels, OperationStatus

LEMMA GotoType ==
  ASSUME ProcsOK, NEW w \in Workers, NEW l \in Labels, pc[w] # "idle", Goto(w, l)
  PROVE  ProcsOK'
  BY DEF ProcsOK, Goto

LEMMA DropLocksType ==
  ASSUME LocksOK, NEW w, DropLocks(w)
  PROVE  LocksOK'
  BY DEF LocksOK, DropLocks

LEMMA TransitionType ==
  ASSUME RecordsOK, NEW o \in Ops, NEW s \in OperationStatus, Transition(o, s)
  PROVE  rec' \in [Ops -> Record]
<1> DEFINE new == [status |-> s, rev |-> rec[o].rev + 1, pre |-> rec[o].pre]
<1>1. rec[o].rev \in Nat /\ rec[o].pre \in Bytes
  BY DEF RecordsOK, Record
<1>2. new \in Record
  BY <1>1 DEF Record
<1>3. rec' = [rec EXCEPT ![o] = new]
  BY DEF Transition
<1> QED
  BY <1>2, <1>3 DEF RecordsOK

LEMMA GrantType ==
  ASSUME ClaimsOK, NEW o \in Ops, NEW r \in Nat, Grant(o, r)
  PROVE  ClaimsOK'
  BY ConstantsAssumption DEF ClaimsOK, Grant, Claim

LEMMA EndClaimType ==
  ASSUME ClaimsOK, NEW o \in Ops, EndClaim(o)
  PROVE  ClaimsOK'
<1>1. active[TargetOf[o]].rev \in Nat
  BY ConstantsAssumption DEF ClaimsOK, Claim
<1>2. CASE Releasable(o)
  BY <1>1, <1>2, ConstantsAssumption DEF ClaimsOK, EndClaim, Claim, NoClaim
<1>3. CASE ~Releasable(o)
  BY <1>3 DEF ClaimsOK, EndClaim, claims
<1> QED
  BY <1>2, <1>3

(* What an action leaves alone keeps its type. *)
LEMMA KeepType ==
  /\ RecordsOK /\ UNCHANGED records => RecordsOK'
  /\ ClaimsOK /\ UNCHANGED claims => ClaimsOK'
  /\ LocksOK /\ UNCHANGED locks => LocksOK'
  /\ ProcsOK /\ UNCHANGED procs => ProcsOK'
  /\ HistoryOK /\ UNCHANGED <<history, spent>> => HistoryOK'
<1>1. RecordsOK /\ UNCHANGED records => RecordsOK'
  BY DEF RecordsOK, records
<1>2. ClaimsOK /\ UNCHANGED claims => ClaimsOK'
  BY DEF ClaimsOK, claims
<1>3. LocksOK /\ UNCHANGED locks => LocksOK'
  BY DEF LocksOK, locks
<1>4. ProcsOK /\ UNCHANGED procs => ProcsOK'
  BY DEF ProcsOK, procs
<1>5. HistoryOK /\ UNCHANGED <<history, spent>> => HistoryOK'
  BY DEF HistoryOK, history
<1> QED
  BY <1>1, <1>2, <1>3, <1>4, <1>5

(* The operation a busy worker works on, and what it read of it. *)
LEMMA CallType ==
  ASSUME ProcsOK, NEW w \in Workers
  PROVE  /\ call[w].rev \in Nat
         /\ call[w].claim \in Nat
         /\ call[w].status \in OperationStatus
         /\ pc[w] # "idle" => call[w].op \in Ops
  BY DEF ProcsOK, Call

(* The stage moves of the state machine keep the types. *)
LEMMA SetStageType ==
  ASSUME TypeOK, NEW k \in Tasks, NEW s \in MicrotaskStatus, SetStage(k, s)
  PROVE  TypeOK'
<1>1. RecordsOK'
  BY DEF TypeOK, RecordsOK, SetStage
<1> QED
  BY <1>1, KeepType DEF TypeOK, SetStage

LEMMA StageType ==
  ASSUME TypeOK, NEW k \in Tasks, Stage(k)
  PROVE  TypeOK'
<1>1. CASE StageMove(k)
  BY <1>1, SetStageType DEF StageMove
<1>2. CASE AskActivation(k)
  <2>1. RecordsOK'
    BY <1>2 DEF TypeOK, RecordsOK, AskActivation
  <2> QED
    BY <2>1, <1>2, KeepType DEF TypeOK, AskActivation
<1>3. CASE BlockPreparation(k)
  BY <1>3, SetStageType DEF BlockPreparation, MicrotaskStatus
<1>4. CASE Activate(k)
  BY <1>4, SetStageType DEF Activate, MicrotaskStatus
<1>5. CASE Verify(k)
  BY <1>5, SetStageType DEF Verify, MicrotaskStatus
<1>6. CASE CloseTask(k)
  <2>1. RecordsOK'
    BY <1>6 DEF TypeOK, RecordsOK, CloseTask
  <2> QED
    BY <2>1, <1>6, KeepType DEF TypeOK, CloseTask
<1> QED
  BY <1>1, <1>2, <1>3, <1>4, <1>5, <1>6 DEF Stage

(* What the settlements ask for is a status; VERIFIED only where it is.    *)
LEMMA TargetStatus ==
  ASSUME NEW k, NEW A
  PROVE  /\ LifecycleTarget(k, A) \in MicrotaskStatus
         /\ LifecycleTarget(k, A) = "VERIFIED" => stage[k] = "VERIFIED"
  BY DEF LifecycleTarget, MicrotaskStatus

(* What recovery does: a locked stage move, a settlement, or a rollback.   *)
LEMMA RecoveryKinds ==
  ASSUME Recovery
  PROVE  \/ \E k \in Tasks, s \in MicrotaskStatus :
               /\ SetStage(k, s) /\ TaskFree(k) /\ LifeFree(k)
               /\ s = "VERIFIED" => stage[k] = "VERIFIED"
         \/ \E o \in Ops : SettleRecovery(o)
         \/ \E o \in Ops : Restore(o)
<1>1. ASSUME NEW o \in Ops, RollbackPreflight(o)
      PROVE  \E k \in Tasks, s \in MicrotaskStatus :
               /\ SetStage(k, s) /\ TaskFree(k) /\ LifeFree(k)
               /\ s = "VERIFIED" => stage[k] = "VERIFIED"
  <2>1. TaskOf[o] \in Tasks /\ "RECOVERY_REQUIRED" \in MicrotaskStatus
    BY ConstantsAssumption DEF MicrotaskStatus
  <2> QED
    BY <1>1, <2>1 DEF RollbackPreflight
<1>2. ASSUME NEW k \in Tasks, FinishSettlement(k)
      PROVE  \E s \in MicrotaskStatus :
               /\ SetStage(k, s) /\ TaskFree(k) /\ LifeFree(k)
               /\ s = "VERIFIED" => stage[k] = "VERIFIED"
  BY <1>2, TargetStatus DEF FinishSettlement
<1>3. ASSUME NEW k \in Tasks, RearmRetry(k)
      PROVE  \E s \in MicrotaskStatus :
               /\ SetStage(k, s) /\ TaskFree(k) /\ LifeFree(k)
               /\ s = "VERIFIED" => stage[k] = "VERIFIED"
  BY <1>3 DEF RearmRetry, MicrotaskStatus
<1> QED
  BY <1>1, <1>2, <1>3 DEF Recovery

(* The parts of a settlement: outcome, record, stage, and nothing else.    *)
LEMMA SettlementParts ==
  ASSUME TypeOK, NEW o \in Ops, SettleRecovery(o)
  PROVE  \E i \in DOMAIN accepted[o] :
           /\ i \in Nat /\ accepted[o][i].action \in ResolutionAction
           /\ Settleable(o, i) /\ RecordSettlement(o, i)
<1>1. accepted[o] \in Seq(Basis)
  BY DEF TypeOK, RecordsOK
<1>2. PICK i \in DOMAIN accepted[o] : Settleable(o, i) /\ RecordSettlement(o, i)
  BY DEF SettleRecovery
<1>3. i \in Nat /\ accepted[o][i] \in Basis
  BY <1>1
<1>4. accepted[o][i].action \in ResolutionAction
  BY <1>3 DEF Basis
<1> QED
  BY <1>2, <1>3, <1>4

LEMMA SettlementType ==
  ASSUME TypeOK, NEW o \in Ops, SettleRecovery(o)
  PROVE  TypeOK'
<1> DEFINE k == TaskOf[o]
<1>1. k \in Tasks /\ stage[k] \in MicrotaskStatus /\ rec[o] \in Record
  BY ConstantsAssumption DEF TypeOK, RecordsOK
<1>2. PICK i \in DOMAIN accepted[o] :
         i \in Nat /\ accepted[o][i].action \in ResolutionAction /\ RecordSettlement(o, i)
  BY SettlementParts
<1>3. settled' \in [Ops -> Outcome]
  <2> DEFINE new == [action |-> accepted[o][i].action, by |-> i, seen |-> stage[k]]
  <2>1. new \in Outcome
    BY <1>1, <1>2 DEF Outcome
  <2>2. settled' = [settled EXCEPT ![o] = new]
    BY <1>2 DEF RecordSettlement
  <2> HIDE DEF new
  <2> QED
    BY <2>1, <2>2 DEF TypeOK, RecordsOK
<1>4. rec' \in [Ops -> Record]
  <2> DEFINE new == [status |-> IF accepted[o][i].action = "ADOPT" THEN "VERIFIED" ELSE rec[o].status,
                     rev |-> rec[o].rev + 1, pre |-> rec[o].pre]
  <2>1. rec[o].status \in OperationStatus /\ rec[o].rev + 1 \in Nat /\ rec[o].pre \in Bytes
    BY <1>1 DEF Record
  <2>2. new \in Record
    BY <2>1 DEF Record, OperationStatus
  <2>3. rec' = [rec EXCEPT ![o] = new]
    BY <1>2 DEF RecordSettlement
  <2> HIDE DEF new
  <2> QED
    BY <2>2, <2>3 DEF TypeOK, RecordsOK
<1>5. stage' \in [Tasks -> MicrotaskStatus]
  <2>1. ASSUME NEW A, stage' = [stage EXCEPT ![k] = LifecycleTarget(k, A)]
        PROVE  stage' \in [Tasks -> MicrotaskStatus]
    BY <2>1, TargetStatus DEF TypeOK, RecordsOK
  <2> QED
    BY <2>1 DEF SettleRecovery, TypeOK, RecordsOK
<1>6. RecordsOK'
  BY <1>3, <1>4, <1>5 DEF SettleRecovery, TypeOK, RecordsOK
<1>7. HistoryOK'
  BY DEF SettleRecovery, TypeOK, HistoryOK, history
<1> QED
  BY <1>6, <1>7, KeepType DEF SettleRecovery, TypeOK

LEMMA RestoreType ==
  ASSUME TypeOK, NEW o \in Ops, Restore(o)
  PROVE  TypeOK'
<1>1. file' \in [Targets -> Bytes] /\ author' \in [Targets -> Ops \cup {None}]
  <2>1. PICK S : /\ file' = [t \in Targets |-> IF t \in S THEN InitialBytes[t] ELSE file[t]]
                 /\ author' = [t \in Targets |->
                                  IF t \in S /\ (file[t] # InitialBytes[t] \/ author[t] = o)
                                  THEN None ELSE author[t]]
    BY DEF Restore
  <2> QED
    BY <2>1, ConstantsAssumption DEF TypeOK, RecordsOK, HistoryOK
<1>2. rollbacks' \subseteq Ops \X Nat \X RollbackEnd
  <2>1. PICK i \in DOMAIN accepted[o], e \in RollbackEnd : rollbacks' = rollbacks \cup {<<o, i, e>>}
    BY DEF Restore
  <2>2. i \in Nat
    BY DEF TypeOK, RecordsOK
  <2> QED
    BY <2>1, <2>2 DEF TypeOK, RecordsOK
<1>3. RecordsOK'
  BY <1>1, <1>2 DEF Restore, TypeOK, RecordsOK
<1>4. ClaimsOK'
  BY DEF Restore, TypeOK, ClaimsOK, Claim, NoClaim
<1>5. HistoryOK'
  BY <1>1 DEF Restore, TypeOK, HistoryOK
<1> QED
  BY <1>3, <1>4, <1>5, KeepType DEF Restore, TypeOK

(* Recovery keeps the types. *)
LEMMA RecoveryType ==
  ASSUME TypeOK, Recovery
  PROVE  TypeOK'
  BY RecoveryKinds, SetStageType, SettlementType, RestoreType

(* Requests of agents keep the types. *)
LEMMA AgentType ==
  ASSUME TypeOK, Agent
  PROVE  TypeOK'
<1>1. ASSUME NEW o \in Ops, ApiAcquire(o)
      PROVE  TypeOK'
  <2>1. rec[o].rev \in Nat
    BY DEF TypeOK, RecordsOK, Record
  <2>2. ClaimsOK'
    BY <1>1, <2>1, GrantType DEF TypeOK, ApiAcquire
  <2> QED
    BY <1>1, <2>2, KeepType DEF TypeOK, ApiAcquire
<1>2. ASSUME NEW o \in Ops, ApiRelease(o)
      PROVE  TypeOK'
  <2>1. ClaimsOK'
    BY <1>2, EndClaimType DEF TypeOK, ApiRelease
  <2> QED
    BY <1>2, <2>1, KeepType DEF TypeOK, ApiRelease
<1>3. ASSUME NEW o \in Ops, ApiTransition(o)
      PROVE  TypeOK'
  <2>1. rec' \in [Ops -> Record]
    BY <1>3, TransitionType DEF TypeOK, ApiTransition
  <2>2. RecordsOK'
    BY <1>3, <2>1 DEF TypeOK, RecordsOK, ApiTransition
  <2> QED
    BY <1>3, <2>2, KeepType DEF TypeOK, ApiTransition
<1>4. ASSUME NEW o \in Ops, NEW a \in ResolutionAction, Resolve(o, a)
      PROVE  TypeOK'
  <2> DEFINE k     == TaskOf[o]
             basis == [action |-> a, rev |-> rec[o].rev, view |-> View(k), intact |-> intact[k]]
  <2>1. k \in Tasks
    BY ConstantsAssumption
  <2>2. View(k) \in Evidence
    BY <2>1, ViewType DEF TypeOK
  <2>3. basis \in Basis
    BY <2>1, <2>2 DEF TypeOK, RecordsOK, Record, Basis
  <2>4. accepted' = [accepted EXCEPT ![o] = Append(accepted[o], basis)]
    BY <1>4 DEF Resolve
  <2>5. accepted' \in [Ops -> Seq(Basis)]
    BY <2>3, <2>4 DEF TypeOK, RecordsOK
  <2>6. RecordsOK'
    BY <1>4, <2>5 DEF TypeOK, RecordsOK, Resolve
  <2> QED
    BY <1>4, <2>6, KeepType DEF TypeOK, Resolve
<1> QED
  BY <1>1, <1>2, <1>3, <1>4 DEF Agent

(* Edits outside the control plane keep the types. *)
LEMMA WorldType ==
  ASSUME TypeOK, World
  PROVE  TypeOK'
<1>1. ASSUME NEW t \in Targets, ForeignEdit(t)
      PROVE  TypeOK'
  <2>1. RecordsOK'
    BY <1>1, ConstantsAssumption DEF TypeOK, RecordsOK, ForeignEdit
  <2>2. HistoryOK'
    BY <1>1 DEF TypeOK, HistoryOK, ForeignEdit
  <2> QED
    BY <1>1, <2>1, <2>2, KeepType DEF TypeOK, ForeignEdit
<1>2. ASSUME NEW k \in Tasks, RestorePointBreaks(k)
      PROVE  TypeOK'
  <2>1. RecordsOK'
    BY <1>2 DEF TypeOK, RecordsOK, RestorePointBreaks
  <2> QED
    BY <1>2, <2>1, KeepType DEF TypeOK, RestorePointBreaks
<1> QED
  BY <1>1, <1>2 DEF World

(* Declaring or redelivering a request keeps the types. *)
LEMMA RequestType ==
  ASSUME TypeOK, NEW w \in Workers, Request(w)
  PROVE  TypeOK'
<1>1. ASSUME NEW o \in Ops, NewIntent(w, o)
      PROVE  TypeOK'
  <2> DEFINE new == [status |-> "INTENT", rev |-> 1, pre |-> file[TargetOf[o]]]
  <2>1. new \in Record
    BY ConstantsAssumption DEF TypeOK, RecordsOK, Record, OperationStatus
  <2>2. rec' = [rec EXCEPT ![o] = new]
    BY <1>1 DEF NewIntent
  <2>3. RecordsOK'
    BY <1>1, <2>1, <2>2 DEF TypeOK, RecordsOK, NewIntent
  <2>4. ProcsOK'
    BY <1>1 DEF TypeOK, ProcsOK, NewIntent, Snapshot, Call, Labels, OperationStatus
  <2> QED
    BY <1>1, <2>3, <2>4, KeepType DEF TypeOK, NewIntent
<1>2. ASSUME NEW o \in Ops, ReplayIntent(w, o)
      PROVE  TypeOK'
  <2>1. rec[o].rev \in Nat /\ rec[o].status \in OperationStatus
    BY DEF TypeOK, RecordsOK, Record
  <2>2. Continuation(rec[o].status) \in Labels
    BY <1>2 DEF ReplayIntent, Continuation, Completed, Labels
  <2>3. ProcsOK'
    BY <1>2, <2>1, <2>2 DEF TypeOK, ProcsOK, ReplayIntent, Snapshot, Call
  <2> QED
    BY <1>2, <2>3, KeepType DEF TypeOK, ReplayIntent
<1> QED
  BY <1>1, <1>2 DEF Request

(* A worker that moves on changes only its place. *)
LEMMA MoveType ==
  ASSUME TypeOK, NEW w \in Workers, NEW l \in Labels, pc[w] # "idle",
         Goto(w, l) \/ Idle(w),
         UNCHANGED <<records, claims, locks, history, spent>>
  PROVE  TypeOK'
<1>1. ProcsOK'
  BY IdleType, GotoType DEF TypeOK
<1> QED
  BY <1>1, KeepType DEF TypeOK

(* Every step of a worker keeps the types. *)
LEMMA StepType ==
  ASSUME TypeOK, NEW w \in Workers, Step(w)
  PROVE  TypeOK'
<1> DEFINE o == call[w].op
<1>1. CASE Drive(w)
  <2>1. CASE call' = [call EXCEPT ![w].retry = TRUE] /\ pc' = [pc EXCEPT ![w] = "admit"]
    <3>1. o \in Ops
      BY <1>1 DEF TypeOK, ProcsOK, Drive
    <3>2. ProcsOK'
      BY <2>1, <3>1 DEF TypeOK, ProcsOK, Call, Labels
    <3> QED
      BY <1>1, <3>2, KeepType DEF TypeOK, Drive
  <2>2. CASE Idle(w)
    <3>1. ProcsOK'
      BY <2>2, IdleType DEF TypeOK
    <3> QED
      BY <1>1, <3>1, KeepType DEF TypeOK, Drive
  <2> QED
    BY <1>1, <2>1, <2>2 DEF Drive
<1>2. CASE Admit(w)
  BY <1>2, MoveType DEF Admit, Labels
<1>3. CASE Acquire(w)
  <2>1. o \in Ops /\ TargetOf[o] \in Targets /\ call[w].rev \in Nat /\ call[w] \in Call
    BY <1>3, ConstantsAssumption DEF TypeOK, ProcsOK, Call, Acquire
  <2>2. CASE KnownClaim(o, call[w].rev) /\ UNCHANGED claims
             /\ call' = [call EXCEPT ![w].claim = active[TargetOf[o]].gen]
             /\ pc' = [pc EXCEPT ![w] = "boundary"]
    <3>1. active[TargetOf[o]].gen \in Nat
      BY <2>1 DEF TypeOK, ClaimsOK, Claim
    <3>2. ProcsOK'
      BY <2>1, <2>2, <3>1 DEF TypeOK, ProcsOK, Call, Labels
    <3> QED
      BY <1>3, <2>2, <3>2, KeepType DEF TypeOK, Acquire
  <2>3. CASE Grant(o, call[w].rev)
             /\ call' = [call EXCEPT ![w].claim = generation[TargetOf[o]]]
             /\ pc' = [pc EXCEPT ![w] = "boundary"]
    <3>1. generation[TargetOf[o]] \in Nat
      BY <2>1 DEF TypeOK, ClaimsOK
    <3>2. ProcsOK'
      BY <2>1, <2>3, <3>1 DEF TypeOK, ProcsOK, Call, Labels
    <3>3. ClaimsOK'
      BY <2>1, <2>3, GrantType DEF TypeOK
    <3> QED
      BY <1>3, <3>2, <3>3, KeepType DEF TypeOK, Acquire
  <2>4. CASE Goto(w, "refused") /\ UNCHANGED claims
    BY <1>3, <2>4, MoveType DEF Acquire, Labels
  <2> QED
    BY <1>3, <2>2, <2>3, <2>4 DEF Acquire
<1>4. CASE EnterBoundary(w)
  <2>1. o \in Ops /\ ProcsOK'
    BY <1>4, GotoType DEF TypeOK, ProcsOK, EnterBoundary, Labels
  <2>2. LocksOK'
    BY <1>4, <2>1, ConstantsAssumption DEF TypeOK, LocksOK, EnterBoundary, TakeLocks
  <2> QED
    BY <1>4, <2>1, <2>2, KeepType DEF TypeOK, EnterBoundary
<1>5. CASE RefuseBoundary(w)
  BY <1>5, MoveType DEF RefuseBoundary, Labels
<1>6. CASE Start(w)
  <2>1. o \in Ops
    BY <1>6 DEF TypeOK, ProcsOK, Start
  <2>2. rec' \in [Ops -> Record]
    BY <1>6, <2>1, TransitionType DEF TypeOK, RecordsOK, Start, OperationStatus
  <2>3. RecordsOK'
    BY <1>6, <2>2 DEF TypeOK, RecordsOK, Start
  <2>4. LocksOK'
    BY <1>6, DropLocksType, KeepType DEF TypeOK, Start
  <2>5. ProcsOK'
    BY <1>6, IdleType, GotoType DEF TypeOK, Start, Labels
  <2> QED
    BY <1>6, <2>3, <2>4, <2>5, KeepType DEF TypeOK, Start
<1>7. CASE Apply(w)
  <2>1. o \in Ops /\ ProcsOK'
    BY <1>7, GotoType DEF TypeOK, ProcsOK, Apply, Labels
  <2>2. RecordsOK'
    BY <1>7, <2>1, PostType DEF TypeOK, RecordsOK, Apply
  <2>3. writes[o] + 1 \in Nat /\ TargetOf[o] \in Targets
    BY <2>1, ConstantsAssumption DEF TypeOK, HistoryOK
  <2>4. HistoryOK'
    BY <1>7, <2>1, <2>3 DEF TypeOK, HistoryOK, Apply
  <2> QED
    BY <1>7, <2>1, <2>2, <2>4, KeepType DEF TypeOK, Apply
<1>8. CASE ApplyFails(w)
  BY <1>8, IdleType, DropLocksType, KeepType DEF TypeOK, ApplyFails
<1>9. CASE Prove(w)
  <2>1. o \in Ops
    BY <1>9 DEF TypeOK, ProcsOK, Prove
  <2>2. rec' \in [Ops -> Record]
    BY <1>9, <2>1, TransitionType DEF TypeOK, RecordsOK, Prove, OperationStatus
  <2>3. RecordsOK'
    BY <1>9, <2>2 DEF TypeOK, RecordsOK, Prove
  <2>4. ProcsOK' /\ LocksOK'
    BY <1>9, IdleType, GotoType, DropLocksType DEF TypeOK, Prove, Labels
  <2> QED
    BY <1>9, <2>3, <2>4, KeepType DEF TypeOK, Prove
<1>10. CASE Settle(w)
  BY <1>10, MoveType DEF Settle, Labels
<1>11. CASE Release(w)
  <2>1. o \in Ops
    BY <1>11 DEF TypeOK, ProcsOK, Release
  <2> QED
    BY <1>11, <2>1, EndClaimType, IdleType, KeepType DEF TypeOK, Release
<1>12. CASE LockTimeout(w)
  BY <1>12, MoveType DEF LockTimeout, Blocked, Labels
<1> QED
  BY <1>1, <1>2, <1>3, <1>4, <1>5, <1>6, <1>7, <1>8, <1>9, <1>10, <1>11, <1>12 DEF Step

(* A crash of a worker keeps the types. *)
LEMMA CrashType ==
  ASSUME TypeOK, NEW w \in Workers, Crash(w)
  PROVE  TypeOK'
<1>1. HistoryOK'
  BY DEF TypeOK, HistoryOK, Crash, history
<1> QED
  BY <1>1, IdleType, DropLocksType, KeepType DEF TypeOK, Crash

LEMMA StutterType ==
  ASSUME TypeOK, UNCHANGED vars
  PROVE  TypeOK'
  BY KeepType DEF TypeOK, vars

(* Every step keeps the types. *)
LEMMA TypeStep ==
  ASSUME TypeOK, [Next]_vars
  PROVE  TypeOK'
  BY RequestType, StepType, CrashType, AgentType, RecoveryType, StageType, WorldType, StutterType
     DEF Next

(* Every state of the control plane is typed: no interleaving, crash or    *)
(* timeout makes a record, a claim, a lock or a worker ill-formed.         *)
THEOREM TypeCorrect == Spec => []TypeOK
<1>1. TypeOK /\ [Next]_vars => TypeOK'
  BY TypeStep
<1> QED
  BY TypeInit, <1>1, PTL DEF Spec

-----------------------------------------------------------------------------
(***************************************************************************)
(* The mutation boundary: while a worker is inside, nobody else can move   *)
(* what its authority rests on.  The argument is interference freedom: the *)
(* locks a worker holds rule out every other writer of the state it relies *)
(* on (lemmas ...Untouched), so the facts established by the boundary's    *)
(* compare-and-set last until the worker itself leaves.                    *)
(***************************************************************************)

Inside(w) == pc[w] \in InBoundary

Holding(w) ==
    LET o == call[w].op
    IN  /\ taskLock[TaskOf[o]] = w
        /\ lifeLock[TaskOf[o]] = w
        /\ targetLock[TargetOf[o]] = w

(* What the compare-and-set established. *)
Authority(w) ==
    LET o == call[w].op
        k == TaskOf[o]
    IN  /\ Own(o) /\ active[TargetOf[o]].gen = call[w].claim
        /\ open[k] /\ stage[k] = "ACTIVE"
        /\ \A p \in OpsOf(k) : ~Aborted(p)

(* Where the operation stands inside the boundary. *)
Standing(w) ==
    LET o == call[w].op
        t == TargetOf[o]
    IN  /\ pc[w] \in {"write", "prove"} => rec[o].status = "STARTED"
        /\ pc[w] \in {"start", "write"} => file[t] = rec[o].pre \/ author[t] = None

(* Only an operation found STARTED is driven as a RETRY. *)
DrivenIsStarted(w) ==
    pc[w] = "drive" \/ call[w].retry => call[w].status = "STARTED"

AllHolding == \A w \in Workers : Inside(w) => Holding(w)

BoundaryInv ==
    \A w \in Workers :
        /\ DrivenIsStarted(w)
        /\ Inside(w) => Holding(w) /\ Authority(w) /\ Standing(w)

(* A step that leaves alone all that a worker inside relies on. *)
Untouched(w) ==
    LET o == call[w].op
        k == TaskOf[o]
        t == TargetOf[o]
    IN  /\ pc'[w] = pc[w] /\ call'[w] = call[w]
        /\ taskLock'[k] = w /\ lifeLock'[k] = w /\ targetLock'[t] = w
        /\ rec'[o] = rec[o] /\ writes'[o] = writes[o]
        /\ active'[t] = active[t]
        /\ open'[k] = open[k] /\ stage'[k] = stage[k]
        /\ \A p \in OpsOf(k) : accepted'[p] = accepted[p]
        /\ (file'[t] = file[t] /\ author'[t] = author[t]) \/ author'[t] = None

-----------------------------------------------------------------------------
(* A worker inside is a worker on an operation, and None is not a worker. *)
LEMMA InsideFacts ==
  ASSUME TypeOK, AllHolding, NEW w \in Workers, Inside(w)
  PROVE  /\ call[w].op \in Ops
         /\ TaskOf[call[w].op] \in Tasks /\ TargetOf[call[w].op] \in Targets
         /\ Holding(w)
         /\ ~TaskFree(TaskOf[call[w].op])
         /\ ~LifeFree(TaskOf[call[w].op])
         /\ ~TargetFree(TargetOf[call[w].op])
<1>1. call[w].op \in Ops
  BY DEF TypeOK, ProcsOK, Inside, InBoundary
<1> QED
  BY <1>1, ConstantsAssumption DEF AllHolding, Holding, TaskFree, LifeFree, TargetFree

(* Two workers inside work on different TASKs and on different targets. *)
LEMMA InsideExclusive ==
  ASSUME TypeOK, AllHolding, NEW w \in Workers, NEW v \in Workers, v # w,
         Inside(w), Inside(v)
  PROVE  /\ TaskOf[call[v].op] # TaskOf[call[w].op]
         /\ TargetOf[call[v].op] # TargetOf[call[w].op]
  BY InsideFacts DEF Holding

(* Ending a claim changes at most the operation's own target. *)
LEMMA EndClaimFrame ==
  ASSUME NEW o, EndClaim(o)
  PROVE  active' = active \/ active' = [active EXCEPT ![TargetOf[o]] = NoClaim]
  BY DEF EndClaim, claims

(* Stage moves wait for the mutation lock, closeout for both locks. *)
LEMMA StageUntouched ==
  ASSUME TypeOK, AllHolding, NEW w \in Workers, Inside(w), NEW k \in Tasks, Stage(k)
  PROVE  Untouched(w)
<1> DEFINE o == call[w].op
<1>1. ~TaskFree(TaskOf[o]) /\ ~LifeFree(TaskOf[o]) /\ Holding(w) /\ TaskOf[o] \in Tasks
  BY InsideFacts
<1>2. ASSUME NEW s, SetStage(k, s), LifeFree(k)
      PROVE  Untouched(w)
  BY <1>1, <1>2 DEF SetStage, Untouched, Holding, TypeOK, RecordsOK, claims, locks, procs, history
<1>3. CASE AskActivation(k)
  BY <1>1, <1>3 DEF AskActivation, Untouched, Holding, claims, locks, procs, history
<1>4. CASE CloseTask(k)
  BY <1>1, <1>4 DEF CloseTask, Untouched, Holding, TypeOK, RecordsOK, claims, locks, procs, history
<1> QED
  BY <1>2, <1>3, <1>4
     DEF Stage, StageMove, BlockPreparation, Activate, Verify

(* Recovery waits for the TASK lock, and for the mutation lock or for the  *)
(* locks of all the targets it may touch.                                  *)
LEMMA RecoveryUntouched ==
  ASSUME TypeOK, AllHolding, NEW w \in Workers, Inside(w), Recovery
  PROVE  Untouched(w)
<1> DEFINE o == call[w].op
           k == TaskOf[o]
<1>1. /\ ~TaskFree(k) /\ ~TargetFree(TargetOf[o]) /\ Holding(w)
      /\ o \in Ops /\ k \in Tasks /\ TargetOf[o] \in Targets
  BY InsideFacts
<1>2. ASSUME NEW j \in Tasks, NEW s, SetStage(j, s), TaskFree(j)
      PROVE  Untouched(w)
  BY <1>1, <1>2 DEF SetStage, Untouched, Holding, TypeOK, RecordsOK, claims, locks, procs, history
<1>3. ASSUME NEW p \in Ops, SettleRecovery(p)
      PROVE  Untouched(w)
  <2>1. TaskOf[p] # k /\ p # o
    BY <1>1, <1>3 DEF SettleRecovery
  <2>2. rec'[o] = rec[o]
    BY <1>1, <1>3, <2>1, SettlementParts DEF RecordSettlement, TypeOK, RecordsOK
  <2>3. stage'[k] = stage[k]
    BY <1>1, <1>3, <2>1 DEF SettleRecovery, TypeOK, RecordsOK
  <2> QED
    BY <1>1, <1>3, <2>2, <2>3 DEF SettleRecovery, Untouched, Holding, claims, locks, procs, history
<1>4. ASSUME NEW p \in Ops, Restore(p)
      PROVE  Untouched(w)
  <2>1. TargetOf[o] \notin Manifest(TaskOf[p])
    BY <1>1, <1>4 DEF Restore, TargetsFree
  <2>2. active'[TargetOf[o]] = active[TargetOf[o]]
    BY <1>1, <1>4, <2>1 DEF Restore
  <2>3. file'[TargetOf[o]] = file[TargetOf[o]] /\ author'[TargetOf[o]] = author[TargetOf[o]]
    BY <1>1, <1>4, <2>1 DEF Restore
  <2> QED
    BY <1>1, <1>4, <2>2, <2>3 DEF Restore, Untouched, Holding, locks, procs
<1> QED
  BY <1>2, <1>3, <1>4, RecoveryKinds

(* Resolutions and API transitions wait for the TASK lock, API ownership   *)
(* requests for the target lock as well.                                   *)
LEMMA AgentUntouched ==
  ASSUME TypeOK, AllHolding, NEW w \in Workers, Inside(w), Agent
  PROVE  Untouched(w)
<1> DEFINE o == call[w].op
<1>1. /\ ~TaskFree(TaskOf[o]) /\ ~TargetFree(TargetOf[o])
      /\ Holding(w) /\ o \in Ops
  BY InsideFacts
<1>2. ASSUME NEW p \in Ops, ApiAcquire(p)
      PROVE  Untouched(w)
  BY <1>1, <1>2
     DEF ApiAcquire, Grant, Untouched, Holding, TypeOK, ClaimsOK, records, locks, procs, history
<1>3. ASSUME NEW p \in Ops, ApiRelease(p)
      PROVE  Untouched(w)
  <2>1. TargetOf[p] # TargetOf[o]
    BY <1>1, <1>3 DEF ApiRelease
  <2>2. active'[TargetOf[o]] = active[TargetOf[o]]
    BY <2>1, <1>3, InsideFacts, EndClaimFrame DEF ApiRelease, TypeOK, ClaimsOK
  <2> QED
    BY <1>1, <1>3, <2>2 DEF ApiRelease, Untouched, Holding, records, locks, procs, history
<1>4. ASSUME NEW p \in Ops, ApiTransition(p)
      PROVE  Untouched(w)
  BY <1>1, <1>4
     DEF ApiTransition, Transition, Untouched, Holding, TypeOK, RecordsOK,
         claims, locks, procs, history
<1>5. ASSUME NEW p \in Ops, NEW a \in ResolutionAction, Resolve(p, a)
      PROVE  Untouched(w)
  BY <1>1, <1>5
     DEF Resolve, Untouched, Holding, OpsOf, TypeOK, RecordsOK, claims, locks, procs, history
<1> QED
  BY <1>2, <1>3, <1>4, <1>5 DEF Agent

(* Outside editors take no lock, but what they write is nobody's effect. *)
LEMMA WorldUntouched ==
  ASSUME TypeOK, AllHolding, NEW w \in Workers, Inside(w), World
  PROVE  Untouched(w)
<1> DEFINE o == call[w].op
<1>1. Holding(w) /\ o \in Ops /\ TargetOf[o] \in Targets
  BY InsideFacts
<1>2. ASSUME NEW t \in Targets, ForeignEdit(t)
      PROVE  Untouched(w)
  BY <1>1, <1>2
     DEF ForeignEdit, Untouched, Holding, TypeOK, RecordsOK, HistoryOK, claims, locks, procs
<1>3. ASSUME NEW k \in Tasks, RestorePointBreaks(k)
      PROVE  Untouched(w)
  BY <1>1, <1>3 DEF RestorePointBreaks, Untouched, Holding, claims, locks, procs, history
<1> QED
  BY <1>2, <1>3 DEF World

(* Another worker may declare or redeliver requests only of other TASKs. *)
LEMMA RequestUntouched ==
  ASSUME TypeOK, AllHolding, NEW w \in Workers, Inside(w),
         NEW v \in Workers, v # w, Request(v)
  PROVE  Untouched(w)
<1> DEFINE o == call[w].op
<1>1. ~TaskFree(TaskOf[o]) /\ Holding(w) /\ o \in Ops
  BY InsideFacts
<1>2. ASSUME NEW p \in Ops, NewIntent(v, p)
      PROVE  Untouched(w)
  BY <1>1, <1>2
     DEF NewIntent, Untouched, Holding, TypeOK, RecordsOK, ProcsOK, claims, locks, history
<1>3. ASSUME NEW p \in Ops, ReplayIntent(v, p)
      PROVE  Untouched(w)
  BY <1>1, <1>3
     DEF ReplayIntent, Untouched, Holding, TypeOK, ProcsOK, records, claims, locks, history
<1> QED
  BY <1>2, <1>3 DEF Request

(* A worker that only moves on disturbs no other. *)
LEMMA MoveUntouched ==
  ASSUME TypeOK, AllHolding, NEW w \in Workers, Inside(w),
         NEW v \in Workers, v # w, NEW l, Goto(v, l) \/ Idle(v),
         UNCHANGED <<records, claims, locks, history>>
  PROVE  Untouched(w)
<1>1. Holding(w)
  BY InsideFacts
<1>2. pc'[w] = pc[w] /\ call'[w] = call[w]
  BY DEF Goto, Idle, TypeOK, ProcsOK
<1> QED
  BY <1>1, <1>2 DEF Untouched, Holding, records, claims, locks, history

(* A worker that drops its locks leaves the locks of the others alone. *)
LEMMA DropUntouched ==
  ASSUME TypeOK, AllHolding, NEW w \in Workers, Inside(w),
         NEW v \in Workers, v # w, DropLocks(v) \/ UNCHANGED locks
  PROVE  /\ taskLock'[TaskOf[call[w].op]] = w
         /\ lifeLock'[TaskOf[call[w].op]] = w
         /\ targetLock'[TargetOf[call[w].op]] = w
  BY InsideFacts DEF Holding, DropLocks, locks

(* Every step of another worker: before its boundary it needs a free lock  *)
(* of this TASK or target, inside it works on others.                      *)
LEMMA StepUntouched ==
  ASSUME TypeOK, AllHolding, NEW w \in Workers, Inside(w),
         NEW v \in Workers, v # w, Step(v) \/ Crash(v)
  PROVE  Untouched(w)
<1> DEFINE o == call[w].op
           p == call[v].op
<1>1. /\ ~TaskFree(TaskOf[o]) /\ ~LifeFree(TaskOf[o]) /\ ~TargetFree(TargetOf[o])
      /\ Holding(w) /\ o \in Ops
  BY InsideFacts
<1>2. Inside(v) => TaskOf[p] # TaskOf[o] /\ TargetOf[p] # TargetOf[o]
  BY InsideExclusive
<1>3. CASE Drive(v)
  BY <1>1, <1>3
     DEF Drive, Idle, Untouched, Holding, TypeOK, ProcsOK, records, claims, locks, history
<1>4. CASE Admit(v)
  BY <1>4, MoveUntouched DEF Admit
<1>5. CASE Acquire(v)
  <2>1. TargetOf[p] # TargetOf[o]
    BY <1>1, <1>5 DEF Acquire
  <2>2. active'[TargetOf[o]] = active[TargetOf[o]]
    BY <2>1, <1>5, <1>1, InsideFacts DEF Acquire, Grant, claims, TypeOK, ClaimsOK
  <2>3. pc'[w] = pc[w] /\ call'[w] = call[w]
    BY <1>5 DEF Acquire, Goto, TypeOK, ProcsOK
  <2> QED
    BY <1>1, <1>5, <2>2, <2>3 DEF Acquire, Untouched, Holding, records, locks, history
<1>6. CASE EnterBoundary(v)
  <2>1. TaskOf[p] # TaskOf[o] /\ TargetOf[p] # TargetOf[o]
    BY <1>1, <1>6 DEF EnterBoundary, BoundaryFree
  <2>2. /\ taskLock'[TaskOf[o]] = w
        /\ lifeLock'[TaskOf[o]] = w
        /\ targetLock'[TargetOf[o]] = w
    BY <2>1, <1>6, <1>1, InsideFacts
       DEF EnterBoundary, TakeLocks, Holding, TypeOK, LocksOK
  <2>3. pc'[w] = pc[w] /\ call'[w] = call[w]
    BY <1>6 DEF EnterBoundary, Goto, TypeOK, ProcsOK
  <2> QED
    BY <1>6, <2>2, <2>3 DEF EnterBoundary, Untouched, records, claims, history
<1>7. CASE RefuseBoundary(v)
  BY <1>7, MoveUntouched DEF RefuseBoundary
<1>8. CASE Start(v)
  <2>1. TaskOf[p] # TaskOf[o] /\ p # o
    BY <1>2, <1>8 DEF Start, Inside, InBoundary
  <2>2. rec'[o] = rec[o]
    BY <2>1, <1>8, <1>1 DEF Start, Transition, TypeOK, RecordsOK
  <2>3. pc'[w] = pc[w] /\ call'[w] = call[w]
    BY <1>8 DEF Start, Goto, Idle, TypeOK, ProcsOK
  <2>4. DropLocks(v) \/ UNCHANGED locks
    BY <1>8 DEF Start
  <2> QED
    BY <1>8, <2>2, <2>3, <2>4, DropUntouched DEF Start, Untouched, claims, history
<1>9. CASE Apply(v)
  <2>1. TargetOf[p] # TargetOf[o] /\ p # o
    BY <1>2, <1>9 DEF Apply, Inside, InBoundary
  <2>2. /\ file'[TargetOf[o]] = file[TargetOf[o]]
        /\ author'[TargetOf[o]] = author[TargetOf[o]]
        /\ writes'[o] = writes[o]
    BY <2>1, <1>9, <1>1, InsideFacts DEF Apply, TypeOK, RecordsOK, HistoryOK
  <2>3. pc'[w] = pc[w] /\ call'[w] = call[w]
    BY <1>9 DEF Apply, Goto, TypeOK, ProcsOK
  <2> QED
    BY <1>1, <1>9, <2>2, <2>3 DEF Apply, Untouched, Holding, claims, locks
<1>10. CASE ApplyFails(v) \/ Crash(v)
  <2>1. pc'[w] = pc[w] /\ call'[w] = call[w]
    BY <1>10 DEF ApplyFails, Crash, Idle, TypeOK, ProcsOK
  <2> QED
    BY <1>10, <2>1, DropUntouched DEF ApplyFails, Crash, Untouched, records, claims, history
<1>11. CASE Prove(v)
  <2>1. TaskOf[p] # TaskOf[o] /\ p # o
    BY <1>2, <1>11 DEF Prove, Inside, InBoundary
  <2>2. rec'[o] = rec[o]
    BY <2>1, <1>11, <1>1 DEF Prove, Transition, TypeOK, RecordsOK
  <2>3. pc'[w] = pc[w] /\ call'[w] = call[w]
    BY <1>11 DEF Prove, Goto, Idle, TypeOK, ProcsOK
  <2> QED
    BY <1>11, <2>2, <2>3, DropUntouched DEF Prove, Untouched, claims, history
<1>12. CASE Settle(v)
  BY <1>12, MoveUntouched DEF Settle
<1>13. CASE Release(v)
  <2>1. TargetOf[p] # TargetOf[o]
    BY <1>1, <1>13 DEF Release
  <2>2. active'[TargetOf[o]] = active[TargetOf[o]]
    BY <2>1, <1>13, <1>1, InsideFacts, EndClaimFrame DEF Release, TypeOK, ClaimsOK
  <2>3. pc'[w] = pc[w] /\ call'[w] = call[w]
    BY <1>13 DEF Release, Idle, TypeOK, ProcsOK
  <2> QED
    BY <1>1, <1>13, <2>2, <2>3 DEF Release, Untouched, Holding, records, locks, history
<1>14. CASE LockTimeout(v)
  BY <1>14, MoveUntouched DEF LockTimeout
<1> QED
  BY <1>3, <1>4, <1>5, <1>6, <1>7, <1>8, <1>9, <1>10, <1>11, <1>12, <1>13, <1>14 DEF Step

-----------------------------------------------------------------------------
(* The invariant of the boundary *)

(* What a worker relies on, and nobody touched, still holds. *)
LEMMA UntouchedInv ==
  ASSUME TypeOK, NEW w \in Workers, Inside(w), Holding(w), Authority(w), Standing(w),
         Untouched(w)
  PROVE  Holding(w)' /\ Authority(w)' /\ Standing(w)'
<1> DEFINE o == call[w].op
           k == TaskOf[o]
<1>1. call'[w] = call[w] /\ pc'[w] = pc[w]
  BY DEF Untouched
<1>2. Holding(w)'
  BY <1>1 DEF Holding, Untouched
<1>3. \A p \in OpsOf(k) : ~Aborted(p)'
  BY DEF Untouched, Authority, Aborted
<1>4. Authority(w)'
  BY <1>1, <1>3 DEF Authority, Untouched, Own
<1>5. Standing(w)'
  BY <1>1 DEF Standing, Untouched
<1> QED
  BY <1>2, <1>4, <1>5

(* Entering the boundary establishes what the worker relies on. *)
LEMMA EnterInv ==
  ASSUME TypeOK, NEW w \in Workers, EnterBoundary(w)
  PROVE  Holding(w)' /\ Authority(w)' /\ Standing(w)'
<1> DEFINE o == call[w].op
           k == TaskOf[o]
<1>1. o \in Ops /\ k \in Tasks /\ TargetOf[o] \in Targets
  BY ConstantsAssumption DEF TypeOK, ProcsOK, EnterBoundary
<1>2. call' = call /\ pc' = [pc EXCEPT ![w] = "start"]
  BY DEF EnterBoundary, Goto
<1>3. Holding(w)'
  BY <1>1, <1>2 DEF EnterBoundary, TakeLocks, Holding, TypeOK, LocksOK
<1>4. \A p \in OpsOf(k) : ~Aborted(p)'
  BY DEF EnterBoundary, Authorized, ExecutionAdmitted, DestructiveDisposition, Aborted, records
<1>5. Authority(w)'
  BY <1>1, <1>2, <1>4
     DEF EnterBoundary, Authorized, ExecutionAdmitted, Authority, Own, records, claims
<1>6. Standing(w)'
  BY <1>1, <1>2 DEF EnterBoundary, Authorized, Standing, TypeOK, ProcsOK, records, history
<1> QED
  BY <1>3, <1>5, <1>6

(* Inside, a worker's own steps keep what it relies on or leave.  A start  *)
(* that is not a RETRY persists STARTED; a RETRY found it persisted.       *)
LEMMA InsideStepInv ==
  ASSUME TypeOK, NEW w \in Workers, DrivenIsStarted(w),
         Inside(w), Holding(w), Authority(w), Standing(w), Step(w) \/ Crash(w), Inside(w)'
  PROVE  Holding(w)' /\ Authority(w)' /\ Standing(w)'
<1> DEFINE o == call[w].op
           t == TargetOf[o]
<1>1. o \in Ops /\ t \in Targets
  BY ConstantsAssumption DEF TypeOK, ProcsOK, Inside, InBoundary
<1>2. \/ Start(w) /\ pc' = [pc EXCEPT ![w] = "write"]
      \/ Apply(w)
  BY DEF Step, Drive, Admit, Acquire, EnterBoundary, RefuseBoundary, Start, ApplyFails, Prove,
         Settle, Release, LockTimeout, Blocked, Crash, Goto, Idle, Inside, InBoundary,
         TypeOK, ProcsOK
<1>3. CASE Start(w) /\ pc' = [pc EXCEPT ![w] = "write"]
  <2>1. Goto(w, "write") /\ UNCHANGED locks
    BY <1>3 DEF Start, Idle, TypeOK, ProcsOK
  <2>2. /\ rec[o].status = call[w].status
        /\ IF call[w].retry THEN UNCHANGED rec ELSE Transition(o, "STARTED")
    BY <1>3 DEF Start, Idle, TypeOK, ProcsOK
  <2>3. rec'[o].status = "STARTED" /\ rec'[o].pre = rec[o].pre
    BY <1>1, <2>2 DEF DrivenIsStarted, Transition, TypeOK, RecordsOK
  <2>4. Holding(w)'
    BY <2>1 DEF Holding, Goto, locks
  <2>5. Authority(w)'
    BY <1>3, <2>1 DEF Start, Authority, Own, Aborted, Goto, claims
  <2>6. pc[w] = "start" /\ call' = call /\ file' = file /\ author' = author
    BY <1>3, <2>1 DEF Start, Goto, history
  <2>7. Standing(w)'
    BY <2>3, <2>6 DEF Standing
  <2> QED
    BY <2>4, <2>5, <2>7
<1>4. CASE Apply(w)
  <2>1. pc[w] = "write" /\ pc'[w] = "prove" /\ call' = call
    BY <1>4 DEF Apply, Goto, TypeOK, ProcsOK
  <2>2. Holding(w)' /\ Authority(w)'
    BY <1>4, <2>1 DEF Apply, Holding, Authority, Own, Aborted, claims, locks
  <2>3. Standing(w)'
    BY <1>4, <2>1 DEF Apply, Standing
  <2> QED
    BY <2>2, <2>3
<1> QED
  BY <1>2, <1>3, <1>4

(* A worker's place and what it read change only by its own steps. *)
LEMMA OthersKeepCall ==
  ASSUME TypeOK, NEW w \in Workers,
         \/ \E v \in Workers \ {w} : Request(v) \/ Step(v) \/ Crash(v)
         \/ Agent \/ Recovery
         \/ \E k \in Tasks : Stage(k)
         \/ World
         \/ UNCHANGED vars
  PROVE  pc'[w] = pc[w] /\ call'[w] = call[w]
<1>1. ASSUME NEW v \in Workers \ {w}, Request(v)
      PROVE  pc'[w] = pc[w] /\ call'[w] = call[w]
  BY <1>1 DEF Request, NewIntent, ReplayIntent, TypeOK, ProcsOK
<1>2. ASSUME NEW v \in Workers \ {w}, Step(v) \/ Crash(v)
      PROVE  pc'[w] = pc[w] /\ call'[w] = call[w]
  BY <1>2 DEF Step, Drive, Admit, Acquire, EnterBoundary, RefuseBoundary, Start, Apply,
              ApplyFails, Prove, Settle, Release, LockTimeout, Crash, Goto, Idle, TypeOK, ProcsOK
<1>3. CASE Agent
  BY <1>3 DEF Agent, ApiAcquire, ApiRelease, ApiTransition, Resolve, procs
<1>4. CASE \E k \in Tasks : Stage(k)
  BY <1>4 DEF Stage, StageMove, AskActivation, BlockPreparation, Activate, Verify, CloseTask,
              SetStage, procs
<1>5. CASE World
  BY <1>5 DEF World, ForeignEdit, RestorePointBreaks, procs
<1>6. CASE UNCHANGED vars
  BY <1>6 DEF vars, procs
<1>7. CASE Recovery
  BY <1>7, RecoveryKinds DEF SetStage, SettleRecovery, Restore, procs
<1> QED
  BY <1>1, <1>2, <1>3, <1>4, <1>5, <1>6, <1>7

(* A retry is driven only from a record that was found STARTED. *)
LEMMA DrivenKept ==
  ASSUME TypeOK, [Next]_vars, NEW w \in Workers, DrivenIsStarted(w)
  PROVE  DrivenIsStarted(w)'
<1>1. CASE Request(w)
  BY <1>1 DEF Request, NewIntent, ReplayIntent, Snapshot, Continuation, Completed,
              DrivenIsStarted, TypeOK, ProcsOK
<1>2. CASE Idle(w)
  BY <1>2 DEF Idle, NoCall, DrivenIsStarted, TypeOK, ProcsOK
<1>3. ASSUME NEW l, l # "drive", Goto(w, l)
      PROVE  DrivenIsStarted(w)'
  BY <1>3 DEF Goto, DrivenIsStarted, TypeOK, ProcsOK
<1>4. CASE Drive(w)
  BY <1>2, <1>4 DEF Drive, DrivenIsStarted, TypeOK, ProcsOK, Call
<1>5. CASE Acquire(w)
  <2>1. ASSUME NEW c, call' = [call EXCEPT ![w].claim = c], pc' = [pc EXCEPT ![w] = "boundary"]
        PROVE  DrivenIsStarted(w)'
    BY <2>1 DEF DrivenIsStarted, TypeOK, ProcsOK, Call
  <2> QED
    BY <1>3, <1>5, <2>1 DEF Acquire
<1>6. CASE Step(w) \/ Crash(w)
  BY <1>2, <1>3, <1>4, <1>5, <1>6
     DEF Step, Admit, EnterBoundary, RefuseBoundary, Start, Apply, ApplyFails, Prove, Settle,
         Release, LockTimeout, Crash
<1>7. CASE pc'[w] = pc[w] /\ call'[w] = call[w]
  BY <1>7 DEF DrivenIsStarted
<1> QED
  BY <1>1, <1>6, <1>7, OthersKeepCall DEF Next

(* Nobody but the worker itself ends or disturbs its stay inside. *)
LEMMA InterferenceFree ==
  ASSUME TypeOK, AllHolding, NEW w \in Workers, Inside(w),
         \/ \E v \in Workers \ {w} : Request(v) \/ Step(v) \/ Crash(v)
         \/ Agent \/ Recovery
         \/ \E k \in Tasks : Stage(k)
         \/ World
         \/ UNCHANGED vars
  PROVE  Untouched(w)
<1>1. CASE UNCHANGED vars
  BY <1>1, InsideFacts DEF Untouched, Holding, vars, records, claims, locks, procs, history
<1> QED
  BY <1>1, RequestUntouched, StepUntouched, AgentUntouched, RecoveryUntouched, StageUntouched,
     WorldUntouched

(* The invariant of the boundary is inductive. *)
LEMMA BoundaryStep ==
  ASSUME TypeOK, BoundaryInv, [Next]_vars
  PROVE  BoundaryInv'
<1> SUFFICES ASSUME NEW w \in Workers
             PROVE  /\ DrivenIsStarted(w)'
                    /\ Inside(w)' => Holding(w)' /\ Authority(w)' /\ Standing(w)'
  BY DEF BoundaryInv
<1>1. AllHolding
  BY DEF BoundaryInv, AllHolding
<1>2. DrivenIsStarted(w)'
  BY DrivenKept DEF BoundaryInv
<1>3. ASSUME Inside(w)'
      PROVE  Holding(w)' /\ Authority(w)' /\ Standing(w)'
  <2>1. CASE ~Inside(w)
    <3>1. ~(\/ \E v \in Workers \ {w} : Request(v) \/ Step(v) \/ Crash(v)
            \/ Agent \/ Recovery
            \/ \E k \in Tasks : Stage(k)
            \/ World
            \/ UNCHANGED vars)
      BY <1>3, <2>1, OthersKeepCall DEF Inside
    <3>2. ~Request(w)
      BY <1>3 DEF Request, NewIntent, ReplayIntent, Continuation, Completed, Inside, InBoundary,
                  TypeOK, ProcsOK
    <3>3. Step(w) \/ Crash(w)
      BY <3>1, <3>2 DEF Next
    <3>4. EnterBoundary(w)
      BY <1>3, <2>1, <3>3
         DEF Step, Drive, Admit, Acquire, RefuseBoundary, Start, Apply, ApplyFails, Prove,
             Settle, Release, LockTimeout, Crash, Goto, Idle, Inside, InBoundary, TypeOK, ProcsOK
    <3> QED
      BY <3>4, EnterInv
  <2>2. CASE Inside(w) /\ (Request(w) \/ Step(w) \/ Crash(w))
    <3>1. ~Request(w)
      BY <2>2 DEF Request, NewIntent, ReplayIntent, Inside, InBoundary
    <3> QED
      BY <1>3, <2>2, <3>1, InsideStepInv DEF BoundaryInv
  <2>3. CASE Inside(w) /\ ~(Request(w) \/ Step(w) \/ Crash(w))
    <3>1. Untouched(w)
      BY <1>1, <2>3, InterferenceFree DEF Next
    <3> QED
      BY <2>3, <3>1, UntouchedInv DEF BoundaryInv
  <2> QED
    BY <2>1, <2>2, <2>3
<1> QED
  BY <1>2, <1>3

LEMMA BoundaryInit == Init => BoundaryInv
  BY DEF Init, BoundaryInv, DrivenIsStarted, Inside, InBoundary, NoCall

(* The ways physical writes are counted. *)
LEMMA WriteSteps ==
  ASSUME TypeOK, [Next]_vars, NEW o \in Ops
  PROVE  writes'[o] = writes[o] \/ \E w \in Workers : Apply(w) /\ call[w].op = o
<1>1. ASSUME NEW w \in Workers, Apply(w)
      PROVE  writes'[o] = writes[o] \/ call[w].op = o
  BY <1>1 DEF Apply, TypeOK, HistoryOK
<1>2. CASE writes' = writes
  BY <1>2
<1>3. CASE Recovery
  BY <1>3, RecoveryKinds DEF SetStage, SettleRecovery, Restore, history
<1> QED
  BY <1>1, <1>2, <1>3
     DEF Next, Request, NewIntent, ReplayIntent, Step, Drive, Admit, Acquire, EnterBoundary,
         RefuseBoundary, Start, ApplyFails, Prove, Settle, Release, LockTimeout, Crash,
         Agent, ApiAcquire, ApiRelease, ApiTransition, Resolve,
         Stage, StageMove, AskActivation, BlockPreparation, Activate, Verify,
         CloseTask, SetStage, World, ForeignEdit, RestorePointBreaks, history, vars

(* The boundary keeps its locks, its authority and its operation's         *)
(* standing from the compare-and-set to the end of the proof.              *)
THEOREM BoundaryKept == Spec => [](TypeOK /\ BoundaryInv)
<1>1. TypeOK /\ BoundaryInv /\ [Next]_vars => (TypeOK /\ BoundaryInv)'
  BY BoundaryStep, TypeStep
<1> QED
  BY TypeInit, BoundaryInit, <1>1, PTL DEF Spec

(* Writes happen only under authority that cannot move (AuthorityHolds). *)
THEOREM AuthorityIsHeld == Spec => []AuthorityHolds
<1>1. TypeOK /\ BoundaryInv => AuthorityHolds
  <2> SUFFICES ASSUME TypeOK, BoundaryInv PROVE AuthorityHolds
    OBVIOUS
  <2>1. AllHolding
    BY DEF BoundaryInv, AllHolding
  <2>2. \A w \in Workers : Inside(w) => Exclusive(w)
    BY <2>1, InsideExclusive DEF Exclusive, Inside
  <2> QED
    BY <2>2 DEF BoundaryInv, Authority, AuthorityHolds, Inside
<1> QED
  BY BoundaryKept, <1>1, PTL

(* No tracked mutation replaces bytes of another one it did not observe. *)
THEOREM NoUpdateIsLost == Spec => NoLostUpdate
<1>1. TypeOK /\ BoundaryInv /\ [Next]_vars => [\A o \in Ops : ReplacesWhatItSaw(o)]_vars
  <2> SUFFICES ASSUME TypeOK, BoundaryInv, Next, NEW o \in Ops, writes'[o] > writes[o]
               PROVE  file[TargetOf[o]] = rec[o].pre \/ author[TargetOf[o]] = None
    BY DEF ReplacesWhatItSaw
  <2>1. PICK w \in Workers : Apply(w) /\ call[w].op = o
    BY WriteSteps DEF TypeOK, HistoryOK
  <2> QED
    BY <2>1 DEF BoundaryInv, Standing, Inside, InBoundary, Apply
<1> QED
  BY BoundaryKept, <1>1, PTL DEF Spec, NoLostUpdate
====
