---- MODULE OwnershipProofs ----
(***************************************************************************)
(* Ownership and fate: an effect keeps its owner until a decision closes   *)
(* its fate, a released basis stays released, and a verified stage or a    *)
(* completed TASK leaves no open effect behind.                            *)
(*                                                                         *)
(* Each invariant needs to know only in which ways a step can change a     *)
(* record, a claim, a stage or a resolution; those ways are the lemmas     *)
(* ...Steps of the first part.                                             *)
(***************************************************************************)
EXTENDS MutationProofs

(* The ways one record changes: declared, one lifecycle step forward, or   *)
(* settled, which makes it VERIFIED or leaves its status alone.            *)
Declared(o) ==
    /\ rec[o].status = "NONE"
    /\ rec'[o].status = "INTENT" /\ rec'[o].rev = 1
Advanced(o) ==
    /\ <<rec[o].status, rec'[o].status>> \in Allowed
    /\ rec'[o].rev = rec[o].rev + 1

Concludes(o) ==
    /\ rec[o].status # "NONE"
    /\ rec'[o].rev = rec[o].rev + 1
    /\ rec'[o].status = rec[o].status \/ rec'[o].status = "VERIFIED"

LEMMA TransitionAdvances ==
  ASSUME TypeOK, NEW p \in Ops, NEW s, Transition(p, s), NEW o \in Ops
  PROVE  rec'[o] = rec[o] \/ (open[TaskOf[o]] /\ Advanced(o))
  BY DEF Transition, Advanced, TypeOK, RecordsOK

LEMMA RecordSteps ==
  ASSUME TypeOK, [Next]_vars, NEW o \in Ops
  PROVE  \/ rec'[o] = rec[o]
         \/ open[TaskOf[o]] /\ (Declared(o) \/ Advanced(o) \/ Concludes(o))
<1>1. ASSUME NEW w \in Workers, NEW p \in Ops, NewIntent(w, p)
      PROVE  rec'[o] = rec[o] \/ (open[TaskOf[o]] /\ Declared(o))
  BY <1>1 DEF NewIntent, Declared, TypeOK, RecordsOK
<1>2. ASSUME NEW w \in Workers, Start(w) \/ Prove(w)
      PROVE  rec'[o] = rec[o] \/ (open[TaskOf[o]] /\ Advanced(o))
  <2>1. call[w].op \in Ops
    BY <1>2 DEF Start, Prove, TypeOK, ProcsOK
  <2> QED
    BY <1>2, <2>1, TransitionAdvances DEF Start, Prove
<1>3. ASSUME NEW p \in Ops, ApiTransition(p)
      PROVE  rec'[o] = rec[o] \/ (open[TaskOf[o]] /\ Advanced(o))
  BY <1>3, TransitionAdvances DEF ApiTransition
<1>4. CASE rec' = rec
  BY <1>4
<1>5. ASSUME NEW p \in Ops, SettleRecovery(p)
      PROVE  rec'[o] = rec[o] \/ (open[TaskOf[o]] /\ Concludes(o))
  <2>1. CASE o = p
    BY <1>5, <2>1, SettlementParts
       DEF SettleRecovery, RecordSettlement, Concludes, TypeOK, RecordsOK
  <2>2. CASE o # p
    BY <1>5, <2>2, SettlementParts DEF RecordSettlement, TypeOK, RecordsOK
  <2> QED
    BY <2>1, <2>2
<1>6. CASE Recovery
  BY <1>5, <1>6, RecoveryKinds DEF SetStage, Restore
<1> QED
  BY <1>1, <1>2, <1>3, <1>4, <1>6
     DEF Next, Request, ReplayIntent, Step, Drive, Admit, Acquire, EnterBoundary,
         RefuseBoundary, Apply, ApplyFails, Settle, Release, LockTimeout, Crash,
         Agent, ApiAcquire, ApiRelease, Resolve,
         Stage, StageMove, AskActivation, BlockPreparation, Activate, Verify,
         CloseTask, SetStage, World, ForeignEdit, RestorePointBreaks, records, vars

(* The ways claims change: one is granted, one ends, or a rollback has     *)
(* taken over and given up those of a restore point.                       *)
LEMMA ClaimSteps ==
  ASSUME TypeOK, [Next]_vars
  PROVE  \/ UNCHANGED claims
         \/ \E p \in Ops, r \in Nat : Grantable(p, r) /\ Grant(p, r) /\ UNCHANGED records
         \/ \E p \in Ops : Releasable(p) /\ EndClaim(p) /\ UNCHANGED records
         \/ \E p \in Ops : Restore(p)
<1>1. ASSUME NEW w \in Workers, Acquire(w)
      PROVE  \/ UNCHANGED claims
             \/ \E p \in Ops, r \in Nat : Grantable(p, r) /\ Grant(p, r) /\ UNCHANGED records
  <2>1. call[w].op \in Ops /\ call[w].rev \in Nat
    BY <1>1, CallType DEF Acquire, TypeOK
  <2> QED
    BY <1>1, <2>1 DEF Acquire
<1>2. ASSUME NEW w \in Workers, Release(w)
      PROVE  \/ UNCHANGED claims
             \/ \E p \in Ops : Releasable(p) /\ EndClaim(p) /\ UNCHANGED records
  <2>1. call[w].op \in Ops
    BY <1>2, CallType DEF Release, TypeOK
  <2> QED
    BY <1>2, <2>1 DEF Release, EndClaim
<1>3. ASSUME NEW p \in Ops, ApiAcquire(p)
      PROVE  \E r \in Nat : Grantable(p, r) /\ Grant(p, r) /\ UNCHANGED records
  <2>1. rec[p].rev \in Nat
    BY DEF TypeOK, RecordsOK, Record
  <2> QED
    BY <1>3, <2>1 DEF ApiAcquire
<1>4. ASSUME NEW p \in Ops, ApiRelease(p)
      PROVE  Releasable(p) /\ EndClaim(p) /\ UNCHANGED records
  BY <1>4 DEF ApiRelease
<1>5. CASE UNCHANGED claims
  BY <1>5
<1>6. CASE Recovery
  BY <1>6, RecoveryKinds DEF SetStage, SettleRecovery
<1> QED
  BY <1>1, <1>2, <1>3, <1>4, <1>5, <1>6
     DEF Next, Request, NewIntent, ReplayIntent, Step, Drive, Admit, EnterBoundary,
         RefuseBoundary, Start, Apply, ApplyFails, Prove, Settle, LockTimeout, Crash,
         Agent, ApiTransition, Resolve,
         Stage, StageMove, AskActivation, BlockPreparation, Activate, Verify,
         CloseTask, SetStage, World, ForeignEdit, RestorePointBreaks, vars

(* The ways resolutions change: one is appended, decided on what is there. *)
LEMMA ResolutionSteps ==
  ASSUME TypeOK, [Next]_vars
  PROVE  \/ accepted' = accepted
         \/ \E p \in Ops, a \in ResolutionAction : Resolve(p, a)
<1>1. CASE Recovery
  BY <1>1, RecoveryKinds DEF SetStage, SettleRecovery, Restore
<1> QED
  BY <1>1
     DEF Next, Request, NewIntent, ReplayIntent, Step, Drive, Admit, Acquire, EnterBoundary,
         RefuseBoundary, Start, Apply, ApplyFails, Prove, Settle, Release, LockTimeout, Crash,
         Agent, ApiAcquire, ApiRelease, ApiTransition,
         Stage, StageMove, AskActivation, BlockPreparation, Activate, Verify,
         CloseTask, SetStage, World, ForeignEdit, RestorePointBreaks, records, vars

(* A stage becomes VERIFIED by verification alone: a settlement leaves it  *)
(* VERIFIED only where it is.                                              *)
LEMMA StageSteps ==
  ASSUME TypeOK, [Next]_vars, NEW k \in Tasks, stage'[k] = "VERIFIED"
  PROVE  stage[k] = "VERIFIED" \/ Verify(k)
<1>1. CASE stage' = stage
  BY <1>1
<1>2. ASSUME NEW j \in Tasks, Stage(j)
      PROVE  stage[k] = "VERIFIED" \/ Verify(k)
  BY <1>2
     DEF Stage, StageMove, AskActivation, BlockPreparation, Activate, Verify,
         CloseTask, SetStage, Moves, Startable, TypeOK, RecordsOK
<1>3. ASSUME NEW j, NEW v, stage' = [stage EXCEPT ![j] = v], v = "VERIFIED" => stage[j] = "VERIFIED"
      PROVE  stage[k] = "VERIFIED"
  BY <1>3 DEF TypeOK, RecordsOK
<1>4. ASSUME NEW o \in Ops, SettleRecovery(o)
      PROVE  stage[k] = "VERIFIED"
  BY <1>3, <1>4, TargetStatus DEF SettleRecovery
<1>5. CASE Recovery
  BY <1>1, <1>3, <1>4, <1>5, RecoveryKinds DEF SetStage, Restore
<1> QED
  BY <1>1, <1>2, <1>5
     DEF Next, Request, NewIntent, ReplayIntent, Step, Drive, Admit, Acquire, EnterBoundary,
         RefuseBoundary, Start, Apply, ApplyFails, Prove, Settle, Release, LockTimeout, Crash,
         Agent, ApiAcquire, ApiRelease, ApiTransition, Resolve,
         World, ForeignEdit, RestorePointBreaks, records, vars

(* The only way a TASK completes; no TASK is opened again. *)
LEMMA OpenSteps ==
  ASSUME TypeOK, [Next]_vars, NEW k \in Tasks
  PROVE  /\ ~open[k] => ~open'[k]
         /\ open[k] /\ ~open'[k] => CloseTask(k)
<1>1. CASE open' = open
  BY <1>1
<1>2. ASSUME NEW j \in Tasks, CloseTask(j)
      PROVE  /\ ~open[k] => ~open'[k]
             /\ open[k] /\ ~open'[k] => CloseTask(k)
  BY <1>2 DEF CloseTask, TypeOK, RecordsOK
<1>3. CASE Recovery
  BY <1>3, RecoveryKinds DEF SetStage, SettleRecovery, Restore
<1> QED
  BY <1>1, <1>2, <1>3
     DEF Next, Request, NewIntent, ReplayIntent, Step, Drive, Admit, Acquire, EnterBoundary,
         RefuseBoundary, Start, Apply, ApplyFails, Prove, Settle, Release, LockTimeout, Crash,
         Agent, ApiAcquire, ApiRelease, ApiTransition, Resolve,
         Stage, StageMove, AskActivation, BlockPreparation, Activate, Verify,
         SetStage, World, ForeignEdit, RestorePointBreaks, records, vars

-----------------------------------------------------------------------------
(* Ownership: the active claim of a target is of an operation that names   *)
(* it, bound to a revision its record has reached; released revisions lie  *)
(* below the one that is owned now.                                        *)
OwnedByItsOps ==
    \A t \in Targets :
        active[t].op \in Ops =>
            TargetOf[active[t].op] = t /\ active[t].rev <= rec[active[t].op].rev

ReleasedIsPast ==
    \A o \in Ops, r \in Nat :
        <<o, r>> \in released =>
            r <= rec[o].rev /\ (Own(o) => r < active[TargetOf[o]].rev)

UndeclaredIsFresh == \A o \in Ops : rec[o].status = "NONE" => rec[o].rev = 0

BasisInv == OwnedByItsOps /\ ReleasedIsPast /\ UndeclaredIsFresh

(* Revisions only grow. *)
LEMMA RevisionsGrow ==
  ASSUME TypeOK, UndeclaredIsFresh, [Next]_vars, NEW o \in Ops
  PROVE  rec[o].rev <= rec'[o].rev
<1>1. rec[o].rev \in Nat
  BY DEF TypeOK, RecordsOK, Record
<1>2. CASE rec'[o] = rec[o]
  BY <1>1, <1>2
<1>3. CASE Declared(o)
  BY <1>3 DEF Declared, UndeclaredIsFresh
<1>4. CASE Advanced(o)
  BY <1>1, <1>4 DEF Advanced
<1>5. CASE Concludes(o)
  BY <1>1, <1>5 DEF Concludes
<1> QED
  BY <1>2, <1>3, <1>4, <1>5, RecordSteps

LEMMA UndeclaredKept ==
  ASSUME TypeOK, UndeclaredIsFresh, [Next]_vars
  PROVE  UndeclaredIsFresh'
<1> SUFFICES ASSUME NEW o \in Ops, rec'[o].status = "NONE" PROVE rec'[o].rev = 0
  BY DEF UndeclaredIsFresh
<1>1. ~Declared(o) /\ ~Advanced(o) /\ ~Concludes(o)
  BY DEF Declared, Advanced, Concludes, Allowed
<1> QED
  BY <1>1, RecordSteps DEF UndeclaredIsFresh

LEMMA BasisStep ==
  ASSUME TypeOK, TypeOK', BasisInv, [Next]_vars
  PROVE  BasisInv'
<1>1. UndeclaredIsFresh'
  BY UndeclaredKept DEF BasisInv
<1>2. \A o \in Ops : /\ rec[o].rev \in Nat /\ rec'[o].rev \in Nat
                     /\ rec[o].rev <= rec'[o].rev /\ TargetOf[o] \in Targets
  BY RevisionsGrow, ConstantsAssumption DEF BasisInv, TypeOK, RecordsOK, Record
<1>3. \A t \in Targets : active[t].rev \in Nat /\ active'[t].rev \in Nat
  BY DEF TypeOK, ClaimsOK, Claim
<1>4. CASE UNCHANGED claims
  <2>1. OwnedByItsOps'
    BY <1>2, <1>3, <1>4 DEF BasisInv, OwnedByItsOps, claims
  <2>2. ReleasedIsPast'
    BY <1>2, <1>3, <1>4 DEF BasisInv, ReleasedIsPast, Own, claims
  <2> QED
    BY <1>1, <2>1, <2>2 DEF BasisInv
<1>5. ASSUME NEW p \in Ops, NEW r \in Nat, Grantable(p, r), Grant(p, r), UNCHANGED records
      PROVE  BasisInv'
  <2> DEFINE t == TargetOf[p]
             c == [op |-> p, rev |-> r, gen |-> generation[t]]
  <2>1. active' = [active EXCEPT ![t] = c] /\ released' = released /\ rec' = rec
    BY <1>5 DEF Grant, records
  <2>2. r = rec[p].rev /\ t \in Targets
    BY <1>2, <1>5 DEF Grantable
  <2>3. active'[t] = c /\ \A u \in Targets : u # t => active'[u] = active[u]
    BY <2>1, <2>2 DEF TypeOK, ClaimsOK
  <2>4. OwnedByItsOps'
    BY <1>2, <2>1, <2>2, <2>3 DEF BasisInv, OwnedByItsOps
  <2>5. ASSUME NEW o \in Ops, NEW q \in Nat, <<o, q>> \in released
        PROVE  q <= rec[o].rev /\ (Own(o)' => q < active'[TargetOf[o]].rev)
    <3>1. q <= rec[o].rev /\ (Own(o) => q < active[TargetOf[o]].rev)
      BY <2>5 DEF BasisInv, ReleasedIsPast
    <3>2. CASE o = p /\ Own(p)
      <4>1. active[t].rev <= rec[p].rev /\ active[t].rev # r
        BY <1>5, <2>2, <3>2 DEF BasisInv, OwnedByItsOps, Own, Grantable, KnownClaim
      <4> QED
        BY <1>2, <1>3, <2>2, <2>3, <3>1, <3>2, <4>1
    <3>3. CASE o = p /\ ~Own(p)
      <4>1. q # r
        BY <1>5, <2>5, <3>3 DEF Grantable, AlreadyReleased
      <4> QED
        BY <1>2, <2>2, <2>3, <3>1, <3>3, <4>1
    <3>4. CASE o # p
      BY <1>2, <2>3, <3>1, <3>4 DEF Own
    <3> QED
      BY <3>2, <3>3, <3>4
  <2>6. ReleasedIsPast'
    BY <2>1, <2>5 DEF ReleasedIsPast
  <2> QED
    BY <1>1, <2>4, <2>6 DEF BasisInv
<1>6. ASSUME NEW p \in Ops, Releasable(p), EndClaim(p), UNCHANGED records
      PROVE  BasisInv'
  <2> DEFINE t == TargetOf[p]
  <2>1. /\ active' = [active EXCEPT ![t] = NoClaim]
        /\ released' = released \cup {<<p, active[t].rev>>}
        /\ rec' = rec
    BY <1>6 DEF EndClaim, records
  <2>2. t \in Targets /\ Own(p) /\ active[t].rev <= rec[p].rev
    BY <1>2, <1>6 DEF Releasable, Own, BasisInv, OwnedByItsOps
  <2>3. active'[t] = NoClaim /\ \A u \in Targets : u # t => active'[u] = active[u]
    BY <2>1, <2>2 DEF TypeOK, ClaimsOK
  <2>4. OwnedByItsOps'
    BY <2>1, <2>3, ConstantsAssumption DEF BasisInv, OwnedByItsOps, NoClaim
  <2>5. ~Own(p)'
    BY <2>3, ConstantsAssumption DEF Own, NoClaim
  <2>6. ASSUME NEW o \in Ops, NEW q \in Nat, <<o, q>> \in released'
        PROVE  q <= rec[o].rev /\ (Own(o)' => q < active'[TargetOf[o]].rev)
    <3>1. CASE <<o, q>> \in released
      BY <1>2, <2>3, <2>5, <3>1, ConstantsAssumption DEF BasisInv, ReleasedIsPast, Own, NoClaim
    <3>2. CASE o = p /\ q = active[t].rev
      BY <2>2, <2>5, <3>2
    <3> QED
      BY <2>1, <2>6, <3>1, <3>2
  <2>7. ReleasedIsPast'
    BY <2>1, <2>6 DEF ReleasedIsPast
  <2> QED
    BY <1>1, <2>4, <2>7 DEF BasisInv
<1>7. ASSUME NEW p \in Ops, Restore(p)
      PROVE  BasisInv'
  <2>1. /\ \A t \in Targets : active'[t] = active[t] \/ active'[t] = NoClaim
        /\ released' = released /\ rec' = rec
    BY <1>7 DEF Restore
  <2>2. OwnedByItsOps'
    BY <2>1, ConstantsAssumption DEF BasisInv, OwnedByItsOps, NoClaim
  <2>3. ReleasedIsPast'
    BY <1>2, <2>1, ConstantsAssumption DEF BasisInv, ReleasedIsPast, Own, NoClaim
  <2> QED
    BY <1>1, <2>2, <2>3 DEF BasisInv
<1> QED
  BY <1>4, <1>5, <1>6, <1>7, ClaimSteps

LEMMA BasisInit == Init => BasisInv
  BY ConstantsAssumption
     DEF Init, BasisInv, OwnedByItsOps, ReleasedIsPast, UndeclaredIsFresh, NoClaim

(* A claim basis that was released never owns the target again. *)
THEOREM ReleasedStaysReleased == Spec => []ReleasedBasisNeverReowned
<1>1. TypeOK /\ BasisInv /\ [Next]_vars => (TypeOK /\ BasisInv)'
  BY TypeStep, BasisStep
<1>2. TypeOK /\ BasisInv => ReleasedBasisNeverReowned
  <2> SUFFICES ASSUME TypeOK, BasisInv, NEW t \in Targets,
                      <<active[t].op, active[t].rev>> \in released
               PROVE  FALSE
    BY DEF ReleasedBasisNeverReowned
  <2>1. active[t].op \in Ops /\ active[t].rev \in Nat
    BY DEF TypeOK, ClaimsOK
  <2>2. TargetOf[active[t].op] = t
    BY <2>1 DEF BasisInv, OwnedByItsOps
  <2>3. active[t].rev < active[t].rev
    BY <2>1, <2>2 DEF BasisInv, ReleasedIsPast, Own
  <2> QED
    BY <2>1, <2>3
<1> QED
  BY TypeInit, BasisInit, <1>1, <1>2, PTL DEF Spec

-----------------------------------------------------------------------------
(* Fate: what a physical effect leaves behind.                             *)

(* An appended resolution adds its action and no other. *)
LEMMA AppendedAction ==
  ASSUME NEW q \in Seq(Basis), NEW b \in Basis, NEW A
  PROVE  (\E i \in DOMAIN Append(q, b) : Append(q, b)[i].action \in A)
           <=> (\E i \in DOMAIN q : q[i].action \in A) \/ b.action \in A
<1> DEFINE n == Len(q)
           s == Append(q, b)
<1>1. /\ n \in Nat /\ DOMAIN q = 1 .. n /\ DOMAIN s = 1 .. n + 1
      /\ s[n + 1] = b /\ \A i \in 1 .. n : s[i] = q[i]
  OBVIOUS
<1> HIDE DEF n, s
<1>2. ASSUME NEW i \in DOMAIN s, s[i].action \in A
      PROVE  (\E j \in DOMAIN q : q[j].action \in A) \/ b.action \in A
  <2>1. i \in 1 .. n \/ i = n + 1
    BY <1>1
  <2> QED
    BY <1>1, <1>2, <2>1
<1>3. ASSUME NEW i \in DOMAIN q, q[i].action \in A
      PROVE  \E j \in DOMAIN s : s[j].action \in A
  <2>1. i \in DOMAIN s /\ s[i] = q[i]
    BY <1>1
  <2> QED
    BY <1>3, <2>1
<1>4. b.action \in A => \E j \in DOMAIN s : s[j].action \in A
  <2>1. n + 1 \in DOMAIN s /\ s[n + 1] = b
    BY <1>1
  <2> QED
    BY <2>1
<1>5. (\E i \in DOMAIN s : s[i].action \in A)
        <=> (\E i \in DOMAIN q : q[i].action \in A) \/ b.action \in A
  BY <1>2, <1>3, <1>4
<1> QED
  BY <1>5 DEF s

LEMMA ResolveSays ==
  ASSUME TypeOK, NEW o \in Ops, NEW a \in ResolutionAction, Resolve(o, a)
  PROVE  /\ \A p \in Ops \ {o} : Spoken(p)' = Spoken(p) /\ Aborted(p)' = Aborted(p)
         /\ Spoken(o)' <=> Spoken(o) \/ a \in {"ABORT", "ADOPT"}
         /\ Aborted(o)' <=> Aborted(o) \/ a = "ABORT"
<1>1. PICK b \in Basis :
         b.action = a /\ accepted' = [accepted EXCEPT ![o] = Append(accepted[o], b)]
  <2> DEFINE basis == [action |-> a, rev |-> rec[o].rev, view |-> View(TaskOf[o]),
                       intact |-> intact[TaskOf[o]]]
  <2>1. TaskOf[o] \in Tasks
    BY ConstantsAssumption
  <2>2. View(TaskOf[o]) \in Evidence
    BY <2>1, ViewType DEF TypeOK
  <2>3. basis \in Basis /\ basis.action = a
    BY <2>1, <2>2 DEF TypeOK, RecordsOK, Record, Basis
  <2>4. accepted' = [accepted EXCEPT ![o] = Append(accepted[o], basis)]
    BY DEF Resolve
  <2> HIDE DEF basis
  <2> QED
    BY <2>3, <2>4
<1>2. accepted'[o] = Append(accepted[o], b) /\ \A p \in Ops \ {o} : accepted'[p] = accepted[p]
  BY <1>1 DEF TypeOK, RecordsOK
<1>3. accepted[o] \in Seq(Basis)
  BY DEF TypeOK, RecordsOK
<1>4. \A p \in Ops \ {o} : Spoken(p)' = Spoken(p) /\ Aborted(p)' = Aborted(p)
  BY <1>2 DEF Spoken, Aborted
<1>5. Spoken(o)' <=> Spoken(o) \/ a \in {"ABORT", "ADOPT"}
  BY <1>1, <1>2, <1>3, AppendedAction DEF Spoken
<1>6. Aborted(o)' <=> Aborted(o) \/ a = "ABORT"
  <2>1. (\E i \in DOMAIN accepted'[o] : accepted'[o][i].action \in {"ABORT"})
          <=> (\E i \in DOMAIN accepted[o] : accepted[o][i].action \in {"ABORT"})
              \/ b.action \in {"ABORT"}
    BY <1>2, <1>3, AppendedAction
  <2> QED
    BY <1>1, <2>1 DEF Aborted
<1> QED
  BY <1>4, <1>5, <1>6

(* Resolutions are only appended, each decided on what is there.           *)
LEMMA AcceptedSteps ==
  ASSUME TypeOK, [Next]_vars, NEW o \in Ops
  PROVE  /\ \A i \in DOMAIN accepted[o] :
               i \in DOMAIN accepted'[o] /\ accepted'[o][i] = accepted[o][i]
         /\ \A i \in DOMAIN accepted'[o] :
               \/ i \in DOMAIN accepted[o]
               \/ \E a \in ResolutionAction :
                     /\ Resolve(o, a)
                     /\ accepted'[o][i].action = a
                     /\ accepted'[o][i].rev = rec[o].rev
                     /\ accepted'[o][i].view = View(TaskOf[o])
<1>1. CASE accepted' = accepted
  BY <1>1
<1>2. ASSUME NEW p \in Ops, NEW a \in ResolutionAction, Resolve(p, a), p # o
      PROVE  accepted'[o] = accepted[o]
  BY <1>2 DEF Resolve, TypeOK, RecordsOK
<1>3. ASSUME NEW a \in ResolutionAction, Resolve(o, a)
      PROVE  /\ \A i \in DOMAIN accepted[o] :
                   i \in DOMAIN accepted'[o] /\ accepted'[o][i] = accepted[o][i]
             /\ \A i \in DOMAIN accepted'[o] :
                   \/ i \in DOMAIN accepted[o]
                   \/ /\ accepted'[o][i].action = a
                      /\ accepted'[o][i].rev = rec[o].rev
                      /\ accepted'[o][i].view = View(TaskOf[o])
  <2> DEFINE basis == [action |-> a, rev |-> rec[o].rev, view |-> View(TaskOf[o]),
                       intact |-> intact[TaskOf[o]]]
  <2>1. accepted' = [accepted EXCEPT ![o] = Append(accepted[o], basis)]
    BY <1>3 DEF Resolve
  <2>2. basis.action = a /\ basis.rev = rec[o].rev /\ basis.view = View(TaskOf[o])
    OBVIOUS
  <2> HIDE DEF basis
  <2>3. accepted[o] \in Seq(Basis) /\ accepted'[o] = Append(accepted[o], basis)
    BY <2>1 DEF TypeOK, RecordsOK
  <2>4. /\ DOMAIN accepted'[o] = 1 .. Len(accepted[o]) + 1
        /\ DOMAIN accepted[o] = 1 .. Len(accepted[o]) /\ Len(accepted[o]) \in Nat
        /\ accepted'[o][Len(accepted[o]) + 1] = basis
        /\ \A i \in 1 .. Len(accepted[o]) : accepted'[o][i] = accepted[o][i]
    BY <2>3
  <2> QED
    BY <2>2, <2>4
<1> QED
  BY <1>1, <1>2, <1>3, ResolutionSteps

(* What has been spoken stays spoken. *)
LEMMA SpokenStays ==
  ASSUME TypeOK, [Next]_vars, NEW o \in Ops, Spoken(o)
  PROVE  Spoken(o)'
<1>1. CASE accepted' = accepted
  BY <1>1 DEF Spoken
<1>2. ASSUME NEW p \in Ops, NEW a \in ResolutionAction, Resolve(p, a)
      PROVE  Spoken(o)'
  BY <1>2, ResolveSays
<1> QED
  BY <1>1, <1>2, ResolutionSteps

(* An operation that writes is STARTED under an open, ACTIVE stage. *)
LEMMA WriterStands ==
  ASSUME TypeOK, BoundaryInv, NEW w \in Workers, Apply(w)
  PROVE  LET o == call[w].op
         IN  /\ o \in Ops /\ Own(o)
             /\ rec[o].status = "STARTED" /\ rec' = rec
             /\ stage[TaskOf[o]] = "ACTIVE" /\ stage' = stage
             /\ open[TaskOf[o]] /\ open' = open
             /\ UNCHANGED claims
  BY CallType DEF Apply, BoundaryInv, Inside, InBoundary, Standing, Authority, TypeOK

(* A claim is lost only by its own release, or to its own rollback. *)
LEMMA OwnLost ==
  ASSUME TypeOK, [Next]_vars, NEW o \in Ops, Own(o), ~Own(o)'
  PROVE  (Releasable(o) /\ UNCHANGED records) \/ Restore(o)
<1> DEFINE t == TargetOf[o]
<1>1. t \in Targets /\ o # None
  BY ConstantsAssumption
<1>2. ~UNCHANGED claims
  BY DEF Own, claims
<1>3. ASSUME NEW p \in Ops, NEW r \in Nat, Grantable(p, r), Grant(p, r)
      PROVE  FALSE
  <2>1. active' = [active EXCEPT ![TargetOf[p]] = [op |-> p, rev |-> r,
                                                  gen |-> generation[TargetOf[p]]]]
    BY <1>3 DEF Grant
  <2>2. TargetOf[p] = t
    BY <1>1, <2>1 DEF Own, TypeOK, ClaimsOK
  <2>3. p = o
    BY <1>1, <1>3, <2>2 DEF Grantable, Own, NoClaim
  <2> QED
    BY <1>1, <2>1, <2>3 DEF Own, TypeOK, ClaimsOK
<1>4. ASSUME NEW p \in Ops, Releasable(p), EndClaim(p), UNCHANGED records
      PROVE  Releasable(o) /\ UNCHANGED records
  <2>1. active' = [active EXCEPT ![TargetOf[p]] = NoClaim]
    BY <1>4 DEF EndClaim
  <2>2. TargetOf[p] = t
    BY <1>1, <2>1 DEF Own, TypeOK, ClaimsOK
  <2>3. p = o
    BY <1>4, <2>2 DEF Releasable, Own
  <2> QED
    BY <1>4, <2>3
<1>5. ASSUME NEW p \in Ops, Restore(p)
      PROVE  p = o
  <2>1. t \in Manifest(TaskOf[p])
    BY <1>1, <1>5 DEF Restore, Own
  <2> QED
    BY <1>1, <1>5, <2>1 DEF Restore, Unowned, Own
<1> QED
  BY <1>2, <1>3, <1>4, <1>5, ClaimSteps

(* A target comes to hold an operation's bytes only by its write. *)
LEMMA AuthorSteps ==
  ASSUME TypeOK, [Next]_vars, NEW o \in Ops,
         author'[TargetOf[o]] = o, author[TargetOf[o]] # o
  PROVE  \E w \in Workers : Apply(w) /\ call[w].op = o
<1>1. TargetOf[o] \in Targets /\ o # None
  BY ConstantsAssumption
<1>2. ASSUME NEW w \in Workers, Apply(w)
      PROVE  call[w].op = o
  BY <1>1, <1>2 DEF Apply, TypeOK, HistoryOK
<1>3. ASSUME NEW t \in Targets, ForeignEdit(t)
      PROVE  FALSE
  BY <1>1, <1>3 DEF ForeignEdit, TypeOK, HistoryOK
<1>4. ASSUME NEW p \in Ops, Restore(p)
      PROVE  FALSE
  BY <1>1, <1>4 DEF Restore
<1>5. author' # author
  OBVIOUS
<1>6. ~Recovery
  BY <1>4, <1>5, RecoveryKinds DEF SetStage, SettleRecovery, history
<1> QED
  BY <1>2, <1>3, <1>5, <1>6
     DEF Next, Request, NewIntent, ReplayIntent, Step, Drive, Admit, Acquire, EnterBoundary,
         RefuseBoundary, Start, ApplyFails, Prove, Settle, Release, LockTimeout, Crash,
         Agent, ApiAcquire, ApiRelease, ApiTransition, Resolve,
         Stage, StageMove, AskActivation, BlockPreparation, Activate, Verify,
         CloseTask, SetStage, World, RestorePointBreaks, history, vars

(* Tracked rollbacks that ended stay recorded. *)
LEMMA RollbacksGrow ==
  ASSUME TypeOK, [Next]_vars
  PROVE  rollbacks \subseteq rollbacks'
<1>1. CASE Recovery
  BY <1>1, RecoveryKinds DEF SetStage, SettleRecovery, Restore
<1> QED
  BY <1>1
     DEF Next, Request, NewIntent, ReplayIntent, Step, Drive, Admit, Acquire, EnterBoundary,
         RefuseBoundary, Start, Apply, ApplyFails, Prove, Settle, Release, LockTimeout, Crash,
         Agent, ApiAcquire, ApiRelease, ApiTransition, Resolve,
         Stage, StageMove, AskActivation, BlockPreparation, Activate, Verify,
         CloseTask, SetStage, World, ForeignEdit, RestorePointBreaks, records, vars

(* An effect stays undone until the operation writes again; a rollback     *)
(* that was given up stays given up.                                       *)
LEMMA UndoneStays ==
  ASSUME TypeOK, [Next]_vars, NEW o \in Ops
  PROVE  /\ Abandoned(o) => Abandoned(o)'
         /\ Undone(o) => Undone(o)' \/ \E w \in Workers : Apply(w) /\ call[w].op = o
<1>1. \A i \in DOMAIN accepted[o] : i \in DOMAIN accepted'[o]
  BY AcceptedSteps
<1>2. Abandoned(o) => Abandoned(o)'
  BY <1>1, RollbacksGrow DEF Abandoned
<1>3. ASSUME Undone(o), author'[TargetOf[o]] # o
      PROVE  Undone(o)'
  BY <1>1, <1>3, RollbacksGrow DEF Undone
<1>4. ASSUME Undone(o), author'[TargetOf[o]] = o
      PROVE  \E w \in Workers : Apply(w) /\ call[w].op = o
  BY <1>4, AuthorSteps DEF Undone
<1> QED
  BY <1>2, <1>3, <1>4

(* A rollback has undone the effect of its operation, or was given up. *)
LEMMA RestoreSays ==
  ASSUME TypeOK, NEW o \in Ops, Restore(o)
  PROVE  Undone(o)' \/ Abandoned(o)'
<1> DEFINE t == TargetOf[o]
<1>1. t \in Targets /\ t \in Manifest(TaskOf[o]) /\ o # None
  BY ConstantsAssumption DEF Manifest, OpsOf
<1>2. PICK i \in DOMAIN accepted[o], e \in RollbackEnd, S \in SUBSET Manifest(TaskOf[o]) :
         /\ e = "VERIFIED" => S = Manifest(TaskOf[o])
         /\ rollbacks' = rollbacks \cup {<<o, i, e>>}
         /\ author' = [u \in Targets |->
                          IF u \in S /\ (file[u] # InitialBytes[u] \/ author[u] = o)
                          THEN None ELSE author[u]]
  BY DEF Restore
<1>3. accepted' = accepted
  BY DEF Restore
<1>4. CASE e = "VERIFIED"
  <2>1. author'[t] # o
    BY <1>1, <1>2, <1>4
  <2> QED
    BY <1>2, <1>3, <1>4, <2>1 DEF Undone
<1>5. CASE e = "CLOSED"
  BY <1>2, <1>3, <1>5 DEF Abandoned
<1> QED
  BY <1>4, <1>5 DEF RollbackEnd

(* A written operation with an open fate was one before this step, or this *)
(* step is its write.                                                      *)
LEMMA OpenFateBefore ==
  ASSUME TypeOK, TypeOK', BoundaryInv, EffectAccounted, [Next]_vars,
         NEW o \in Ops, writes'[o] > 0
  PROVE  /\ rec'[o].status \notin {"NONE", "INTENT"}
         /\ rec'[o].status \in OpenFate =>
              \/ writes[o] > 0 /\ rec[o].status \in OpenFate
              \/ \E w \in Workers : Apply(w) /\ call[w].op = o
<1>1. CASE \E w \in Workers : Apply(w) /\ call[w].op = o
  BY <1>1, WriterStands
<1>2. CASE writes'[o] = writes[o]
  <2>1. rec[o].status \notin {"NONE", "INTENT"}
    BY <1>2 DEF EffectAccounted
  <2>2. rec'[o] = rec[o] \/ Advanced(o) \/ Concludes(o)
    BY <2>1, RecordSteps DEF Declared
  <2> QED
    BY <1>2, <2>1, <2>2 DEF Advanced, Concludes, Allowed, OpenFate
<1> QED
  BY <1>1, <1>2, WriteSteps

(* EffectAccounted is inductive beside the boundary's invariant. *)
LEMMA EffectStep ==
  ASSUME TypeOK, TypeOK', BoundaryInv, EffectAccounted, [Next]_vars
  PROVE  EffectAccounted'
<1> SUFFICES ASSUME NEW o \in Ops, writes'[o] > 0
             PROVE  /\ rec'[o].status \notin {"NONE", "INTENT"}
                    /\ rec'[o].status \in OpenFate /\ ~Spoken(o)' /\ ~Undone(o)' /\ ~Abandoned(o)'
                         => Own(o)'
  BY DEF EffectAccounted
<1>1. rec'[o].status \notin {"NONE", "INTENT"}
  BY OpenFateBefore
<1>2. ASSUME rec'[o].status \in OpenFate, ~Spoken(o)', ~Undone(o)', ~Abandoned(o)'
      PROVE  Own(o)'
  <2>1. ~Spoken(o) /\ ~Abandoned(o)
    BY <1>2, SpokenStays, UndoneStays
  <2>2. CASE \E w \in Workers : Apply(w) /\ call[w].op = o
    BY <2>2, WriterStands DEF Own, claims
  <2>3. CASE /\ writes[o] > 0 /\ rec[o].status \in OpenFate
             /\ ~\E w \in Workers : Apply(w) /\ call[w].op = o
    <3>1. ~Undone(o)
      BY <1>2, <2>3, UndoneStays
    <3>2. Own(o)
      BY <2>1, <2>3, <3>1 DEF EffectAccounted
    <3>3. ~Releasable(o)
      BY <2>1, <2>3 DEF Releasable, Spoken, Aborted, AnyFresh
    <3>4. ~Restore(o)
      BY <1>2, RestoreSays
    <3> QED
      BY <3>2, <3>3, <3>4, OwnLost
  <2> QED
    BY <1>2, <2>2, <2>3, OpenFateBefore
<1> QED
  BY <1>1, <1>2

(* No effect without a durable trace and, until a decision or the end of a *)
(* rollback, an owner.                                                     *)
THEOREM EffectIsAccounted == Spec => []EffectAccounted
<1>1. Init => EffectAccounted
  BY DEF Init, EffectAccounted
<1>2. TypeOK /\ BoundaryInv /\ EffectAccounted /\ [Next]_vars
        => (TypeOK /\ BoundaryInv /\ EffectAccounted)'
  BY TypeStep, BoundaryStep, EffectStep
<1> QED
  BY TypeInit, BoundaryInit, <1>1, <1>2, PTL DEF Spec

(* What a settlement left behind: ADOPT a VERIFIED record, ABORT a halt.   *)
SettledInv ==
    \A o \in Ops :
        IsSettled(o) =>
            \/ settled[o].action = "ADOPT" /\ rec[o].status = "VERIFIED"
            \/ settled[o].action = "ABORT" /\ Aborted(o)
            \/ settled[o].action = "ROLLBACK"

(* An operation is settled once, by a resolution that was carried out. *)
LEMMA SettledSteps ==
  ASSUME TypeOK, [Next]_vars, NEW o \in Ops
  PROVE  \/ settled'[o] = settled[o]
         \/ ~IsSettled(o) /\ SettleRecovery(o)
<1>1. ASSUME NEW p \in Ops, SettleRecovery(p)
      PROVE  settled'[o] = settled[o] \/ (~IsSettled(o) /\ SettleRecovery(o))
  <2>1. CASE p = o
    BY <1>1, <2>1 DEF SettleRecovery, RecordSettlement
  <2>2. CASE p # o
    BY <1>1, <2>2 DEF SettleRecovery, RecordSettlement, TypeOK, RecordsOK
  <2> QED
    BY <2>1, <2>2
<1>2. CASE Recovery
  BY <1>1, <1>2, RecoveryKinds DEF SetStage, Restore
<1> QED
  BY <1>2
     DEF Next, Request, NewIntent, ReplayIntent, Step, Drive, Admit, Acquire, EnterBoundary,
         RefuseBoundary, Start, Apply, ApplyFails, Prove, Settle, Release, LockTimeout, Crash,
         Agent, ApiAcquire, ApiRelease, ApiTransition, Resolve,
         Stage, StageMove, AskActivation, BlockPreparation, Activate, Verify,
         CloseTask, SetStage, World, ForeignEdit, RestorePointBreaks, records, vars

LEMMA AbortedStays ==
  ASSUME TypeOK, [Next]_vars, NEW o \in Ops, Aborted(o)
  PROVE  Aborted(o)'
  BY AcceptedSteps DEF Aborted

LEMMA SettledStep ==
  ASSUME TypeOK, SettledInv, [Next]_vars
  PROVE  SettledInv'
<1> SUFFICES ASSUME NEW o \in Ops, IsSettled(o)'
             PROVE  \/ settled'[o].action = "ADOPT" /\ rec'[o].status = "VERIFIED"
                    \/ settled'[o].action = "ABORT" /\ Aborted(o)'
                    \/ settled'[o].action = "ROLLBACK"
  BY DEF SettledInv
<1>1. CASE settled'[o] = settled[o]
  <2>1. IsSettled(o)
    BY <1>1 DEF IsSettled
  <2>2. rec[o].status = "VERIFIED" => rec'[o].status = "VERIFIED"
    BY RecordSteps DEF Declared, Advanced, Concludes, Allowed
  <2> QED
    BY <1>1, <2>1, <2>2, AbortedStays DEF SettledInv
<1>2. CASE SettleRecovery(o)
  <2>1. PICK i \in DOMAIN accepted[o] : /\ accepted[o][i].action \in ResolutionAction
                                        /\ Settleable(o, i) /\ RecordSettlement(o, i)
    BY <1>2, SettlementParts
  <2>2. settled'[o].action = accepted[o][i].action
    BY <2>1 DEF RecordSettlement, TypeOK, RecordsOK
  <2>3. accepted' = accepted
    BY <1>2 DEF SettleRecovery
  <2>4. accepted[o][i].action \in {"ADOPT", "ABORT", "ROLLBACK"}
    BY <2>1 DEF Settleable, ResolutionAction
  <2>5. accepted[o][i].action = "ADOPT" => rec'[o].status = "VERIFIED"
    BY <2>1 DEF RecordSettlement, TypeOK, RecordsOK
  <2>6. accepted[o][i].action = "ABORT" => Aborted(o)'
    BY <2>3 DEF Aborted
  <2> QED
    BY <2>2, <2>4, <2>5, <2>6
<1> QED
  BY <1>1, <1>2, SettledSteps

(* A settled rollback that a RETRY has followed stays so. *)
LEMMA OvertakenStays ==
  ASSUME TypeOK, [Next]_vars, NEW o \in Ops, Overtaken(o)
  PROVE  Overtaken(o)'
<1>1. IsSettled(o)
  BY DEF Overtaken, IsSettled, Unsettled
<1>2. settled'[o] = settled[o]
  BY <1>1, SettledSteps
<1> QED
  BY <1>2, AcceptedSteps DEF Overtaken

(* Verification looks at every fate that is not settled, and at a settled  *)
(* rollback unless a RETRY has followed it; nothing written can open a     *)
(* fate again: a VERIFIED stage admits no write.                           *)
LEMMA VerifiedStep ==
  ASSUME TypeOK, TypeOK', BoundaryInv, EffectAccounted, SettledInv, VerifiedStageSettled,
         [Next]_vars
  PROVE  VerifiedStageSettled'
<1> SUFFICES ASSUME NEW o \in Ops, stage'[TaskOf[o]] = "VERIFIED", writes'[o] > 0,
                    rec'[o].status \in OpenFate
             PROVE  Overtaken(o)'
  BY DEF VerifiedStageSettled
<1>1. TaskOf[o] \in Tasks
  BY ConstantsAssumption
<1>2. CASE \E w \in Workers : Apply(w) /\ call[w].op = o
  BY <1>2, WriterStands
<1>3. CASE writes[o] > 0 /\ rec[o].status \in OpenFate
  <2>1. CASE stage[TaskOf[o]] = "VERIFIED"
    BY <1>3, <2>1, OvertakenStays DEF VerifiedStageSettled
  <2>2. CASE stage[TaskOf[o]] # "VERIFIED"
    <3>1. Verify(TaskOf[o])
      BY <1>1, <2>2, StageSteps
    <3>2. IsSettled(o) /\ ~Aborted(o) /\ "ROLLBACK" \notin Voice(o)
      BY <1>3, <3>1 DEF Verify, Verifiable, OpenRecovery, OpsOf
    <3>3. settled[o].action = "ROLLBACK"
      BY <1>3, <3>2 DEF SettledInv, OpenFate
    <3>4. Overtaken(o)
      BY <3>2, <3>3 DEF Voice
    <3> QED
      BY <3>4, OvertakenStays
  <2> QED
    BY <2>1, <2>2
<1> QED
  BY <1>2, <1>3, OpenFateBefore

(* A VERIFIED stage has a written operation of open fate only where its    *)
(* settled rollback was followed by an accepted RETRY.                     *)
THEOREM VerifiedIsSettled == Spec => []VerifiedStageSettled
<1>1. Init => EffectAccounted /\ SettledInv /\ VerifiedStageSettled
  BY DEF Init, EffectAccounted, SettledInv, IsSettled, VerifiedStageSettled
<1>2. TypeOK /\ BoundaryInv /\ EffectAccounted /\ SettledInv /\ VerifiedStageSettled
        /\ [Next]_vars
        => (TypeOK /\ BoundaryInv /\ EffectAccounted /\ SettledInv /\ VerifiedStageSettled)'
  BY TypeStep, BoundaryStep, EffectStep, SettledStep, VerifiedStep
<1> QED
  BY TypeInit, BoundaryInit, <1>1, <1>2, PTL DEF Spec

(* A completed TASK: every record is final, or its ABORT is settled, and   *)
(* none owns anything.                                                     *)
ClosedInv ==
    \A o \in Ops :
        ~open[TaskOf[o]] =>
            /\ ~Own(o)
            /\ rec[o].status \in {"NONE", "VERIFIED", "FAILED"} \/ (Aborted(o) /\ IsSettled(o))

LEMMA ClosedStep ==
  ASSUME TypeOK, TypeOK', ClosedInv, [Next]_vars
  PROVE  ClosedInv'
<1> SUFFICES ASSUME NEW o \in Ops, ~open'[TaskOf[o]]
             PROVE  /\ ~Own(o)'
                    /\ \/ rec'[o].status \in {"NONE", "VERIFIED", "FAILED"}
                       \/ Aborted(o)' /\ IsSettled(o)'
  BY DEF ClosedInv
<1> DEFINE k == TaskOf[o]
<1>1. k \in Tasks /\ TargetOf[o] \in Targets /\ o # None
  BY ConstantsAssumption
<1>2. CASE open[k]
  <2>1. CloseTask(k)
    BY <1>1, <1>2, OpenSteps
  <2>2. Concluded(o) /\ ~Own(o)
    BY <2>1 DEF CloseTask, Closable, OpsOf
  <2>3. ~Own(o)' /\ rec' = rec /\ accepted' = accepted /\ settled' = settled
    BY <2>1, <2>2 DEF CloseTask, Own, claims
  <2> QED
    BY <2>2, <2>3 DEF Concluded, Aborted, IsSettled
<1>3. CASE ~open[k]
  <2>1. /\ ~Own(o)
        /\ rec[o].status \in {"NONE", "VERIFIED", "FAILED"} \/ (Aborted(o) /\ IsSettled(o))
    BY <1>3 DEF ClosedInv
  <2>2. rec'[o] = rec[o]
    BY <1>3, RecordSteps
  <2>3. Aborted(o) => Aborted(o)'
    BY AbortedStays
  <2>4. IsSettled(o) => IsSettled(o)'
    BY SettledSteps DEF IsSettled
  <2>5. ASSUME NEW p \in Ops, NEW r \in Nat, Grantable(p, r), Grant(p, r), Own(o)'
        PROVE  FALSE
    <3>1. p = o
      BY <1>1, <2>1, <2>5 DEF Grant, Own, TypeOK, ClaimsOK
    <3>2. Eligible(o)
      BY <2>5, <3>1 DEF Grantable
    <3>3. Current(o, "RETRY")
      BY <2>1, <3>2 DEF Eligible
    <3> QED
      BY <1>3, <3>3 DEF Current, Fresh
  <2>6. ASSUME NEW p \in Ops, EndClaim(p), Own(o)'
        PROVE  FALSE
    BY <1>1, <2>1, <2>6, EndClaimFrame DEF Own, NoClaim, TypeOK, ClaimsOK
  <2>7. ASSUME NEW p \in Ops, Restore(p), Own(o)'
        PROVE  FALSE
    BY <1>1, <2>1, <2>7 DEF Restore, Own, NoClaim
  <2>8. ~Own(o)'
    BY <2>1, <2>5, <2>6, <2>7, ClaimSteps DEF Own, claims
  <2> QED
    BY <2>1, <2>2, <2>3, <2>4, <2>8
<1> QED
  BY <1>2, <1>3

(* A completed TASK owns nothing, and leaves an effect that is not final   *)
(* only where an accepted ABORT was settled.                               *)
THEOREM ClosedOwnsNothing == Spec => []ClosedTaskOwnsNothing
<1>1. Init => EffectAccounted /\ ClosedInv
  BY ConstantsAssumption DEF Init, EffectAccounted, ClosedInv
<1>2. TypeOK /\ BoundaryInv /\ EffectAccounted /\ ClosedInv /\ [Next]_vars
        => (TypeOK /\ BoundaryInv /\ EffectAccounted /\ ClosedInv)'
  BY TypeStep, BoundaryStep, EffectStep, ClosedStep
<1>3. EffectAccounted /\ ClosedInv => ClosedTaskOwnsNothing
  BY DEF EffectAccounted, ClosedInv, ClosedTaskOwnsNothing
<1> QED
  BY TypeInit, BoundaryInit, <1>1, <1>2, <1>3, PTL DEF Spec

-----------------------------------------------------------------------------
(* Repetition: the decision behind a second write.                         *)

(* An accepted RETRY of the present revision. *)
RetryDecided(o) ==
    \E i \in DOMAIN accepted[o] :
        accepted[o][i].action = "RETRY" /\ accepted[o][i].rev = rec[o].rev

(* Inside the boundary an operation is new or its repetition was decided.  *)
Decided(w) ==
    LET o == call[w].op
    IN  /\ pc[w] = "start" => rec[o].status = "INTENT" \/ RetryDecided(o)
        /\ pc[w] = "write" => writes[o] = 0 \/ RetryDecided(o)

DecidedInv == \A w \in Workers : Decided(w)

(* A RETRY was decided on the evidence that its own effect is not there.   *)
RetrySawPreState ==
    \A o \in Ops : \A i \in DOMAIN accepted[o] :
        accepted[o][i].action = "RETRY" =>
            accepted[o][i].view[TargetOf[o]] = InitialBytes[TargetOf[o]]

LEMMA RetryNeedsPreState ==
  ASSUME NEW o \in Ops, Decision(o) = "RETRY"
  PROVE  View(TaskOf[o])[TargetOf[o]] = InitialBytes[TargetOf[o]]
<1> DEFINE M == Manifest(TaskOf[o])
           seen == {Classification(o, t) : t \in M}
<1>1. TargetOf[o] \in M
  BY DEF Manifest, OpsOf
<1>2. seen = {"PRE_STATE"}
  BY DEF Decision
<1>3. Classification(o, TargetOf[o]) = "PRE_STATE"
  BY <1>1, <1>2
<1>4. file[TargetOf[o]] = InitialBytes[TargetOf[o]]
  BY <1>3 DEF Classification
<1> QED
  BY <1>1, <1>4 DEF View

LEMMA RetrySawStep ==
  ASSUME TypeOK, RetrySawPreState, [Next]_vars
  PROVE  RetrySawPreState'
<1> SUFFICES ASSUME NEW o \in Ops, NEW i \in DOMAIN accepted'[o],
                    accepted'[o][i].action = "RETRY"
             PROVE  accepted'[o][i].view[TargetOf[o]] = InitialBytes[TargetOf[o]]
  BY DEF RetrySawPreState
<1>1. CASE i \in DOMAIN accepted[o]
  BY <1>1, AcceptedSteps DEF RetrySawPreState
<1>2. CASE i \notin DOMAIN accepted[o]
  <2>1. Resolve(o, "RETRY") /\ accepted'[o][i].view = View(TaskOf[o])
    BY <1>2, AcceptedSteps
  <2> QED
    BY <2>1, RetryNeedsPreState DEF Resolve
<1> QED
  BY <1>1, <1>2

LEMMA DecidedStep ==
  ASSUME TypeOK, BoundaryInv, EffectAccounted, DecidedInv, [Next]_vars
  PROVE  DecidedInv'
<1> SUFFICES ASSUME NEW w \in Workers, pc'[w] \in {"start", "write"}
             PROVE  Decided(w)'
  BY DEF DecidedInv, Decided
<1>1. AllHolding
  BY DEF BoundaryInv, AllHolding
<1>2. CASE EnterBoundary(w)
  BY <1>2 DEF EnterBoundary, Goto, Authorized, Eligible, Current, Fresh, Decided, RetryDecided,
              records, TypeOK, ProcsOK
<1>3. CASE Start(w)
  <2> DEFINE o == call[w].op
  <2>1. /\ pc[w] = "start" /\ pc'[w] = "write" /\ call' = call
        /\ IF call[w].retry THEN UNCHANGED rec ELSE Transition(o, "STARTED")
        /\ accepted' = accepted /\ writes' = writes
    BY <1>3 DEF Start, Goto, Idle, TypeOK, ProcsOK, history
  <2>2. o \in Ops /\ writes[o] \in Nat
    BY <2>1 DEF TypeOK, ProcsOK, HistoryOK
  <2>3. CASE rec[o].status = "INTENT"
    <3>1. ~(writes[o] > 0)
      BY <2>2, <2>3 DEF EffectAccounted
    <3> QED
      BY <2>1, <2>2, <3>1 DEF Decided
  <2>4. CASE rec[o].status # "INTENT"
    <3>1. RetryDecided(o) /\ rec' = rec
      BY <2>1, <2>4 DEF DecidedInv, Decided, Transition, Allowed
    <3> QED
      BY <2>1, <3>1 DEF Decided, RetryDecided
  <2> QED
    BY <2>3, <2>4
<1>4. CASE Inside(w) /\ ~(Request(w) \/ Step(w) \/ Crash(w))
  <2>1. Untouched(w)
    BY <1>1, <1>4, InterferenceFree DEF Next
  <2>2. call[w].op \in OpsOf(TaskOf[call[w].op])
    BY <1>1, <1>4, InsideFacts DEF OpsOf
  <2> QED
    BY <2>1, <2>2 DEF Untouched, DecidedInv, Decided, RetryDecided
<1>5. EnterBoundary(w) \/ Start(w) \/ (Inside(w) /\ ~(Request(w) \/ Step(w) \/ Crash(w)))
  <2>1. CASE Request(w)
    BY <2>1 DEF Request, NewIntent, ReplayIntent, Continuation, Completed, TypeOK, ProcsOK
  <2>2. CASE Step(w) \/ Crash(w)
    BY <2>2
       DEF Step, Drive, Admit, Acquire, RefuseBoundary, Apply, ApplyFails, Prove, Settle,
           Release, LockTimeout, Crash, Goto, Idle, TypeOK, ProcsOK
  <2>3. CASE ~(Request(w) \/ Step(w) \/ Crash(w))
    BY <2>3, OthersKeepCall DEF Next, Inside, InBoundary
  <2> QED
    BY <2>1, <2>2, <2>3
<1> QED
  BY <1>2, <1>3, <1>4, <1>5

(* An operation writes a second time only on an accepted RETRY of its      *)
(* present revision that saw its first effect absent.                      *)
THEOREM RepeatsAreDecided == Spec => NoBlindRepeat
<1> DEFINE Inv == TypeOK /\ BoundaryInv /\ EffectAccounted /\ DecidedInv /\ RetrySawPreState
<1>1. Init => Inv
  <2>1. Init => EffectAccounted /\ DecidedInv /\ RetrySawPreState
    BY DEF Init, EffectAccounted, DecidedInv, Decided, RetrySawPreState
  <2> QED
    BY <2>1, TypeInit, BoundaryInit
<1>2. Inv /\ [Next]_vars => Inv'
  BY TypeStep, BoundaryStep, EffectStep, DecidedStep, RetrySawStep
<1>3. Inv /\ [Next]_vars => [\A o \in Ops : RepeatIsDecided(o)]_vars
  <2> SUFFICES ASSUME Inv, Next, NEW o \in Ops, writes'[o] > writes[o], writes[o] > 0
               PROVE  \E i \in DOMAIN accepted[o] :
                        /\ accepted[o][i].action = "RETRY"
                        /\ accepted[o][i].rev = rec[o].rev
                        /\ accepted[o][i].view[TargetOf[o]] = InitialBytes[TargetOf[o]]
    BY DEF RepeatIsDecided
  <2>1. PICK w \in Workers : Apply(w) /\ call[w].op = o
    BY WriteSteps DEF TypeOK, HistoryOK
  <2>2. RetryDecided(o)
    BY <2>1 DEF Apply, DecidedInv, Decided
  <2> QED
    BY <2>2 DEF RetryDecided, RetrySawPreState
<1> QED
  BY <1>1, <1>2, <1>3, PTL DEF Spec, NoBlindRepeat

-----------------------------------------------------------------------------
(***************************************************************************)
(* Refinement: the execution of mutations implements MutationPromise.  Of  *)
(* the state of the control plane a client sees bytes, owners, fates and   *)
(* decisions; the definitions name what the instance substitutes.          *)
(***************************************************************************)
Fates     == [o \in Ops |-> FateOf(rec[o].status)]
Holders   == [t \in Targets |-> active[t].op]
Declares  == [o \in Ops |-> rec[o].pre]
Untracked == {t \in Targets : author[t] = None}
Decisions == {o \in Ops : Spoken(o)}
Halted    == {k \in Tasks : \E o \in OpsOf(k) : Aborted(o)}
ClosedTasks == {k \in Tasks : ~open[k]}

(* A ROLLBACK was decided on a target with its own bytes or the original   *)
(* ones; while it is of the present revision, the operation has begun.     *)
RollbackSound ==
    \A o \in Ops : \A i \in DOMAIN accepted[o] :
        /\ accepted[o][i].rev <= rec[o].rev
        /\ accepted[o][i].action = "ROLLBACK" =>
              /\ accepted[o][i].view[TargetOf[o]] \in {InitialBytes[TargetOf[o]], Post(o)}
              /\ accepted[o][i].rev = rec[o].rev =>
                    rec[o].status \notin {"NONE", "INTENT", "VERIFIED"}

LEMMA RollbackNeedsEffect ==
  ASSUME NEW o \in Ops, Decision(o) = "ROLLBACK"
  PROVE  /\ View(TaskOf[o])[TargetOf[o]] \in {InitialBytes[TargetOf[o]], Post(o)}
         /\ rec[o].status \notin {"INTENT", "VERIFIED"}
<1> DEFINE M == Manifest(TaskOf[o])
           t == TargetOf[o]
           seen == {Classification(o, u) : u \in M}
<1>1. t \in M
  BY DEF Manifest, OpsOf
<1>2. seen = {"PRE_STATE", "EXPECTED_POST_STATE"} /\ rec[o].status \notin {"INTENT", "VERIFIED"}
  BY DEF Decision
<1>3. Classification(o, t) \in {"PRE_STATE", "EXPECTED_POST_STATE"}
  BY <1>1, <1>2
<1>4. Known(o, t) /\ Expected(o, t) = Post(o)
  BY DEF Known, Expected
<1>5. file[t] \in {InitialBytes[t], Post(o)}
  BY <1>3, <1>4 DEF Classification
<1> QED
  BY <1>1, <1>2, <1>5 DEF View

LEMMA RollbackSoundStep ==
  ASSUME TypeOK, TypeOK', UndeclaredIsFresh, RollbackSound, [Next]_vars
  PROVE  RollbackSound'
<1> SUFFICES ASSUME NEW o \in Ops, NEW i \in DOMAIN accepted'[o]
             PROVE  /\ accepted'[o][i].rev <= rec'[o].rev
                    /\ accepted'[o][i].action = "ROLLBACK" =>
                          /\ accepted'[o][i].view[TargetOf[o]]
                                \in {InitialBytes[TargetOf[o]], Post(o)}
                          /\ accepted'[o][i].rev = rec'[o].rev =>
                                rec'[o].status \notin {"NONE", "INTENT", "VERIFIED"}
  BY DEF RollbackSound, Post
<1>1. rec[o].rev \in Nat /\ rec'[o].rev \in Nat
  BY DEF TypeOK, RecordsOK, Record
<1>2. CASE i \in DOMAIN accepted[o]
  <2>1. accepted'[o][i] = accepted[o][i]
    BY <1>2, AcceptedSteps
  <2>2. accepted[o][i].rev \in Nat
    <3>1. accepted[o] \in Seq(Basis)
      BY DEF TypeOK, RecordsOK
    <3>2. accepted[o][i] \in Basis
      BY <1>2, <3>1
    <3> QED
      BY <3>2 DEF Basis
  <2>3. rec'[o] = rec[o] \/ rec[o].rev < rec'[o].rev
    <3>1. CASE Declared(o)
      BY <3>1 DEF Declared, UndeclaredIsFresh
    <3>2. CASE Advanced(o) \/ Concludes(o)
      BY <1>1, <3>2 DEF Advanced, Concludes
    <3> QED
      BY <3>1, <3>2, RecordSteps
  <2> QED
    BY <1>1, <1>2, <2>1, <2>2, <2>3 DEF RollbackSound
<1>3. CASE i \notin DOMAIN accepted[o]
  <2>1. PICK a \in ResolutionAction :
           /\ Resolve(o, a)
           /\ accepted'[o][i].action = a
           /\ accepted'[o][i].rev = rec[o].rev
           /\ accepted'[o][i].view = View(TaskOf[o])
    BY <1>3, AcceptedSteps
  <2>2. rec' = rec /\ rec[o].status # "NONE" /\ (a # "ABORT" => Decision(o) = a)
    BY <2>1 DEF Resolve
  <2> QED
    BY <1>1, <2>1, <2>2, RollbackNeedsEffect
<1> QED
  BY <1>2, <1>3

PInv == TypeOK /\ BoundaryInv /\ BasisInv /\ ClosedInv /\ RollbackSound

LEMMA FateCases ==
  /\ FateOf("NONE") = "none" /\ FateOf("INTENT") = "declared"
  /\ FateOf("STARTED") = "begun" /\ FateOf("UNKNOWN") = "begun"
  /\ FateOf("DONE") = "made" /\ FateOf("VERIFIED") = "verified"
  /\ FateOf("FAILED") = "failed"
<1>1. FateOf("NONE") = "none"
  BY DEF FateOf, OpenFate
<1>2. FateOf("INTENT") = "declared"
  BY DEF FateOf, OpenFate
<1>3. FateOf("STARTED") = "begun"
  BY DEF FateOf, OpenFate
<1>4. FateOf("UNKNOWN") = "begun"
  BY DEF FateOf, OpenFate
<1>5. FateOf("DONE") = "made"
  BY DEF FateOf, OpenFate
<1>6. FateOf("VERIFIED") = "verified"
  BY DEF FateOf, OpenFate
<1>7. FateOf("FAILED") = "failed"
  BY DEF FateOf, OpenFate
<1> QED
  BY <1>1, <1>2, <1>3, <1>4, <1>5, <1>6, <1>7

(* What a client can see of a step, by the kind of the step. *)
LEMMA StepKinds ==
  ASSUME TypeOK, [Next]_vars
  PROVE  \/ \E w \in Workers, o \in Ops : NewIntent(w, o)
         \/ \E o \in Ops, s \in OperationStatus :
               Transition(o, s) /\ UNCHANGED <<file, accepted, open, claims, author>>
         \/ \E o \in Ops, r \in Nat :
               Grantable(o, r) /\ Grant(o, r) /\ UNCHANGED <<records, author>>
         \/ \E o \in Ops :
               Releasable(o) /\ EndClaim(o) /\ UNCHANGED <<records, author>>
         \/ \E w \in Workers : Apply(w)
         \/ \E o \in Ops, a \in ResolutionAction : Resolve(o, a)
         \/ \E k \in Tasks : CloseTask(k)
         \/ \E t \in Targets : ForeignEdit(t)
         \/ \E o \in Ops : SettleRecovery(o)
         \/ \E o \in Ops : Restore(o)
         \/ UNCHANGED <<file, rec, accepted, open, claims, author>>
<1>0. CASE Recovery
  BY <1>0, RecoveryKinds DEF SetStage, history
<1>1. CASE ~UNCHANGED claims /\ ~Recovery
  <2>1. author' = author /\ ~\E o \in Ops : Restore(o)
    BY <1>1
       DEF Next, Request, NewIntent, ReplayIntent, Step, Drive, Admit, Acquire, EnterBoundary,
           RefuseBoundary, Start, Apply, ApplyFails, Prove, Settle, Release, LockTimeout, Crash,
           Agent, ApiAcquire, ApiRelease, ApiTransition, Resolve,
           Stage, StageMove, AskActivation, BlockPreparation, Activate, Verify,
           CloseTask, SetStage, World, ForeignEdit, RestorePointBreaks, history, vars, Recovery
  <2> QED
    BY <1>1, <2>1, ClaimSteps
<1>2. ASSUME NEW w \in Workers, Start(w) \/ Prove(w)
      PROVE  \/ \E o \in Ops, s \in OperationStatus :
                   Transition(o, s) /\ UNCHANGED <<file, accepted, open, claims, author>>
             \/ UNCHANGED <<file, rec, accepted, open, claims, author>>
  <2>1. call[w].op \in Ops
    BY <1>2, CallType DEF Start, Prove, TypeOK
  <2>2. "STARTED" \in OperationStatus /\ "DONE" \in OperationStatus
    BY DEF OperationStatus
  <2> QED
    BY <1>2, <2>1, <2>2 DEF Start, Prove, history
<1>3. ASSUME NEW o \in Ops, ApiTransition(o)
      PROVE  \E s \in OperationStatus :
                   Transition(o, s) /\ UNCHANGED <<file, accepted, open, claims, author>>
  BY <1>3 DEF ApiTransition, history
<1>4. ASSUME UNCHANGED claims, ~Recovery,
             ~UNCHANGED <<file, rec, accepted, open, claims, author>>
      PROVE  \/ \E w \in Workers : Start(w) \/ Prove(w) \/ Apply(w)
             \/ \E w \in Workers, o \in Ops : NewIntent(w, o)
             \/ \E o \in Ops : ApiTransition(o)
             \/ \E o \in Ops, a \in ResolutionAction : Resolve(o, a)
             \/ \E k \in Tasks : CloseTask(k)
             \/ \E t \in Targets : ForeignEdit(t)
  BY <1>4
     DEF Next, Request, ReplayIntent, Step, Drive, Admit, Acquire, EnterBoundary,
         RefuseBoundary, ApplyFails, Settle, Release, LockTimeout, Crash,
         Agent, ApiAcquire, ApiRelease,
         Stage, StageMove, AskActivation, BlockPreparation, Activate, Verify,
         SetStage, World, RestorePointBreaks, records, history, vars
<1> QED
  BY <1>0, <1>1, <1>2, <1>3, <1>4

(* Fates and declarations move together with one record. *)
LEMMA FateMoves ==
  ASSUME TypeOK, NEW o \in Ops, NEW r, rec' = [rec EXCEPT ![o] = r]
  PROVE  /\ Fates' = [Fates EXCEPT ![o] = FateOf(r.status)]
         /\ Declares' = [Declares EXCEPT ![o] = r.pre]
<1>1. rec'[o] = r /\ \A p \in Ops \ {o} : rec'[p] = rec[p]
  BY DEF TypeOK, RecordsOK
<1>2. Fates' = [p \in Ops |-> IF p = o THEN FateOf(r.status) ELSE FateOf(rec[p].status)]
  BY <1>1 DEF Fates
<1>3. Declares' = [p \in Ops |-> IF p = o THEN r.pre ELSE rec[p].pre]
  BY <1>1 DEF Declares
<1>4. Fates' = [Fates EXCEPT ![o] = FateOf(r.status)]
  BY <1>2 DEF Fates
<1>5. Declares' = [Declares EXCEPT ![o] = r.pre]
  BY <1>3 DEF Declares
<1> QED
  BY <1>4, <1>5

LEMMA DecisionsKept ==
  ASSUME accepted' = accepted
  PROVE  Decisions' = Decisions /\ Halted' = Halted
  BY DEF Decisions, Halted, Spoken, Aborted

LEMMA InitShown == Init => Promise!Init
<1> SUFFICES ASSUME Init PROVE Promise!Init
  OBVIOUS
<1>1. file = InitialBytes
  BY DEF Init
<1>2. Holders = [t \in Targets |-> None]
  BY DEF Init, Holders, NoClaim
<1>3. Fates = [o \in Ops |-> "none"]
  BY FateCases DEF Init, Fates
<1>4. Declares \in [Ops -> Bytes]
  BY ConstantsAssumption DEF Init, Declares
<1>5. Untracked = Targets
  BY DEF Init, Untracked
<1>6. Decisions = {} /\ Halted = {}
  BY DEF Init, Decisions, Halted, Spoken, Aborted, OpsOf
<1>7. ClosedTasks = {}
  BY DEF Init, ClosedTasks
<1> QED
  BY <1>1, <1>2, <1>3, <1>4, <1>5, <1>6, <1>7
     DEF Promise!Init, Holders, Fates, Declares, Untracked, Decisions, Halted, ClosedTasks

LEMMA DeclareShown ==
  ASSUME PInv, NEW w \in Workers, NEW o \in Ops, NewIntent(w, o)
  PROVE  Promise!Declare(o)
<1> DEFINE r == [status |-> "INTENT", rev |-> 1, pre |-> file[TargetOf[o]]]
<1>1. /\ rec' = [rec EXCEPT ![o] = r]
      /\ open[TaskOf[o]] /\ rec[o].status = "NONE"
      /\ UNCHANGED <<file, accepted, open, active, author>>
  BY DEF NewIntent, claims, history
<1>2. Fates' = [Fates EXCEPT ![o] = "declared"]
      /\ Declares' = [Declares EXCEPT ![o] = file[TargetOf[o]]]
  <2>1. r.status = "INTENT" /\ r.pre = file[TargetOf[o]]
    OBVIOUS
  <2> HIDE DEF r
  <2>2. Fates' = [Fates EXCEPT ![o] = FateOf(r.status)]
        /\ Declares' = [Declares EXCEPT ![o] = r.pre]
    BY <1>1, FateMoves DEF PInv
  <2> QED
    BY <2>1, <2>2, FateCases
<1>3. Fates[o] = "none"
  BY <1>1, FateCases DEF Fates
<1>4. /\ Decisions' = Decisions /\ Halted' = Halted
      /\ Holders' = Holders /\ Untracked' = Untracked /\ ClosedTasks' = ClosedTasks
  BY <1>1, DecisionsKept DEF Holders, Untracked, ClosedTasks
<1>5. TaskOf[o] \notin ClosedTasks
  BY <1>1 DEF ClosedTasks
<1> QED
  BY <1>1, <1>2, <1>3, <1>4, <1>5
     DEF Promise!Declare, Promise!Becomes, Promise!Live, Promise!There,
         Holders, Fates, Declares, Untracked, Decisions, Halted, ClosedTasks

LEMMA StatusShown ==
  ASSUME PInv, NEW o \in Ops, NEW s \in OperationStatus, Transition(o, s),
         UNCHANGED <<file, accepted, open, claims, author>>
  PROVE  Promise!Begin(o) \/ Promise!Made(o) \/ Promise!Verify(o) \/ Promise!Fail(o)
<1> DEFINE r == [status |-> s, rev |-> rec[o].rev + 1, pre |-> rec[o].pre]
<1>1. /\ rec' = [rec EXCEPT ![o] = r]
      /\ open[TaskOf[o]] /\ <<rec[o].status, s>> \in Allowed
      /\ s = "DONE" => file[TargetOf[o]] = Post(o)
      /\ active' = active
  BY DEF Transition, claims
<1>2. Fates' = [Fates EXCEPT ![o] = FateOf(s)] /\ Declares' = [Declares EXCEPT ![o] = rec[o].pre]
  <2>1. r.status = s /\ r.pre = rec[o].pre
    OBVIOUS
  <2> HIDE DEF r
  <2>2. Fates' = [Fates EXCEPT ![o] = FateOf(r.status)]
        /\ Declares' = [Declares EXCEPT ![o] = r.pre]
    BY <1>1, FateMoves DEF PInv
  <2> QED
    BY <2>1, <2>2
<1>3. Declares' = Declares
  BY <1>2 DEF Declares
<1>4. /\ Decisions' = Decisions /\ Halted' = Halted
      /\ Holders' = Holders /\ Untracked' = Untracked /\ ClosedTasks' = ClosedTasks
  BY <1>1, DecisionsKept DEF Holders, Untracked, ClosedTasks
<1>5. TaskOf[o] \notin ClosedTasks
  BY <1>1 DEF ClosedTasks
<1>6. Fates[o] = FateOf(rec[o].status)
  BY DEF Fates
<1>7. \/ FateOf(s) = "begun" /\ Fates[o] \in {"declared", "begun"}
      \/ FateOf(s) = "made" /\ Fates[o] = "begun" /\ file[TargetOf[o]] = Post(o)
      \/ FateOf(s) = "verified" /\ Fates[o] = "made"
      \/ FateOf(s) = "failed" /\ Fates[o] \in {"declared", "begun", "made"}
  BY <1>1, <1>6, FateCases DEF Allowed
<1>8. CASE FateOf(s) = "begun" /\ Fates[o] \in {"declared", "begun"}
  BY <1>2, <1>3, <1>4, <1>5, <1>8
     DEF Promise!Begin, Promise!Becomes, Promise!Live,
         Holders, Fates, Declares, Untracked, Decisions, Halted, ClosedTasks
<1>9. CASE FateOf(s) = "made" /\ Fates[o] = "begun" /\ file[TargetOf[o]] = Post(o)
  BY <1>2, <1>3, <1>4, <1>5, <1>9
     DEF Promise!Made, Promise!Becomes, Promise!Live, Promise!There,
         Holders, Fates, Declares, Untracked, Decisions, Halted, ClosedTasks
<1>10. CASE FateOf(s) = "verified" /\ Fates[o] = "made"
  BY <1>2, <1>3, <1>4, <1>5, <1>10
     DEF Promise!Verify, Promise!Becomes, Promise!Live,
         Holders, Fates, Declares, Untracked, Decisions, Halted, ClosedTasks
<1>11. CASE FateOf(s) = "failed" /\ Fates[o] \in {"declared", "begun", "made"}
  BY <1>2, <1>3, <1>4, <1>5, <1>11
     DEF Promise!Fail, Promise!Becomes, Promise!Live,
         Holders, Fates, Declares, Untracked, Decisions, Halted, ClosedTasks
<1> QED
  BY <1>7, <1>8, <1>9, <1>10, <1>11

(* A grant to the operation that owns the target already is not seen.      *)
LEMMA GrantShown ==
  ASSUME PInv, NEW o \in Ops, NEW r \in Nat, Grantable(o, r), Grant(o, r),
         UNCHANGED <<records, author>>
  PROVE  Promise!Take(o) \/ UNCHANGED Promise!vars
<1> DEFINE t == TargetOf[o]
<1>0. t \in Targets /\ TaskOf[o] \in Tasks /\ TypeOK
  BY ConstantsAssumption DEF PInv
<1>1. /\ UNCHANGED <<file, rec, accepted, open, author>>
      /\ active' = [active EXCEPT ![t] = [op |-> o, rev |-> r, gen |-> generation[t]]]
  BY DEF Grant, records
<1>2. /\ Fates' = Fates /\ Declares' = Declares /\ Untracked' = Untracked
      /\ Decisions' = Decisions /\ Halted' = Halted /\ ClosedTasks' = ClosedTasks
  BY <1>1, DecisionsKept DEF Fates, Declares, Untracked, ClosedTasks
<1>3. active'[t].op = o /\ \A u \in Targets \ {t} : active'[u] = active[u]
  BY <1>0, <1>1 DEF TypeOK, ClaimsOK
<1>4. Holders' = [u \in Targets |-> IF u = t THEN o ELSE active[u].op]
  BY <1>3 DEF Holders
<1>5. CASE Own(o)
  <2>1. Holders' = Holders
    BY <1>4, <1>5 DEF Holders, Own
  <2> QED
    BY <1>1, <1>2, <2>1
       DEF Promise!vars, Holders, Fates, Declares, Untracked, Decisions, Halted, ClosedTasks
<1>6. CASE ~Own(o)
  <2>1. Holders[t] = None /\ file[t] = Declares[o]
    BY <1>0, <1>6 DEF Grantable, NoClaim, Holders, Declares
  <2>2. Holders' = [Holders EXCEPT ![t] = o]
    BY <1>4 DEF Holders
  <2>3. open[TaskOf[o]]
    <3>1. CASE rec[o].status = "INTENT"
      BY <1>6, <3>1 DEF PInv, ClosedInv, Grantable, Eligible
    <3>2. CASE Current(o, "RETRY")
      BY <3>2 DEF Current, Fresh
    <3> QED
      BY <3>1, <3>2 DEF Grantable, Eligible
  <2>4. TaskOf[o] \notin ClosedTasks
    BY <2>3 DEF ClosedTasks
  <2>5. Fates[o] \in {"declared", "begun", "failed"}
    BY <1>0, FateCases
       DEF Grantable, Eligible, Fates, TypeOK, RecordsOK, Record, OperationStatus, Completed
  <2> QED
    BY <1>0, <1>1, <1>2, <2>1, <2>2, <2>4, <2>5
       DEF Promise!Take, Promise!Live, Promise!There,
           Holders, Fates, Declares, Untracked, Decisions, Halted, ClosedTasks
<1> QED
  BY <1>5, <1>6

LEMMA EndClaimShown ==
  ASSUME PInv, NEW o \in Ops, Releasable(o), EndClaim(o), UNCHANGED <<records, author>>
  PROVE  Promise!GiveBack(o)
<1> DEFINE t == TargetOf[o]
<1>0. t \in Targets /\ TypeOK
  BY ConstantsAssumption DEF PInv
<1>1. /\ UNCHANGED <<file, rec, accepted, open, author>>
      /\ active' = [active EXCEPT ![t] = NoClaim]
  BY DEF EndClaim, records
<1>2. /\ Fates' = Fates /\ Declares' = Declares /\ Untracked' = Untracked
      /\ Decisions' = Decisions /\ Halted' = Halted /\ ClosedTasks' = ClosedTasks
  BY <1>1, DecisionsKept DEF Fates, Declares, Untracked, ClosedTasks
<1>3. active'[t].op = None /\ \A u \in Targets \ {t} : active'[u] = active[u]
  BY <1>0, <1>1 DEF TypeOK, ClaimsOK, NoClaim
<1>4. Holders' = [u \in Targets |-> IF u = t THEN None ELSE active[u].op]
  BY <1>3 DEF Holders
<1>5. Holders' = [Holders EXCEPT ![t] = None]
  BY <1>4 DEF Holders
<1>6. Holders[t] = o
  BY <1>0 DEF Releasable, Own, Holders
<1>7. ASSUME Fates[o] = "begun" PROVE o \in Decisions
  <2>1. rec[o].status \in OpenFate
    BY <1>0, <1>7, FateCases
       DEF Fates, OpenFate, TypeOK, RecordsOK, Record, OperationStatus
  <2> QED
    BY <2>1 DEF Releasable, Decisions, Spoken, Aborted, AnyFresh
<1> QED
  BY <1>1, <1>2, <1>5, <1>6, <1>7
     DEF Promise!GiveBack,
         Holders, Fates, Declares, Untracked, Decisions, Halted, ClosedTasks

LEMMA ApplyShown ==
  ASSUME PInv, NEW w \in Workers, Apply(w)
  PROVE  \E o \in Ops : Promise!Change(o)
<1>1. PICK o \in Ops :
         /\ o = call[w].op
         /\ Own(o) /\ rec[o].status = "STARTED" /\ open[TaskOf[o]]
         /\ UNCHANGED <<rec, open, active>>
  BY WriterStands DEF PInv, claims
<1> DEFINE t == TargetOf[o]
<1>2. t \in Targets /\ TaskOf[o] \in Tasks /\ TypeOK
  BY <1>1, ConstantsAssumption DEF PInv
<1>3. /\ file' = [file EXCEPT ![t] = Post(o)] /\ author' = [author EXCEPT ![t] = o]
      /\ accepted' = accepted
  BY <1>1 DEF Apply
<1>4. /\ Fates' = Fates /\ Declares' = Declares /\ Holders' = Holders
      /\ Decisions' = Decisions /\ Halted' = Halted /\ ClosedTasks' = ClosedTasks
  BY <1>1, <1>3, DecisionsKept DEF Fates, Declares, Holders, ClosedTasks
<1>5. author'[t] # None /\ \A u \in Targets \ {t} : author'[u] = author[u]
  BY <1>1, <1>2, <1>3, ConstantsAssumption DEF TypeOK, HistoryOK
<1>6. Untracked' = Untracked \ {t}
  BY <1>5 DEF Untracked
<1>7. Inside(w)
  BY DEF Apply, Inside, InBoundary
<1>8. TaskOf[o] \notin Halted
  BY <1>1, <1>7 DEF PInv, BoundaryInv, Authority, Halted
<1>9. file[t] = Declares[o] \/ t \in Untracked
  BY <1>1, <1>2, <1>7 DEF PInv, BoundaryInv, Standing, Apply, Declares, Untracked
<1>10. Holders[t] = o /\ Fates[o] = "begun" /\ TaskOf[o] \notin ClosedTasks
  BY <1>1, <1>2, FateCases DEF Own, Holders, Fates, ClosedTasks
<1>11. Promise!Change(o)
  BY <1>1, <1>3, <1>4, <1>6, <1>8, <1>9, <1>10
     DEF Promise!Change, Promise!Live, Promise!There,
         Holders, Fates, Declares, Untracked, Decisions, Halted, ClosedTasks
<1> QED
  BY <1>11

(* A RETRY or a ROLLBACK is authority inside; only ABORT and ADOPT show.   *)
LEMMA ResolveShown ==
  ASSUME PInv, NEW o \in Ops, NEW a \in ResolutionAction, Resolve(o, a)
  PROVE  Promise!Decide(o) \/ UNCHANGED Promise!vars
<1>0. TypeOK /\ TaskOf[o] \in Tasks
  BY ConstantsAssumption DEF PInv
<1>1. UNCHANGED <<file, rec, open, active, author>>
  BY DEF Resolve, claims, history
<1>2. /\ Fates' = Fates /\ Declares' = Declares /\ Holders' = Holders
      /\ Untracked' = Untracked /\ ClosedTasks' = ClosedTasks
  BY <1>1 DEF Fates, Declares, Holders, Untracked, ClosedTasks
<1>3. CASE a \in {"ABORT", "ADOPT"}
  <2>1. Decisions' = Decisions \cup {o}
    BY <1>0, <1>3, ResolveSays DEF Decisions
  <2>2. Halted' \in {Halted, Halted \cup {TaskOf[o]}}
    <3>1. CASE a = "ABORT"
      <4>1. \A k \in Tasks : (\E p \in OpsOf(k) : Aborted(p)')
                               <=> (\E p \in OpsOf(k) : Aborted(p)) \/ k = TaskOf[o]
        BY <1>0, <3>1, ResolveSays DEF OpsOf
      <4> QED
        BY <1>0, <4>1 DEF Halted, OpsOf
    <3>2. CASE a # "ABORT"
      <4>1. \A p \in Ops : Aborted(p)' = Aborted(p)
        BY <1>0, <3>2, ResolveSays DEF Aborted
      <4> QED
        BY <4>1 DEF Halted, OpsOf
    <3> QED
      BY <3>1, <3>2
  <2>3. open[TaskOf[o]] /\ rec[o].status # "NONE"
    BY DEF Resolve
  <2>4. TaskOf[o] \notin ClosedTasks
    BY <2>3 DEF ClosedTasks
  <2>5. Fates[o] # "none"
    BY <1>0, <2>3, FateCases DEF Fates, TypeOK, RecordsOK, Record, OperationStatus
  <2>6. Promise!Decide(o)
    BY <1>1, <1>2, <2>1, <2>2, <2>4, <2>5
       DEF Promise!Decide, Promise!Live,
           Holders, Fates, Declares, Untracked, Decisions, Halted, ClosedTasks
  <2> QED
    BY <2>6
<1>4. CASE a \notin {"ABORT", "ADOPT"}
  <2>1. \A p \in Ops : Spoken(p)' = Spoken(p) /\ Aborted(p)' = Aborted(p)
    BY <1>0, <1>4, ResolveSays DEF Spoken, Aborted
  <2>2. Decisions' = Decisions /\ Halted' = Halted
    BY <2>1 DEF Decisions, Halted, OpsOf
  <2> QED
    BY <1>1, <1>2, <2>2
       DEF Promise!vars, Holders, Fates, Declares, Untracked, Decisions, Halted, ClosedTasks
<1> QED
  BY <1>3, <1>4

LEMMA CloseShown ==
  ASSUME PInv, NEW k \in Tasks, CloseTask(k)
  PROVE  Promise!Close(k)
<1>0. TypeOK /\ TargetOf \in [Ops -> Targets]
  BY ConstantsAssumption DEF PInv
<1>1. /\ UNCHANGED <<file, rec, accepted, active, author>>
      /\ open' = [open EXCEPT ![k] = FALSE] /\ Closable(k)
  BY DEF CloseTask, claims, history
<1>2. /\ Fates' = Fates /\ Declares' = Declares /\ Holders' = Holders
      /\ Untracked' = Untracked /\ Decisions' = Decisions /\ Halted' = Halted
  BY <1>1, DecisionsKept DEF Fates, Declares, Holders, Untracked
<1>3. ClosedTasks' = ClosedTasks \cup {k}
  BY <1>0, <1>1 DEF ClosedTasks, TypeOK, RecordsOK
<1>4. ASSUME NEW o \in Ops, TaskOf[o] = k
      PROVE  /\ Holders[TargetOf[o]] # o
             /\ Fates[o] \in {"none", "verified", "failed"} \/ o \in Decisions
  <2>1. Concluded(o) /\ ~Own(o)
    BY <1>1, <1>4 DEF Closable, OpsOf
  <2>2. Holders[TargetOf[o]] # o
    BY <1>0, <2>1 DEF Holders, Own
  <2>3. CASE Aborted(o)
    BY <2>2, <2>3 DEF Decisions, Spoken, Aborted
  <2>4. CASE rec[o].status \in {"NONE", "VERIFIED", "FAILED"}
    BY <2>2, <2>4, FateCases DEF Fates
  <2> QED
    BY <2>1, <2>3, <2>4 DEF Concluded
<1> QED
  BY <1>1, <1>2, <1>3, <1>4
     DEF Promise!Close,
         Holders, Fates, Declares, Untracked, Decisions, Halted, ClosedTasks

(* An ADOPT is seen, any other settlement changes no fate. *)
LEMMA SettlementShown ==
  ASSUME PInv, NEW o \in Ops, SettleRecovery(o)
  PROVE  Promise!Adopt(o) \/ UNCHANGED Promise!vars
<1>0. TypeOK
  BY DEF PInv
<1>1. PICK i \in DOMAIN accepted[o] : Settleable(o, i) /\ RecordSettlement(o, i)
  BY <1>0, SettlementParts
<1> DEFINE s == IF accepted[o][i].action = "ADOPT" THEN "VERIFIED" ELSE rec[o].status
           r == [status |-> s, rev |-> rec[o].rev + 1, pre |-> rec[o].pre]
<1>2. /\ UNCHANGED <<file, accepted, open, active, author>> /\ open[TaskOf[o]]
      /\ rec' = [rec EXCEPT ![o] = r]
  BY <1>1 DEF SettleRecovery, RecordSettlement, claims, history
<1>3. Fates' = [Fates EXCEPT ![o] = FateOf(s)] /\ Declares' = [Declares EXCEPT ![o] = rec[o].pre]
  <2>1. r.status = s /\ r.pre = rec[o].pre
    OBVIOUS
  <2> HIDE DEF r, s
  <2>2. Fates' = [Fates EXCEPT ![o] = FateOf(r.status)]
        /\ Declares' = [Declares EXCEPT ![o] = r.pre]
    BY <1>0, <1>2, FateMoves
  <2> QED
    BY <2>1, <2>2
<1>4. Declares' = Declares
  BY <1>3 DEF Declares
<1>5. /\ Decisions' = Decisions /\ Halted' = Halted
      /\ Holders' = Holders /\ Untracked' = Untracked /\ ClosedTasks' = ClosedTasks
  BY <1>2, DecisionsKept DEF Holders, Untracked, ClosedTasks
<1>6. CASE accepted[o][i].action = "ADOPT"
  <2>1. Adoptable(o, i)
    BY <1>1, <1>6 DEF Settleable
  <2>2. file[TargetOf[o]] = Post(o) /\ rec[o].status \in {"STARTED", "UNKNOWN", "DONE"}
    BY <2>1 DEF Adoptable, OpenFate
  <2>3. Fates[o] \in {"begun", "made"}
    BY <2>2, FateCases DEF Fates
  <2>4. o \in Decisions /\ TaskOf[o] \notin ClosedTasks
    BY <1>2, <1>6 DEF Decisions, Spoken, ClosedTasks
  <2>5. Fates' = [Fates EXCEPT ![o] = "verified"]
    BY <1>3, <1>6, FateCases
  <2> QED
    BY <1>2, <1>4, <1>5, <2>2, <2>3, <2>4, <2>5
       DEF Promise!Adopt, Promise!Becomes, Promise!Live, Promise!There,
           Holders, Fates, Declares, Untracked, Decisions, Halted, ClosedTasks
<1>7. CASE accepted[o][i].action # "ADOPT"
  <2>1. Fates' = Fates
    BY <1>3, <1>7 DEF Fates
  <2> QED
    BY <1>2, <1>4, <1>5, <2>1
       DEF Promise!vars, Holders, Fates, Declares, Untracked, Decisions, Halted, ClosedTasks
<1> QED
  BY <1>6, <1>7

(* A rollback takes back what its operation's TASK has done. *)
LEMMA RestoreShown ==
  ASSUME PInv, NEW o \in Ops, Restore(o)
  PROVE  Promise!Undo(o)
<1> DEFINE t == TargetOf[o]
           M == Manifest(TaskOf[o])
<1>0. /\ TypeOK /\ t \in Targets /\ TaskOf[o] \in Tasks
      /\ M \subseteq Targets /\ t \in M
  BY ConstantsAssumption DEF PInv, Manifest, OpsOf
<1>1. PICK i \in DOMAIN accepted[o], S \in SUBSET M :
         /\ Undoable(o, i)
         /\ file' = [u \in Targets |-> IF u \in S THEN InitialBytes[u] ELSE file[u]]
         /\ author' = [u \in Targets |->
                          IF u \in S /\ (file[u] # InitialBytes[u] \/ author[u] = o)
                          THEN None ELSE author[u]]
  BY DEF Restore
<1>2. /\ UNCHANGED <<rec, accepted, open>> /\ Unowned(o)
      /\ active' = [u \in Targets |-> IF u \in M THEN NoClaim ELSE active[u]]
  BY DEF Restore
<1>3. /\ Fates' = Fates /\ Declares' = Declares
      /\ Decisions' = Decisions /\ Halted' = Halted /\ ClosedTasks' = ClosedTasks
  BY <1>2, DecisionsKept DEF Fates, Declares, ClosedTasks
<1>4. Holders' = [u \in Targets |-> IF u \in M THEN None ELSE Holders[u]]
  BY <1>2 DEF Holders, NoClaim
<1>5. \E U \in SUBSET S : Untracked' = Untracked \cup U
  <2> DEFINE U == {u \in S : file[u] # InitialBytes[u] \/ author[u] = o}
  <2>1. Untracked' = Untracked \cup U
    BY <1>0, <1>1 DEF Untracked
  <2> QED
    BY <2>1
<1>6. accepted[o][i].action = "ROLLBACK" /\ Fresh(o, i)
  BY <1>1 DEF Undoable
<1>7. /\ open[TaskOf[o]] /\ accepted[o][i].rev = rec[o].rev
      /\ accepted[o][i].view = View(TaskOf[o])
  BY <1>6 DEF Fresh
<1>8. file[t] \in {InitialBytes[t], Post(o)} /\ rec[o].status \notin {"NONE", "INTENT", "VERIFIED"}
  <2>1. View(TaskOf[o])[t] = file[t]
    BY <1>0 DEF View
  <2> QED
    BY <1>6, <1>7, <2>1 DEF PInv, RollbackSound
<1>9. Fates[o] \in {"begun", "made", "failed"} /\ TaskOf[o] \notin ClosedTasks
  BY <1>0, <1>7, <1>8, FateCases
     DEF Fates, ClosedTasks, TypeOK, RecordsOK, Record, OperationStatus
<1>10. \A u \in M : Holders[u] \in {None, o}
  BY <1>0, <1>2 DEF Unowned, Holders
<1>11. Promise!Reach(o) = M
  BY DEF Promise!Reach, Manifest, OpsOf
<1> HIDE DEF M
<1>12. /\ \E R \in SUBSET M :
             /\ file' = [u \in Targets |-> IF u \in R THEN InitialBytes[u] ELSE file[u]]
             /\ Untracked' \in {Untracked \cup U : U \in SUBSET R}
  BY <1>1, <1>5
<1> QED
  BY <1>2, <1>3, <1>4, <1>8, <1>9, <1>10, <1>11, <1>12
     DEF Promise!Undo, Promise!Live, Promise!There,
         Holders, Fates, Declares, Untracked, Decisions, Halted, ClosedTasks

LEMMA EditShown ==
  ASSUME PInv, NEW t \in Targets, ForeignEdit(t)
  PROVE  Promise!Tamper(t)
<1>0. TypeOK
  BY DEF PInv
<1>1. /\ UNCHANGED <<rec, accepted, open, active>>
      /\ author' = [author EXCEPT ![t] = None]
  BY DEF ForeignEdit, claims
<1>2. \E b \in Bytes : file' = [file EXCEPT ![t] = b]
  BY ConstantsAssumption DEF ForeignEdit
<1>3. /\ Fates' = Fates /\ Declares' = Declares /\ Holders' = Holders
      /\ Decisions' = Decisions /\ Halted' = Halted /\ ClosedTasks' = ClosedTasks
  BY <1>1, DecisionsKept DEF Fates, Declares, Holders, ClosedTasks
<1>4. Untracked' = Untracked \cup {t}
  BY <1>0, <1>1 DEF Untracked, TypeOK, HistoryOK
<1> QED
  BY <1>2, <1>3, <1>4
     DEF Promise!Tamper,
         Holders, Fates, Declares, Untracked, Decisions, Halted, ClosedTasks

LEMMA NothingShown ==
  ASSUME UNCHANGED <<file, rec, accepted, open, claims, author>>
  PROVE  UNCHANGED Promise!vars
<1>1. /\ Fates' = Fates /\ Declares' = Declares /\ Holders' = Holders
      /\ Untracked' = Untracked /\ ClosedTasks' = ClosedTasks
      /\ Decisions' = Decisions /\ Halted' = Halted
  BY DecisionsKept DEF Fates, Declares, Holders, Untracked, ClosedTasks, claims
<1> QED
  BY <1>1
     DEF Promise!vars, Holders, Fates, Declares, Untracked, Decisions, Halted, ClosedTasks

LEMMA StepShown ==
  ASSUME PInv, [Next]_vars
  PROVE  [Promise!Next]_(Promise!vars)
<1> USE DEF Promise!Next
<1>0. TypeOK
  BY DEF PInv
<1>1. CASE \E w \in Workers, o \in Ops : NewIntent(w, o)
  BY <1>1, DeclareShown
<1>2. CASE \E o \in Ops, s \in OperationStatus :
              Transition(o, s) /\ UNCHANGED <<file, accepted, open, claims, author>>
  BY <1>2, StatusShown
<1>3. CASE \E o \in Ops, r \in Nat :
              Grantable(o, r) /\ Grant(o, r) /\ UNCHANGED <<records, author>>
  BY <1>3, GrantShown
<1>4. CASE \E o \in Ops : Releasable(o) /\ EndClaim(o) /\ UNCHANGED <<records, author>>
  BY <1>4, EndClaimShown
<1>5. CASE \E w \in Workers : Apply(w)
  BY <1>5, ApplyShown
<1>6. CASE \E o \in Ops, a \in ResolutionAction : Resolve(o, a)
  BY <1>6, ResolveShown
<1>7. CASE \E k \in Tasks : CloseTask(k)
  BY <1>7, CloseShown
<1>8. CASE \E t \in Targets : ForeignEdit(t)
  BY <1>8, EditShown
<1>9. CASE UNCHANGED <<file, rec, accepted, open, claims, author>>
  BY <1>9, NothingShown
<1>10. CASE \E o \in Ops : SettleRecovery(o)
  BY <1>10, SettlementShown
<1>11. CASE \E o \in Ops : Restore(o)
  BY <1>11, RestoreShown
<1> QED
  BY <1>0, <1>1, <1>2, <1>3, <1>4, <1>5, <1>6, <1>7, <1>8, <1>9, <1>10, <1>11, StepKinds

(* Every behaviour of the workers, the agents, the closeout and the        *)
(* outside world is one of the abstract single-owner target: bytes change  *)
(* only by the one operation that has them, DONE is said only of announced *)
(* bytes, and an undecided fate keeps its target.                          *)
THEOREM ExecutionKeepsItsPromise == Spec => ImplementsPromise
<1>1. Init => PInv
  <2>1. Init => ClosedInv /\ RollbackSound
    BY ConstantsAssumption DEF Init, ClosedInv, RollbackSound
  <2> QED
    BY <2>1, TypeInit, BoundaryInit, BasisInit DEF PInv
<1>2. PInv /\ [Next]_vars => PInv'
  <2>1. PInv => UndeclaredIsFresh
    BY DEF PInv, BasisInv
  <2> QED
    BY <2>1, TypeStep, BoundaryStep, BasisStep, ClosedStep, RollbackSoundStep DEF PInv
<1> QED
  BY InitShown, StepShown, <1>1, <1>2, PTL DEF Spec, ImplementsPromise, Promise!Spec
====
