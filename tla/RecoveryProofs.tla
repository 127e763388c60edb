---- MODULE RecoveryProofs ----
(***************************************************************************)
(* Recovery of one microtask, for any operations, targets, recover calls   *)
(* and bounds: a settlement is final and can be completed, it holds the    *)
(* stage, and only what has executed is ever restored.                     *)
(***************************************************************************)
EXTENDS RecoverySafety, WellFoundedInduction, TLAPS

(* A resolution was accepted on a revision the operation has or had. *)
AcceptedOnRevision ==
    \A o \in Ops :
        /\ Len(accepted[o]) <= MaxResolutions
        /\ \A i \in DOMAIN accepted[o] : accepted[o][i].rev <= op[o].rev

(* A settlement repeats the resolution it carries out, and outdates every  *)
(* ROLLBACK of its operation.                                              *)
SettledByResolution ==
    \A o \in Ops :
        IsSettled(o) =>
            /\ settled[o].by \in DOMAIN accepted[o]
            /\ settled[o].action = accepted[o][settled[o].by].action
            /\ settled[o].action # "RETRY"
            /\ \A i \in DOMAIN accepted[o] :
                  accepted[o][i].action = "ROLLBACK" => accepted[o][i].rev < op[o].rev

(* Only a ROLLBACK has a session. *)
SessionsOfRollbacks ==
    \A o \in Ops : \A i \in 1..MaxResolutions :
        session[o][i] # "NONE" => i \in DOMAIN accepted[o] /\ accepted[o][i].action = "ROLLBACK"

(* What a recover call has decided stays a step of its resolution. *)
JobFits ==
    \A c \in Coordinators :
        /\ pc[c] # "idle" =>
              job[c].op \in Ops /\ job[c].step \in Steps /\ job[c].by \in DOMAIN accepted[job[c].op]
        /\ pc[c] = "lifecycle" => Step(c) \in {"SETTLE", "SETTLE_ROLLBACK"} /\ IsSettled(job[c].op)
        /\ pc[c] # "idle" /\ Step(c) \in {"SETTLE", "SETTLE_ROLLBACK"} =>
              Doing(c) \in IF Step(c) = "SETTLE" THEN {"ABORT", "ADOPT"} ELSE {"ROLLBACK"}

(* A microtask settled before it ever was ACTIVE is known by that. *)
NeverBegan == \E o \in Ops : settled[o].seen \in PreExecution

BegunOrKnown ==
    ~executed /\ (stage \notin PreExecution \/ \E o \in Ops : IsSettled(o)) => NeverBegan

(* Before it is ACTIVE only an ABORT settles anything. *)
AbortedBeforeBegun == stage \in PreExecution => \A o \in Ops : IsSettled(o) => settled[o].action = "ABORT"

IInv ==
    /\ TypeOK
    /\ AcceptedOnRevision
    /\ SettledByResolution
    /\ SessionsOfRollbacks
    /\ JobFits
    /\ BegunOrKnown
    /\ AbortedBeforeBegun

-----------------------------------------------------------------------------
(* The order of the numbers is well-founded, so a bounded set of them has  *)
(* a last one.                                                             *)
LEMMA LessWellFounded == IsWellFoundedOn({ss \in Nat \X Nat : ss[1] < ss[2]}, Nat)
  BY NatLessThanWellFounded, Zenon DEF OpToRel

(* The latest of some resolutions is one of them. *)
LEMMA LatestIsOne ==
  ASSUME NEW n \in Nat, NEW S \in SUBSET (1..n), S # {}
  PROVE  Latest(S) \in S
<1> DEFINE T == {n - i : i \in S}
<1>1. T \subseteq Nat /\ T # {}
  OBVIOUS
<1>2. PICK x \in T : \A y \in T : ~(<<y, x>> \in {ss \in Nat \X Nat : ss[1] < ss[2]})
  BY <1>1, WFMin, LessWellFounded
<1>3. PICK m \in S : x = n - m
  BY <1>2
<1>4. ASSUME NEW j \in S PROVE j <= m
  <2>1. n - j \in T /\ n - j \in Nat /\ x \in Nat
    BY <1>1
  <2>2. ~(<<n - j, x>>[1] < <<n - j, x>>[2])
    BY <1>2, <2>1
  <2> QED
    BY <1>3, <2>1, <2>2
<1>5. \E i \in S : \A j \in S : j <= i
  BY <1>4
<1> QED
  BY <1>5 DEF Latest

(* What an accepted resolution is. *)
LEMMA ResolutionType ==
  ASSUME TypeOK, NEW o \in Ops
  PROVE  /\ Len(accepted[o]) \in Nat /\ DOMAIN accepted[o] = 1..Len(accepted[o])
         /\ \A i \in DOMAIN accepted[o] :
               /\ accepted[o][i] \in [action : Actions, rev : Nat, view : [Targets -> Bytes]]
               /\ accepted[o][i].action \in Actions /\ accepted[o][i].rev \in Nat
<1> DEFINE R == [action : Actions, rev : Nat, view : [Targets -> Bytes]]
<1>1. accepted[o] \in Seq(R)
  BY DEF TypeOK
<1>2. \A r \in R : r.action \in Actions /\ r.rev \in Nat
  OBVIOUS
<1> HIDE DEF R
<1>3. \A i \in DOMAIN accepted[o] : accepted[o][i] \in R
  BY <1>1
<1>4. Len(accepted[o]) \in Nat /\ DOMAIN accepted[o] = 1..Len(accepted[o])
  BY <1>1
<1> QED
  BY <1>2, <1>3, <1>4 DEF R

(* The authoritative resolution is an accepted one, and an accepted ABORT  *)
(* if there is any (authoritative_resolution).                             *)
LEMMA AuthorityIsAccepted ==
  ASSUME TypeOK, NEW o \in Ops
  PROVE  /\ Authority(o) = 0 \/ Authority(o) \in DOMAIN accepted[o]
         /\ Aborted(o) => /\ Authority(o) \in DOMAIN accepted[o]
                          /\ accepted[o][Authority(o)].action = "ABORT"
<1> DEFINE n == Len(accepted[o])
           aborts == {i \in DOMAIN accepted[o] : Action(o, i) = "ABORT"}
           fresh == {i \in Speaking(o) : Fresh(o, i)}
<1>1. n \in Nat /\ DOMAIN accepted[o] = 1..n
  BY DEF TypeOK
<1>2. settled[o].by \in Nat /\ settled[o].by <= n
  BY DEF TypeOK
<1>3. Speaking(o) \subseteq 1..n /\ aborts \subseteq 1..n /\ fresh \subseteq 1..n
  BY <1>1 DEF Speaking
<1>4. \A S \in SUBSET (1..n) : IF S = {} THEN Latest(S) = 0 ELSE Latest(S) \in S
  BY <1>1, LatestIsOne DEF Latest
<1>5. Aborted(o) <=> aborts # {}
  BY <1>1 DEF Aborted, Action
<1>6. Authority(o) = IF aborts # {} THEN Latest(aborts) ELSE IF fresh # {} THEN Latest(fresh) ELSE Latest(Speaking(o))
  BY DEF Authority
<1>7. \A i \in aborts : accepted[o][i].action = "ABORT"
  BY <1>1 DEF Action
<1> HIDE DEF aborts, fresh, n
<1>8. CASE aborts # {}
  BY <1>1, <1>3, <1>4, <1>6, <1>7, <1>8
<1>9. CASE aborts = {}
  BY <1>1, <1>3, <1>4, <1>5, <1>6, <1>9
<1> QED
  BY <1>8, <1>9

(* Without an ABORT it is one that may speak, if there is one at all.      *)
LEMMA AuthoritySpeaks ==
  ASSUME TypeOK, NEW o \in Ops, ~Aborted(o), IsSettled(o), settled[o].by \in DOMAIN accepted[o]
  PROVE  Authority(o) \in Speaking(o)
<1> DEFINE n == Len(accepted[o])
           aborts == {i \in DOMAIN accepted[o] : Action(o, i) = "ABORT"}
           fresh == {i \in Speaking(o) : Fresh(o, i)}
<1>1. n \in Nat /\ DOMAIN accepted[o] = 1..n
  BY DEF TypeOK
<1>2. Speaking(o) \subseteq 1..n /\ fresh \subseteq Speaking(o) /\ Speaking(o) # {}
  BY <1>1 DEF Speaking
<1>3. aborts = {}
  BY <1>1 DEF Aborted, Action
<1>4. Authority(o) = IF fresh # {} THEN Latest(fresh) ELSE Latest(Speaking(o))
  BY <1>3 DEF Authority
<1>5. \A S \in SUBSET (1..n) : S # {} => Latest(S) \in S
  BY <1>1, LatestIsOne
<1> HIDE DEF n, fresh
<1> QED
  BY <1>2, <1>4, <1>5

(* What the settlement of an operation still says (Voice), case by case. *)
LEMMA VoiceIs ==
  ASSUME NEW o \in Ops
  PROVE  Voice(o) = IF ~IsSettled(o) THEN {}
                    ELSE IF Authority(o) = settled[o].by THEN {settled[o].action}
                    ELSE IF Aborted(o) THEN {"ABORT"} ELSE {}
  BY DEF Voice, LateAbort

(* Where the settlements that still speak want the microtask.              *)
LEMMA TargetIs ==
  ASSUME NEW A
  PROVE  /\ LifecycleTarget({}) = "NONE" /\ LifecycleTarget({"ADOPT"}) = "DONE"
         /\ A \cap Destructive # {} => LifecycleTarget(A) = "RECOVERY_REQUIRED"
<1>1. "ADOPT" \notin Destructive
  BY DEF Destructive
<1> QED
  BY <1>1 DEF LifecycleTarget

(* Settlements of ABORT, ADOPT and ROLLBACK always have a target.          *)
LEMMA TargetExists ==
  ASSUME TypeOK, NEW A \in SUBSET {"ABORT", "ADOPT", "ROLLBACK"}, A # {}
  PROVE  /\ EffectiveTarget(A) \in {"DONE", "RECOVERY_REQUIRED", "VERIFIED"}
         /\ EffectiveTarget(A) = "VERIFIED" => stage = "VERIFIED"
         /\ stage # "VERIFIED" => EffectiveTarget(A) = IF A = {"ADOPT"} THEN "DONE" ELSE "RECOVERY_REQUIRED"
         /\ EffectiveTarget(A) = "DONE" => A = {"ADOPT"}
<1>1. A = {"ADOPT"} \/ A \cap Destructive # {}
  BY DEF Destructive
<1>2. A = {"ADOPT"} => A \cap Destructive = {}
  BY DEF Destructive
<1>3. LifecycleTarget(A) = IF A = {"ADOPT"} THEN "DONE" ELSE "RECOVERY_REQUIRED"
  BY <1>1, <1>2, TargetIs
<1> QED
  BY <1>3 DEF EffectiveTarget

(* A settlement speaks for an ABORT, an ADOPT or a ROLLBACK. *)
LEMMA VoicesAre ==
  ASSUME SettledByResolution, TypeOK
  PROVE  /\ Voices \subseteq {"ABORT", "ADOPT", "ROLLBACK"}
         /\ \A o \in Ops : Voice(o) \subseteq Voices
         /\ Voices # {} => \E o \in Ops : IsSettled(o)
<1>1. ASSUME NEW o \in Ops PROVE Voice(o) \subseteq {"ABORT", "ADOPT", "ROLLBACK"} /\ (Voice(o) # {} => IsSettled(o))
  <2>1. IsSettled(o) => settled[o].action \in {"ABORT", "ADOPT", "ROLLBACK"}
    <3>1. IsSettled(o) => accepted[o][settled[o].by].action \in Actions
      BY ResolutionType DEF SettledByResolution
    <3> QED
      BY <3>1 DEF SettledByResolution, Actions, Destructive
  <2> QED
    BY <2>1, VoiceIs
<1> QED
  BY <1>1 DEF Voices

-----------------------------------------------------------------------------
(* Who writes what.                                                        *)

(* Operation records and resolutions. *)
RecordWriters ==
    \/ \E c \in Coordinators : Settle(c)
    \/ \E o \in Ops : \E a \in Actions : Resolve(o, a)
    \/ \E o \in Ops : Execute(o) \/ ApiTransition(o)
    \/ UNCHANGED <<op, settled, accepted>>

(* Rollback sessions: recover for the step it is at, or a direct request.  *)
SessionWriters ==
    \/ /\ \E o \in Ops : \E i \in 1..MaxResolutions :
             \/ PrepareSession(o, i) \/ RestoreSession(o, i)
             \/ GiveBackSession(o, i) \/ CloseSession(o, i)
       /\ UNCHANGED <<stage, settled, accepted, executed>>
    \/ UNCHANGED session

(* The status of the microtask. *)
StageWriters ==
    \/ \E c \in Coordinators :
          SettleLifecycle(c) \/ FinishSettlement(c) \/ RearmRetry(c) \/ StagePreflight(c)
    \/ PreparationEnds \/ PrepareAgain \/ Activate \/ StageMove \/ Verify
    \/ UNCHANGED <<stage, executed>>

(* Calls: one looks, goes on with what it decided, ends, or waits.         *)
CallStep(d) ==
    \/ Look(d) \/ Settle(d)
    \/ pc'[d] \in {"release", "rc4"} /\ pc[d] # "idle" /\ job'[d] = job[d]
    \/ pc'[d] = "idle"
    \/ pc'[d] = pc[d] /\ job'[d] = job[d]

LEMMA RecordsWritten == [Next]_vars => RecordWriters
<1> SUFFICES ASSUME [Next]_vars PROVE RecordWriters
  OBVIOUS
<1>1. ASSUME NEW c \in Coordinators, Look(c) \/ Act(c) \/ Crash(c) PROVE RecordWriters
  BY <1>1 DEF RecordWriters, Look, Act, Crash, SettleLifecycle, SettleRelease, FinishSettlement, RearmRetry,
              PrepareRollback, PrepareSession, CloseRollback, CloseSession, StagePreflight,
              ApplyRollback, RestoreSession, GiveBackSession, Refuse, facts
<1>2. ASSUME PreparationEnds \/ PrepareAgain \/ Activate \/ StageMove \/ Verify PROVE RecordWriters
  BY <1>2 DEF RecordWriters, PreparationEnds, PrepareAgain, Activate, StageMove, Verify, SetStage
<1>3. ASSUME NEW o \in Ops, OpRelease(o) \/ RollbackRequest(o) PROVE RecordWriters
  BY <1>3 DEF RecordWriters, OpRelease, RollbackRequest, PrepareSession, RestoreSession, GiveBackSession, CloseSession
<1>4. ASSUME NEW e \in Edits, ForeignEdit(e[1], e[2]) PROVE RecordWriters
  BY <1>4 DEF RecordWriters, ForeignEdit, facts
<1>5. ASSUME UNCHANGED vars PROVE RecordWriters
  BY <1>5 DEF RecordWriters, vars, facts
<1> QED
  BY <1>1, <1>2, <1>3, <1>4, <1>5 DEF Next, RecordWriters

LEMMA SessionsWritten == IInv /\ [Next]_vars => SessionWriters
<1> SUFFICES ASSUME IInv, [Next]_vars PROVE SessionWriters
  OBVIOUS
<1>1. ASSUME NEW c \in Coordinators, PrepareRollback(c) \/ CloseRollback(c) \/ ApplyRollback(c) PROVE SessionWriters
  <2>1. job[c].op \in Ops /\ job[c].by \in DOMAIN accepted[job[c].op]
    BY <1>1 DEF PrepareRollback, CloseRollback, ApplyRollback, Acts, IInv, JobFits
  <2>2. job[c].by \in 1..MaxResolutions
    BY <2>1, ResolutionType, SettlementAssumption DEF IInv, AcceptedOnRevision
  <2> QED
    BY <1>1, <2>1, <2>2 DEF PrepareRollback, CloseRollback, ApplyRollback, SessionWriters
<1>2. ASSUME NEW c \in Coordinators,
             \/ Look(c) \/ Crash(c) \/ Settle(c) \/ SettleLifecycle(c) \/ SettleRelease(c)
             \/ FinishSettlement(c) \/ RearmRetry(c) \/ StagePreflight(c) \/ Refuse(c)
      PROVE  SessionWriters
  BY <1>2 DEF SessionWriters, Look, Crash, Settle, SettleLifecycle, SettleRelease, FinishSettlement, RearmRetry,
              StagePreflight, Refuse, facts
<1>3. ASSUME PreparationEnds \/ PrepareAgain \/ Activate \/ StageMove \/ Verify PROVE SessionWriters
  BY <1>3 DEF SessionWriters, PreparationEnds, PrepareAgain, Activate, StageMove, Verify, SetStage
<1>4. ASSUME NEW o \in Ops, RollbackRequest(o) PROVE SessionWriters
  BY <1>4 DEF SessionWriters, RollbackRequest
<1>5. ASSUME NEW o \in Ops, Execute(o) \/ ApiTransition(o) \/ OpRelease(o) PROVE SessionWriters
  BY <1>5 DEF SessionWriters, Execute, ApiTransition, OpRelease
<1>6. ASSUME NEW o \in Ops, NEW a \in Actions, Resolve(o, a) PROVE SessionWriters
  BY <1>6 DEF SessionWriters, Resolve
<1>7. ASSUME NEW e \in Edits, ForeignEdit(e[1], e[2]) PROVE SessionWriters
  BY <1>7 DEF SessionWriters, ForeignEdit, facts
<1>8. ASSUME UNCHANGED vars PROVE SessionWriters
  BY <1>8 DEF SessionWriters, vars, facts
<1> QED
  BY <1>1, <1>2, <1>3, <1>4, <1>5, <1>6, <1>7, <1>8 DEF Next, Act

LEMMA StageWritten == [Next]_vars => StageWriters
<1> SUFFICES ASSUME [Next]_vars PROVE StageWriters
  OBVIOUS
<1>1. ASSUME NEW c \in Coordinators, Look(c) \/ Act(c) \/ Crash(c) PROVE StageWriters
  BY <1>1 DEF StageWriters, Look, Act, Crash, Settle, SettleRelease, PrepareRollback, PrepareSession,
              CloseRollback, CloseSession, ApplyRollback, RestoreSession, GiveBackSession, Refuse, facts
<1>2. ASSUME NEW o \in Ops, \/ Execute(o) \/ ApiTransition(o) \/ OpRelease(o) \/ RollbackRequest(o)
                           \/ \E a \in Actions : Resolve(o, a)
      PROVE  StageWriters
  BY <1>2 DEF StageWriters, Execute, ApiTransition, OpRelease, RollbackRequest, Resolve
<1>3. ASSUME NEW e \in Edits, ForeignEdit(e[1], e[2]) PROVE StageWriters
  BY <1>3 DEF StageWriters, ForeignEdit, facts
<1>4. ASSUME UNCHANGED vars PROVE StageWriters
  BY <1>4 DEF StageWriters, vars, facts
<1> QED
  BY <1>1, <1>2, <1>3, <1>4 DEF Next, StageWriters

LEMMA CallsStep ==
  ASSUME TypeOK, [Next]_vars, NEW d \in Coordinators
  PROVE  CallStep(d)
<1>0. pc \in [Coordinators -> {"idle", "act", "lifecycle", "release", "rc4"}]
      /\ job \in [Coordinators -> [step : Steps \cup {"NONE"}, op : Ops \cup {None}, by : Nat]]
  BY DEF TypeOK
<1>1. ASSUME NEW c \in Coordinators, Look(c) PROVE CallStep(d)
  BY <1>0, <1>1 DEF CallStep, Look
<1>2. ASSUME NEW c \in Coordinators, Settle(c) PROVE CallStep(d)
  BY <1>0, <1>2 DEF CallStep, Settle, Goes
<1>3. ASSUME NEW c \in Coordinators, SettleLifecycle(c) \/ FinishSettlement(c) \/ StagePreflight(c)
      PROVE  CallStep(d)
  BY <1>0, <1>3 DEF CallStep, SettleLifecycle, FinishSettlement, StagePreflight, Goes, Ends, Acts
<1>4. ASSUME NEW c \in Coordinators,
             \/ SettleRelease(c) \/ RearmRetry(c) \/ PrepareRollback(c) \/ CloseRollback(c)
             \/ ApplyRollback(c) \/ Refuse(c) \/ Crash(c)
      PROVE  CallStep(d)
  BY <1>0, <1>4 DEF CallStep, SettleRelease, RearmRetry, PrepareRollback, CloseRollback, ApplyRollback, Refuse, Crash, Ends
<1>5. ASSUME UNCHANGED process PROVE CallStep(d)
  BY <1>5 DEF CallStep, process
<1>6. ASSUME PreparationEnds \/ PrepareAgain \/ Activate \/ StageMove \/ Verify PROVE UNCHANGED process
  BY <1>6 DEF PreparationEnds, PrepareAgain, Activate, StageMove, Verify, SetStage
<1>7. ASSUME NEW o \in Ops, \/ Execute(o) \/ ApiTransition(o) \/ OpRelease(o) \/ RollbackRequest(o)
                           \/ \E a \in Actions : Resolve(o, a)
      PROVE  UNCHANGED process
  BY <1>7 DEF Execute, ApiTransition, OpRelease, RollbackRequest, Resolve
<1>8. ASSUME NEW e \in Edits, ForeignEdit(e[1], e[2]) PROVE UNCHANGED process
  BY <1>8 DEF ForeignEdit
<1>9. UNCHANGED vars => UNCHANGED process
  BY DEF vars
<1> QED
  BY <1>1, <1>2, <1>3, <1>4, <1>5, <1>6, <1>7, <1>8, <1>9 DEF Next, Act

-----------------------------------------------------------------------------
(* What recover asks for (_decide, _recovery_view), case by case.          *)

(* The one operation recover looks at has a resolution to be about. *)
LEMMA LookedAt ==
  ASSUME IInv, NEW o \in Ops, Recovery(o) \in Steps
  PROVE  /\ About(o) \in DOMAIN accepted[o]
         /\ Recovery(o) = "SETTLE" => accepted[o][About(o)].action \in {"ABORT", "ADOPT"}
         /\ Recovery(o) = "SETTLE_ROLLBACK" => accepted[o][About(o)].action = "ROLLBACK"
<1> USE DEF IInv
<1>1. CASE OpenSessions(o) # {}
  <2>1. About(o) \in OpenSessions(o)
    BY <1>1 DEF About
  <2>2. About(o) \in 1..MaxResolutions /\ session[o][About(o)] # "NONE"
    BY <2>1 DEF OpenSessions
  <2>3. Recovery(o) \in {"MANUAL", "APPLY", "CLOSE"}
    <3>1. Recovery(o) = OfSession(o)
      BY <1>1 DEF Recovery
    <3>2. OfSession(o) \in {"MANUAL", "APPLY", "CLOSE"}
      BY DEF OfSession
    <3> QED
      BY <3>1, <3>2
  <2> QED
    BY <2>2, <2>3 DEF SessionsOfRollbacks
<1>2. CASE OpenSessions(o) = {} /\ SettlementSpeaks(o)
  <2>1. Recovery(o) \in {"MANUAL", "NONE", "FINISH"}
    BY <1>2 DEF Recovery
  <2>2. Recovery(o) = "FINISH"
    BY <2>1 DEF Steps
  <2>3. About(o) = settled[o].by
    BY <1>2, <2>2 DEF About
  <2> QED
    BY <1>2, <2>2, <2>3 DEF SettlementSpeaks, SettledByResolution
<1>3. CASE OpenSessions(o) = {} /\ ~SettlementSpeaks(o)
  <2> DEFINE i == Authority(o)
  <2>1. i # 0 /\ Recovery(o) # "FINISH"
    <3>1. i = 0 => Recovery(o) \in {"MANUAL", "NONE"}
      BY <1>3 DEF Recovery
    <3>2. i # 0 => Recovery(o) \in {"SETTLE_ROLLBACK", "MANUAL"} \/ Recovery(o) = OfAction(o, i)
      BY <1>3 DEF Recovery
    <3>3. Recovery(o) # "MANUAL" /\ Recovery(o) # "NONE"
      BY DEF Steps
    <3>4. OfAction(o, i) # "FINISH" \/ i = 0
      <4>1. i # 0 => accepted[o][i].action \in Actions /\ Action(o, i) = accepted[o][i].action
        BY AuthorityIsAccepted, ResolutionType DEF Action
      <4> QED
        BY <4>1 DEF OfAction, Actions, Destructive
    <3> QED
      BY <3>1, <3>2, <3>3, <3>4
  <2>2. i \in DOMAIN accepted[o] /\ About(o) = i /\ Action(o, i) = accepted[o][i].action
    BY <1>3, <2>1, AuthorityIsAccepted DEF About, Action
  <2>3. accepted[o][i].action \in Actions
    BY <2>2, ResolutionType
  <2>4. CASE Concluded(o, i)
    <3>1. Recovery(o) \in {"SETTLE_ROLLBACK", "MANUAL"}
      BY <1>3, <2>1, <2>4 DEF Recovery
    <3>2. i \in 1..MaxResolutions
      BY <2>2, ResolutionType, SettlementAssumption DEF AcceptedOnRevision
    <3>3. accepted[o][i].action = "ROLLBACK"
      BY <2>4, <3>2 DEF Concluded, SessionsOfRollbacks
    <3> QED
      BY <2>2, <3>1, <3>3
  <2>5. CASE ~Concluded(o, i)
    <3>1. Recovery(o) = "MANUAL" \/ Recovery(o) = OfAction(o, i)
      BY <1>3, <2>1, <2>5 DEF Recovery
    <3>2. Recovery(o) # "MANUAL"
      BY DEF Steps
    <3>3. OfAction(o, i) # "SETTLE_ROLLBACK"
      BY <2>2, <2>3 DEF OfAction, Actions, Destructive
    <3>4. OfAction(o, i) = "SETTLE" => accepted[o][i].action \in {"ABORT", "ADOPT"}
      BY <2>2, <2>3 DEF OfAction, Actions, Destructive
    <3> QED
      BY <2>2, <3>1, <3>2, <3>3, <3>4
  <2> QED
    BY <2>4, <2>5
<1> QED
  BY <1>1, <1>2, <1>3

-----------------------------------------------------------------------------
(* Types.                                                                  *)

LEMMA FilesTyped == IInv /\ [Next]_vars => file' \in [Targets -> Bytes] /\ claim' \in [Targets -> Ops \cup {None}]
<1> SUFFICES ASSUME IInv, [Next]_vars
             PROVE  file' \in [Targets -> Bytes] /\ claim' \in [Targets -> Ops \cup {None}]
  OBVIOUS
<1> DEFINE Typed == file' \in [Targets -> Bytes] /\ claim' \in [Targets -> Ops \cup {None}]
<1>0. file \in [Targets -> Bytes] /\ claim \in [Targets -> Ops \cup {None}]
  BY DEF IInv, TypeOK
<1>1. \A o \in Ops : TargetOf[o] \in Targets /\ Payload[o] \in Bytes
  BY SettlementAssumption
<1>2. InitialBytes \in [Targets -> Bytes]
  BY SettlementAssumption
<1>3. ASSUME NEW o \in Ops, Execute(o) PROVE Typed
  BY <1>0, <1>1, <1>3 DEF Execute
<1>4. ASSUME NEW o \in Ops, OpRelease(o) PROVE Typed
  BY <1>0, <1>1, <1>4 DEF OpRelease, EndClaim
<1>5. ASSUME NEW o \in Ops, NEW i, RestoreSession(o, i) PROVE Typed
  BY <1>2, <1>5 DEF RestoreSession
<1>6. ASSUME NEW e \in Edits, ForeignEdit(e[1], e[2]) PROVE Typed
  <2>1. e[1] \in Targets /\ e[2] \in Bytes
    BY SettlementAssumption
  <2> QED
    BY <1>0, <1>6, <2>1 DEF ForeignEdit, facts
<1>7. ASSUME NEW c \in Coordinators, SettleRelease(c) PROVE Typed
  <2>1. job[c].op \in Ops
    BY <1>7 DEF SettleRelease, IInv, JobFits
  <2> QED
    BY <1>0, <1>1, <1>7, <2>1 DEF SettleRelease, EndClaim
<1>8. ASSUME NEW c \in Coordinators, ApplyRollback(c) PROVE Typed
  <2>1. job[c].op \in Ops
    BY <1>8 DEF ApplyRollback, IInv, JobFits
  <2> QED
    BY <1>0, <1>5, <1>8, <2>1 DEF ApplyRollback, GiveBackSession
<1>9. ASSUME NEW c \in Coordinators,
             \/ Look(c) \/ Settle(c) \/ SettleLifecycle(c) \/ FinishSettlement(c) \/ RearmRetry(c)
             \/ PrepareRollback(c) \/ CloseRollback(c) \/ StagePreflight(c) \/ Refuse(c) \/ Crash(c)
      PROVE  Typed
  BY <1>0, <1>9 DEF Look, Settle, SettleLifecycle, FinishSettlement, RearmRetry, PrepareRollback, PrepareSession,
                    CloseRollback, CloseSession, StagePreflight, Refuse, Crash, facts
<1>10. ASSUME PreparationEnds \/ PrepareAgain \/ Activate \/ StageMove \/ Verify PROVE Typed
  BY <1>0, <1>10 DEF PreparationEnds, PrepareAgain, Activate, StageMove, Verify, SetStage
<1>11. ASSUME NEW o \in Ops, ApiTransition(o) \/ \E a \in Actions : Resolve(o, a) PROVE Typed
  BY <1>0, <1>11 DEF ApiTransition, Resolve
<1>12. ASSUME NEW o \in Ops, RollbackRequest(o) PROVE Typed
  BY <1>0, <1>5, <1>12 DEF RollbackRequest, PrepareSession, GiveBackSession, CloseSession
<1>13. ASSUME UNCHANGED vars PROVE Typed
  BY <1>0, <1>13 DEF vars, facts
<1> QED
  BY <1>3, <1>4, <1>6, <1>7, <1>8, <1>9, <1>10, <1>11, <1>12, <1>13 DEF Next, Act

LEMMA SettledResolution ==
  ASSUME IInv, NEW c \in Coordinators, Settle(c)
  PROVE  LET o == job[c].op
             i == job[c].by
         IN  /\ o \in Ops /\ i \in DOMAIN accepted[o] /\ i # 0
             /\ Doing(c) = accepted[o][i].action /\ Doing(c) \in {"ABORT", "ADOPT", "ROLLBACK"}
             /\ Doing(c) \in IF Step(c) = "SETTLE" THEN {"ABORT", "ADOPT"} ELSE {"ROLLBACK"}
             /\ Step(c) \in {"SETTLE", "SETTLE_ROLLBACK"} /\ pc[c] = "act"
             /\ Recordable(o, i)
<1>1. Step(c) \in {"SETTLE", "SETTLE_ROLLBACK"} /\ pc[c] = "act" /\ Recordable(job[c].op, job[c].by)
  BY DEF Settle, Acts, CanSettle, CanSettleRollback
<1>2. job[c].op \in Ops /\ job[c].by \in DOMAIN accepted[job[c].op]
  BY <1>1 DEF IInv, JobFits
<1>3. job[c].by # 0
  BY <1>2, ResolutionType DEF IInv
<1>4. Doing(c) = accepted[job[c].op][job[c].by].action
  BY <1>3 DEF Doing, Action
<1>5. Doing(c) \in IF Step(c) = "SETTLE" THEN {"ABORT", "ADOPT"} ELSE {"ROLLBACK"}
  BY <1>1 DEF IInv, JobFits
<1> QED
  BY <1>1, <1>2, <1>3, <1>4, <1>5

LEMMA RecordsTyped ==
  ASSUME IInv, [Next]_vars
  PROVE  /\ op' \in [Ops -> [status : OperationStatus, rev : Nat]]
         /\ settled' \in [Ops -> [action : Actions \cup {"NONE"}, by : Nat, seen : MicrotaskStatus \cup {"NONE"}]]
         /\ accepted' \in [Ops -> Seq([action : Actions, rev : Nat, view : [Targets -> Bytes]])]
         /\ \A o \in Ops : settled'[o].by <= Len(accepted'[o])
<1> DEFINE R == [action : Actions, rev : Nat, view : [Targets -> Bytes]]
           S == [action : Actions \cup {"NONE"}, by : Nat, seen : MicrotaskStatus \cup {"NONE"}]
           O == [status : OperationStatus, rev : Nat]
           Typed == /\ op' \in [Ops -> O] /\ settled' \in [Ops -> S] /\ accepted' \in [Ops -> Seq(R)]
                    /\ \A o \in Ops : settled'[o].by <= Len(accepted'[o])
<1>0. /\ op \in [Ops -> O] /\ settled \in [Ops -> S] /\ accepted \in [Ops -> Seq(R)]
      /\ \A o \in Ops : settled[o].by <= Len(accepted[o])
      /\ stage \in MicrotaskStatus /\ file \in [Targets -> Bytes]
  BY DEF IInv, TypeOK
<1>r. \A o \in Ops : op[o].status \in OperationStatus /\ op[o].rev \in Nat
  BY <1>0
<1>1. ASSUME NEW c \in Coordinators, Settle(c) PROVE Typed
  <2> DEFINE o == job[c].op
             i == job[c].by
  <2>1. o \in Ops /\ i \in DOMAIN accepted[o] /\ Action(o, i) \in {"ABORT", "ADOPT", "ROLLBACK"}
    BY <1>1, SettledResolution DEF Doing
  <2>2. i \in Nat /\ i <= Len(accepted[o])
    BY <2>1, ResolutionType DEF IInv
  <2>3. accepted' = accepted /\ Record(o, i)
    BY <1>1 DEF Settle
  <2>4. CASE UNCHANGED <<op, settled>>
    BY <1>0, <2>3, <2>4
  <2>5. CASE settled[o].by # i
    <3> DEFINE s == [action |-> Action(o, i), by |-> i, seen |-> stage]
               p == [status |-> IF Action(o, i) = "ADOPT" THEN "VERIFIED" ELSE op[o].status, rev |-> op[o].rev + 1]
    <3>1. settled' = [settled EXCEPT ![o] = s] /\ op' = [op EXCEPT ![o] = p]
      BY <1>0, <2>1, <2>3, <2>5 DEF Record
    <3>2. s \in S
      BY <1>0, <2>1, <2>2 DEF Actions, Destructive
    <3>3. p \in O
      BY <1>r, <2>1 DEF OperationStatus
    <3>4. s.by = i
      OBVIOUS
    <3> HIDE DEF s, p, S, O, R
    <3> QED
      BY <1>0, <2>1, <2>2, <2>3, <3>1, <3>2, <3>3, <3>4
  <2> QED
    BY <2>3, <2>4, <2>5 DEF Record
<1>2. ASSUME NEW o \in Ops, NEW a \in Actions, Resolve(o, a) PROVE Typed
  <2> DEFINE r == [action |-> a, rev |-> op[o].rev, view |-> file]
  <2>1. r \in R
    BY <1>0, <1>r
  <2>2. accepted' = [accepted EXCEPT ![o] = Append(accepted[o], r)] /\ op' = op /\ settled' = settled
    BY <1>0, <1>2 DEF Resolve
  <2> HIDE DEF r, R
  <2>3. accepted[o] \in Seq(R)
    BY <1>0
  <2>4. Append(accepted[o], r) \in Seq(R) /\ Len(Append(accepted[o], r)) = Len(accepted[o]) + 1
    BY <2>1, <2>3
  <2>5. \A q \in Ops : settled[q].by \in Nat /\ Len(accepted[q]) \in Nat
    BY <1>0
  <2> QED
    BY <1>0, <2>2, <2>4, <2>5
<1>3. ASSUME NEW o \in Ops, Execute(o) \/ ApiTransition(o) PROVE Typed
  <2>1. accepted' = accepted /\ settled' = settled
    BY <1>3 DEF Execute, ApiTransition
  <2>2. \E p \in O : op' = [op EXCEPT ![o] = p]
    <3>1. ASSUME NEW s \in OperationStatus, NEW n \in {0, 1, 2}, op' = [op EXCEPT ![o] = [status |-> s, rev |-> op[o].rev + n]]
          PROVE  \E p \in O : op' = [op EXCEPT ![o] = p]
      <4>1. [status |-> s, rev |-> op[o].rev + n] \in O
        BY <1>r
      <4> QED
        BY <3>1, <4>1
    <3>2. CASE Execute(o)
      <4>1. \/ op' = [op EXCEPT ![o] = [status |-> "DONE", rev |-> op[o].rev + 2]]
            \/ op' = [op EXCEPT ![o] = [status |-> "DONE", rev |-> op[o].rev + 1]]
            \/ op' = [op EXCEPT ![o] = [status |-> "STARTED", rev |-> op[o].rev + 1]]
            \/ op' = [op EXCEPT ![o] = [status |-> "STARTED", rev |-> op[o].rev + 0]]
        BY <1>0, <1>r, <3>2 DEF Execute
      <4> QED
        BY <3>1, <4>1 DEF OperationStatus
    <3>3. CASE ApiTransition(o)
      BY <1>0, <3>1, <3>3 DEF ApiTransition
    <3> QED
      BY <1>3, <3>2, <3>3
  <2> QED
    BY <1>0, <2>1, <2>2
<1>4. ASSUME UNCHANGED <<op, settled, accepted>> PROVE Typed
  BY <1>0, <1>4
<1>5. Typed
  BY <1>1, <1>2, <1>3, <1>4, RecordsWritten DEF RecordWriters
<1> QED
  BY <1>5

LEMMA SessionsTyped ==
  ASSUME IInv, [Next]_vars
  PROVE  session' \in [Ops -> [1..MaxResolutions -> SessionState]]
<1>0. session \in [Ops -> [1..MaxResolutions -> SessionState]]
  BY DEF IInv, TypeOK
<1>1. ASSUME NEW o \in Ops, NEW i \in 1..MaxResolutions,
             \/ PrepareSession(o, i) \/ RestoreSession(o, i) \/ GiveBackSession(o, i) \/ CloseSession(o, i)
      PROVE  session' \in [Ops -> [1..MaxResolutions -> SessionState]]
  <2>1. \E s \in SessionState : session' = [session EXCEPT ![o][i] = s]
    BY <1>1 DEF PrepareSession, RestoreSession, GiveBackSession, CloseSession, SetSession, SessionState
  <2> QED
    BY <1>0, <2>1
<1> QED
  BY <1>0, <1>1, SessionsWritten DEF SessionWriters

(* Where a settlement that is carried out wants the microtask.             *)
LEMMA NewTargetExists ==
  ASSUME IInv, NEW c \in Coordinators, Step(c) \in {"SETTLE", "SETTLE_ROLLBACK"}, pc[c] # "idle"
  PROVE  /\ Voices \cup {Doing(c)} \in SUBSET {"ABORT", "ADOPT", "ROLLBACK"}
         /\ NewTarget(c) \in {"DONE", "RECOVERY_REQUIRED", "VERIFIED"}
         /\ NewTarget(c) = "VERIFIED" => stage = "VERIFIED"
         /\ stage # "VERIFIED" /\ Voices \cap Destructive # {} => NewTarget(c) = "RECOVERY_REQUIRED"
         /\ NewTarget(c) = "DONE" => Doing(c) = "ADOPT"
<1> DEFINE A == Voices \cup {Doing(c)}
<1>1. Doing(c) \in {"ABORT", "ADOPT", "ROLLBACK"}
  BY DEF IInv, JobFits
<1>2. A \in SUBSET {"ABORT", "ADOPT", "ROLLBACK"} /\ A # {}
  BY <1>1, VoicesAre DEF IInv
<1>3. NewTarget(c) = EffectiveTarget(A)
  BY DEF NewTarget
<1>4. Voices \cap Destructive # {} => A # {"ADOPT"}
  BY DEF Destructive
<1>5. A = {"ADOPT"} => Doing(c) = "ADOPT"
  OBVIOUS
<1> HIDE DEF A
<1> QED
  BY <1>2, <1>3, <1>4, <1>5, TargetExists DEF IInv, A

LEMMA FinishTargetExists ==
  ASSUME IInv, Finishable
  PROVE  /\ EffectiveTarget(Voices) \in {"DONE", "RECOVERY_REQUIRED", "VERIFIED"}
         /\ EffectiveTarget(Voices) = "VERIFIED" => stage = "VERIFIED"
         /\ stage # "VERIFIED" /\ Voices \cap Destructive # {} => EffectiveTarget(Voices) = "RECOVERY_REQUIRED"
         /\ \E o \in Ops : IsSettled(o)
<1>1. Voices \in SUBSET {"ABORT", "ADOPT", "ROLLBACK"} /\ Voices # {} /\ \E o \in Ops : IsSettled(o)
  BY VoicesAre DEF IInv, Finishable
<1>2. Voices \cap Destructive # {} => Voices # {"ADOPT"}
  BY DEF Destructive
<1> QED
  BY <1>1, <1>2, TargetExists DEF IInv

LEMMA StageTyped ==
  ASSUME IInv, [Next]_vars
  PROVE  stage' \in MicrotaskStatus /\ executed' \in BOOLEAN
<1> DEFINE Typed == stage' \in MicrotaskStatus /\ executed' \in BOOLEAN
<1>0. stage \in MicrotaskStatus /\ executed \in BOOLEAN
  BY DEF IInv, TypeOK
<1>1. ASSUME NEW c \in Coordinators, SettleLifecycle(c) PROVE Typed
  <2>1. stage' = NewTarget(c) /\ executed' = executed
    BY <1>1 DEF SettleLifecycle
  <2>2. NewTarget(c) \in {"DONE", "RECOVERY_REQUIRED", "VERIFIED"}
    <3>1. Step(c) \in {"SETTLE", "SETTLE_ROLLBACK"} /\ pc[c] # "idle"
      BY <1>1 DEF SettleLifecycle, IInv, JobFits
    <3> QED
      BY <3>1, NewTargetExists
  <2> QED
    BY <1>0, <2>1, <2>2 DEF MicrotaskStatus, RecoveryMicro
<1>2. ASSUME NEW c \in Coordinators, FinishSettlement(c) PROVE Typed
  <2>1. stage' = stage \/ stage' = EffectiveTarget(Voices)
    BY <1>2 DEF FinishSettlement
  <2>2. EffectiveTarget(Voices) \in {"DONE", "RECOVERY_REQUIRED", "VERIFIED"}
    BY <1>2, FinishTargetExists DEF FinishSettlement
  <2> QED
    BY <1>0, <1>2, <2>1, <2>2 DEF FinishSettlement, MicrotaskStatus, RecoveryMicro
<1>3. ASSUME NEW c \in Coordinators, RearmRetry(c) \/ StagePreflight(c) PROVE Typed
  BY <1>0, <1>3 DEF RearmRetry, StagePreflight, MicrotaskStatus, RecoveryMicro
<1>4. ASSUME PreparationEnds \/ PrepareAgain PROVE Typed
  BY <1>0, <1>4 DEF PreparationEnds, PrepareAgain, SetStage, MicrotaskStatus, PreExecution
<1>5. ASSUME Activate \/ Verify PROVE Typed
  BY <1>0, <1>5 DEF Activate, Verify, SetStage, MicrotaskStatus
<1>6. ASSUME StageMove PROVE Typed
  BY <1>0, <1>6 DEF StageMove, SetStage, Moves, MicrotaskStatus, RecoveryMicro
<1>7. ASSUME UNCHANGED <<stage, executed>> PROVE Typed
  BY <1>0, <1>7
<1>8. Typed
  BY <1>1, <1>2, <1>3, <1>4, <1>5, <1>6, <1>7, StageWritten DEF StageWriters
<1> QED
  BY <1>8

LEMMA CallsTyped ==
  ASSUME IInv, [Next]_vars
  PROVE  /\ pc' \in [Coordinators -> {"idle", "act", "lifecycle", "release", "rc4"}]
         /\ job' \in [Coordinators -> [step : Steps \cup {"NONE"}, op : Ops \cup {None}, by : Nat]]
         /\ lock' \in Coordinators \cup {None}
<1> DEFINE J == [step : Steps \cup {"NONE"}, op : Ops \cup {None}, by : Nat]
           P == {"idle", "act", "lifecycle", "release", "rc4"}
           Typed == pc' \in [Coordinators -> P] /\ job' \in [Coordinators -> J] /\ lock' \in Coordinators \cup {None}
<1>0. pc \in [Coordinators -> P] /\ job \in [Coordinators -> J] /\ lock \in Coordinators \cup {None}
  BY DEF IInv, TypeOK
<1>1. NoJob \in J
  BY DEF NoJob
<1>2. ASSUME NEW c \in Coordinators, Look(c) PROVE Typed
  <2>1. PICK o \in Ops : Recovery(o) \in Steps /\ job' = [job EXCEPT ![c] = [step |-> Recovery(o), op |-> o, by |-> About(o)]]
    BY <1>2 DEF Look
  <2>2. About(o) \in Nat
    BY <2>1, LookedAt, ResolutionType DEF IInv
  <2>3. [step |-> Recovery(o), op |-> o, by |-> About(o)] \in J
    BY <2>1, <2>2
  <2> HIDE DEF J
  <2> QED
    BY <1>0, <1>2, <2>1, <2>3 DEF Look
<1> HIDE DEF J
<1>3. ASSUME NEW c \in Coordinators, Act(c) PROVE Typed
  BY <1>0, <1>1, <1>3 DEF Act, Settle, SettleLifecycle, SettleRelease, FinishSettlement, RearmRetry, PrepareRollback,
      CloseRollback, StagePreflight, ApplyRollback, Refuse, Goes, Ends
<1>4. ASSUME NEW c \in Coordinators, Crash(c) PROVE Typed
  BY <1>0, <1>1, <1>4 DEF Crash, Ends
<1>5. ASSUME UNCHANGED process PROVE Typed
  BY <1>0, <1>5 DEF process
<1>6. ASSUME PreparationEnds \/ PrepareAgain \/ Activate \/ StageMove \/ Verify PROVE UNCHANGED process
  BY <1>6 DEF PreparationEnds, PrepareAgain, Activate, StageMove, Verify, SetStage
<1>7. ASSUME NEW o \in Ops, \/ Execute(o) \/ ApiTransition(o) \/ OpRelease(o) \/ RollbackRequest(o)
                           \/ \E a \in Actions : Resolve(o, a)
      PROVE  UNCHANGED process
  BY <1>7 DEF Execute, ApiTransition, OpRelease, RollbackRequest, Resolve
<1>8. ASSUME NEW e \in Edits, ForeignEdit(e[1], e[2]) PROVE UNCHANGED process
  BY <1>8 DEF ForeignEdit
<1>9. ASSUME UNCHANGED vars PROVE UNCHANGED process
  BY <1>9 DEF vars
<1>10. Typed
  BY <1>2, <1>3, <1>4, <1>5, <1>6, <1>7, <1>8, <1>9 DEF Next
<1> QED
  BY <1>10 DEF J

LEMMA CountersTyped ==
  ASSUME IInv, [Next]_vars
  PROVE  recent' \subseteq Ops \X Ops /\ spent' \in [edits : Nat, crashes : Nat, preparations : Nat]
<1> DEFINE S == [edits : Nat, crashes : Nat, preparations : Nat]
           Typed == recent' \subseteq Ops \X Ops /\ spent' \in S
<1>0. recent \subseteq Ops \X Ops /\ spent \in S
  BY DEF IInv, TypeOK
<1>t. ASSUME NEW o \in Ops, Touch(o) PROVE recent' \subseteq Ops \X Ops
  BY <1>0, <1>t DEF Touch
<1>s. ASSUME NEW o \in Ops, NEW i,
             \/ PrepareSession(o, i) \/ RestoreSession(o, i) \/ GiveBackSession(o, i) \/ CloseSession(o, i)
      PROVE  Touch(o)
  BY <1>s DEF PrepareSession, RestoreSession, GiveBackSession, CloseSession, SetSession
<1>1. ASSUME NEW c \in Coordinators, Settle(c) PROVE Typed
  BY <1>0, <1>1, <1>t, SettledResolution DEF Settle
<1>2. ASSUME NEW c \in Coordinators, PrepareRollback(c) \/ CloseRollback(c) \/ ApplyRollback(c) PROVE Typed
  <2>1. job[c].op \in Ops
    BY <1>2 DEF PrepareRollback, CloseRollback, ApplyRollback, Acts, IInv, JobFits
  <2> QED
    BY <1>0, <1>2, <1>t, <1>s, <2>1 DEF PrepareRollback, CloseRollback, ApplyRollback
<1>3. ASSUME NEW c \in Coordinators,
             \/ Look(c) \/ SettleLifecycle(c) \/ SettleRelease(c) \/ FinishSettlement(c) \/ RearmRetry(c)
             \/ StagePreflight(c) \/ Refuse(c)
      PROVE  Typed
  BY <1>0, <1>3 DEF Look, SettleLifecycle, SettleRelease, FinishSettlement, RearmRetry, StagePreflight, Refuse, facts
<1>4. ASSUME NEW c \in Coordinators, Crash(c) PROVE Typed
  BY <1>0, <1>4 DEF Crash
<1>5. ASSUME PreparationEnds \/ PrepareAgain \/ Activate \/ StageMove \/ Verify PROVE Typed
  <2>1. recent' = recent
    BY <1>5 DEF PreparationEnds, PrepareAgain, Activate, StageMove, Verify, SetStage
  <2>2. spent' = spent \/ spent' = [spent EXCEPT !.preparations = spent.preparations + 1]
    BY <1>5 DEF PreparationEnds, PrepareAgain, Activate, StageMove, Verify
  <2> QED
    BY <1>0, <2>1, <2>2
<1>6. ASSUME NEW o \in Ops, \/ Execute(o) \/ ApiTransition(o) \/ OpRelease(o) \/ RollbackRequest(o)
                           \/ \E a \in Actions : Resolve(o, a)
      PROVE  Typed
  BY <1>0, <1>6, <1>t, <1>s DEF Execute, ApiTransition, OpRelease, RollbackRequest, Resolve
<1>7. ASSUME NEW e \in Edits, ForeignEdit(e[1], e[2]) PROVE Typed
  BY <1>0, <1>7 DEF ForeignEdit
<1>8. ASSUME UNCHANGED vars PROVE Typed
  BY <1>0, <1>8 DEF vars
<1>9. Typed
  BY <1>1, <1>2, <1>3, <1>4, <1>5, <1>6, <1>7, <1>8 DEF Next, Act
<1> QED
  BY <1>9

(* Every write of recovery keeps the facts of the microtask well typed.    *)
THEOREM TypeStep == IInv /\ [Next]_vars => TypeOK'
<1> SUFFICES ASSUME IInv, [Next]_vars PROVE TypeOK'
  OBVIOUS
<1> QED
  BY FilesTyped, RecordsTyped, SessionsTyped, StageTyped, CallsTyped, CountersTyped DEF TypeOK

-----------------------------------------------------------------------------
(* What only grows: resolutions, revisions and settlements.                *)

(* Only a request to the Resolver adds a resolution.                       *)
LEMMA OnlyResolveAccepts ==
  ASSUME IInv, [Next]_vars, NEW o \in Ops, accepted'[o] # accepted[o]
  PROVE  \E a \in Actions : Resolve(o, a)
<1>0. accepted \in [Ops -> Seq([action : Actions, rev : Nat, view : [Targets -> Bytes]])]
  BY DEF IInv, TypeOK
<1>1. PICK q \in Ops, a \in Actions : Resolve(q, a)
  BY RecordsWritten DEF RecordWriters, Settle, Execute, ApiTransition
<1>2. \E s : accepted' = [accepted EXCEPT ![q] = s]
  BY <1>1 DEF Resolve
<1>3. q = o
  BY <1>0, <1>2
<1> QED
  BY <1>1, <1>3

LEMMA ResolutionsGrow ==
  ASSUME IInv, [Next]_vars, NEW o \in Ops
  PROVE  /\ DOMAIN accepted[o] \subseteq DOMAIN accepted'[o]
         /\ \A i \in DOMAIN accepted[o] : accepted'[o][i] = accepted[o][i]
         /\ op'[o].rev >= op[o].rev
<1> DEFINE Grows == /\ DOMAIN accepted[o] \subseteq DOMAIN accepted'[o]
                    /\ \A i \in DOMAIN accepted[o] : accepted'[o][i] = accepted[o][i]
                    /\ op'[o].rev >= op[o].rev
<1>0. op \in [Ops -> [status : OperationStatus, rev : Nat]] /\ accepted \in [Ops -> Seq([action : Actions, rev : Nat, view : [Targets -> Bytes]])]
  BY DEF IInv, TypeOK
<1>r. op[o].rev \in Nat
  BY <1>0
<1>1. ASSUME NEW c \in Coordinators, Settle(c) PROVE Grows
  <2> DEFINE q == job[c].op
  <2>1. accepted' = accepted /\ Record(q, job[c].by) /\ q \in Ops
    BY <1>1, SettledResolution DEF Settle
  <2>2. CASE UNCHANGED <<op, settled>>
    BY <1>r, <2>1, <2>2
  <2>3. CASE \E s : op' = [op EXCEPT ![q] = [status |-> s, rev |-> op[q].rev + 1]]
    BY <1>0, <1>r, <2>1, <2>3
  <2> QED
    BY <2>1, <2>2, <2>3 DEF Record
<1>2. ASSUME NEW q \in Ops, NEW a \in Actions, Resolve(q, a) PROVE Grows
  <2> DEFINE r == [action |-> a, rev |-> op[q].rev, view |-> file]
             R == [action : Actions, rev : Nat, view : [Targets -> Bytes]]
  <2>1. accepted' = [accepted EXCEPT ![q] = Append(accepted[q], r)] /\ op' = op
    BY <1>2, <1>0 DEF Resolve
  <2> HIDE DEF r, R
  <2>2. accepted[o] \in Seq(R) /\ accepted[q] \in Seq(R)
    BY <1>0 DEF R
  <2>3. CASE o = q
    BY <1>0, <1>r, <2>1, <2>2, <2>3
  <2>4. CASE o # q
    BY <1>0, <1>r, <2>1, <2>4
  <2> QED
    BY <2>3, <2>4
<1>3. ASSUME NEW q \in Ops, Execute(q) PROVE Grows
  <2>1. accepted' = accepted
    BY <1>3 DEF Execute
  <2>2. \E s \in OperationStatus : \E n \in {0, 1, 2} : op' = [op EXCEPT ![q] = [status |-> s, rev |-> op[q].rev + n]]
    <3>1. \/ op' = [op EXCEPT ![q] = [status |-> "DONE", rev |-> op[q].rev + 2]]
          \/ op' = [op EXCEPT ![q] = [status |-> "DONE", rev |-> op[q].rev + 1]]
          \/ op' = [op EXCEPT ![q] = [status |-> "STARTED", rev |-> op[q].rev + 1]]
          \/ op' = [op EXCEPT ![q] = [status |-> "STARTED", rev |-> op[q].rev + 0]]
      BY <1>0, <1>3 DEF Execute
    <3>2. "DONE" \in OperationStatus /\ "STARTED" \in OperationStatus
      BY DEF OperationStatus
    <3> QED
      BY <3>1, <3>2
  <2>3. op'[o].rev >= op[o].rev
    BY <1>0, <1>r, <2>2
  <2> QED
    BY <2>1, <2>3
<1>4. ASSUME NEW q \in Ops, ApiTransition(q) PROVE Grows
  BY <1>0, <1>r, <1>4 DEF ApiTransition
<1>5. ASSUME UNCHANGED <<op, settled, accepted>> PROVE Grows
  BY <1>r, <1>5
<1>6. Grows
  BY <1>1, <1>2, <1>3, <1>4, <1>5, RecordsWritten DEF RecordWriters
<1> QED
  BY <1>6

(* A settlement is written once; the step that writes it is Settle.        *)
LEMMA SettlementKept ==
  ASSUME IInv, [Next]_vars, NEW o \in Ops
  PROVE  /\ IsSettled(o) => settled'[o] = settled[o]
         /\ settled'[o] # settled[o] =>
              \E c \in Coordinators :
                 /\ Settle(c) /\ job[c].op = o
                 /\ settled'[o] = [action |-> Doing(c), by |-> job[c].by, seen |-> stage]
                 /\ op'[o].rev = op[o].rev + 1
<1>0. settled \in [Ops -> [action : Actions \cup {"NONE"}, by : Nat, seen : MicrotaskStatus \cup {"NONE"}]]
      /\ op \in [Ops -> [status : OperationStatus, rev : Nat]]
  BY DEF IInv, TypeOK
<1>1. ASSUME NEW c \in Coordinators, Settle(c), settled'[o] # settled[o]
      PROVE  /\ ~IsSettled(o) /\ job[c].op = o
             /\ settled'[o] = [action |-> Doing(c), by |-> job[c].by, seen |-> stage]
             /\ op'[o].rev = op[o].rev + 1
  <2> DEFINE q == job[c].op
             i == job[c].by
  <2>1. Record(q, i) /\ Recordable(q, i) /\ q \in Ops
    BY <1>1, SettledResolution DEF Settle
  <2>2. settled[q].by # i
    BY <1>1, <2>1 DEF Record
  <2>3. settled' = [settled EXCEPT ![q] = [action |-> Action(q, i), by |-> i, seen |-> stage]]
        /\ \E s : op' = [op EXCEPT ![q] = [status |-> s, rev |-> op[q].rev + 1]]
    BY <2>1, <2>2 DEF Record
  <2>4. q = o
    BY <1>0, <1>1, <2>3
  <2>5. ~IsSettled(q)
    BY <2>1, <2>2 DEF Recordable
  <2>6. op'[q].rev = op[q].rev + 1 /\ settled'[q] = [action |-> Action(q, i), by |-> i, seen |-> stage]
    BY <1>0, <2>1, <2>3
  <2> QED
    BY <2>4, <2>5, <2>6 DEF Doing
<1>2. ASSUME ~(\E c \in Coordinators : Settle(c)) PROVE settled'[o] = settled[o]
  BY <1>2, RecordsWritten DEF RecordWriters, Resolve, Execute, ApiTransition
<1> QED
  BY <1>1, <1>2

(* Once settled, always settled; what was not, is settled by Settle.       *)
LEMMA StaysSettled ==
  ASSUME IInv, [Next]_vars, NEW o \in Ops
  PROVE  /\ IsSettled(o) => IsSettled(o)'
         /\ IsSettled(o)' /\ ~IsSettled(o) => settled'[o] # settled[o]
  BY SettlementKept DEF IsSettled, Unsettled

-----------------------------------------------------------------------------
(* The invariant, conjunct by conjunct.                                    *)

LEMMA AcceptedOnRevisionKept == IInv /\ [Next]_vars => AcceptedOnRevision'
<1> SUFFICES ASSUME IInv, [Next]_vars, NEW o \in Ops
             PROVE  /\ Len(accepted'[o]) <= MaxResolutions
                    /\ \A i \in DOMAIN accepted'[o] : accepted'[o][i].rev <= op'[o].rev
  BY DEF AcceptedOnRevision
<1>0. /\ Len(accepted[o]) <= MaxResolutions /\ op[o].rev \in Nat
      /\ \A i \in DOMAIN accepted[o] : accepted[o][i].rev <= op[o].rev /\ accepted[o][i].rev \in Nat
  BY ResolutionType DEF IInv, AcceptedOnRevision, TypeOK
<1>1. op'[o].rev \in Nat /\ op'[o].rev >= op[o].rev
  BY TypeStep, ResolutionsGrow DEF TypeOK
<1>2. CASE accepted'[o] = accepted[o]
  BY <1>0, <1>1, <1>2
<1>3. CASE accepted'[o] # accepted[o]
  <2>1. PICK a \in Actions : Resolve(o, a)
    BY <1>3, OnlyResolveAccepts
  <2> DEFINE r == [action |-> a, rev |-> op[o].rev, view |-> file]
             R == [action : Actions, rev : Nat, view : [Targets -> Bytes]]
  <2>2. accepted'[o] = Append(accepted[o], r) /\ op' = op
    BY <2>1 DEF Resolve, IInv, TypeOK
  <2>3. Len(accepted[o]) < MaxResolutions \/ Len(accepted[o]) < 1
    BY <2>1 DEF Resolve
  <2>4. r.rev = op[o].rev
    OBVIOUS
  <2> HIDE DEF r, R
  <2>5. accepted[o] \in Seq(R)
    BY DEF IInv, TypeOK, R
  <2>6. Len(accepted'[o]) = Len(accepted[o]) + 1
        /\ \A i \in DOMAIN accepted'[o] : (i \in DOMAIN accepted[o] /\ accepted'[o][i] = accepted[o][i]) \/ accepted'[o][i] = r
    BY <2>2, <2>5
  <2>7. Len(accepted'[o]) <= MaxResolutions
    BY <2>3, <2>5, <2>6, SettlementAssumption
  <2> QED
    BY <1>0, <1>1, <2>2, <2>4, <2>6, <2>7
<1> QED
  BY <1>2, <1>3

LEMMA SettledByResolutionKept == IInv /\ [Next]_vars => SettledByResolution'
<1> SUFFICES ASSUME IInv, [Next]_vars, NEW o \in Ops, IsSettled(o)'
             PROVE  /\ settled'[o].by \in DOMAIN accepted'[o]
                    /\ settled'[o].action = accepted'[o][settled'[o].by].action
                    /\ settled'[o].action # "RETRY"
                    /\ \A i \in DOMAIN accepted'[o] :
                          accepted'[o][i].action = "ROLLBACK" => accepted'[o][i].rev < op'[o].rev
  BY DEF SettledByResolution
<1>0. /\ op[o].rev \in Nat /\ op'[o].rev \in Nat /\ op'[o].rev >= op[o].rev
      /\ \A i \in DOMAIN accepted[o] : accepted[o][i].rev <= op[o].rev /\ accepted[o][i].rev \in Nat
      /\ DOMAIN accepted[o] \subseteq DOMAIN accepted'[o]
      /\ \A i \in DOMAIN accepted[o] : accepted'[o][i] = accepted[o][i]
  BY ResolutionType, ResolutionsGrow, TypeStep DEF IInv, AcceptedOnRevision, TypeOK
<1>1. CASE IsSettled(o)
  <2>1. /\ settled'[o] = settled[o] /\ settled[o].by \in DOMAIN accepted[o]
        /\ settled[o].action = accepted[o][settled[o].by].action /\ settled[o].action # "RETRY"
        /\ \A i \in DOMAIN accepted[o] : accepted[o][i].action = "ROLLBACK" => accepted[o][i].rev < op[o].rev
    BY <1>1, SettlementKept DEF IInv, SettledByResolution
  <2>2. \A i \in DOMAIN accepted'[o] : i \in DOMAIN accepted[o] \/ accepted'[o][i].action # "ROLLBACK"
    <3>1. CASE accepted'[o] = accepted[o]
      BY <3>1
    <3>2. CASE accepted'[o] # accepted[o]
      <4>1. PICK a \in Actions : Resolve(o, a)
        BY <3>2, OnlyResolveAccepts
      <4> DEFINE r == [action |-> a, rev |-> op[o].rev, view |-> file]
                 R == [action : Actions, rev : Nat, view : [Targets -> Bytes]]
      <4>2. accepted'[o] = Append(accepted[o], r)
        BY <4>1 DEF Resolve, IInv, TypeOK
      <4>3. settled[o].action \in {"ABORT", "ADOPT", "ROLLBACK"}
        <5>1. settled[o].action \in Actions
          BY <2>1, ResolutionType DEF IInv
        <5> QED
          BY <2>1, <5>1 DEF Actions, Destructive
      <4>4. a # "ROLLBACK"
        BY <1>1, <4>1, <4>3 DEF Resolve, AdmittedNow, Admits
      <4>5. r.action = a
        OBVIOUS
      <4> HIDE DEF r, R
      <4>6. accepted[o] \in Seq(R)
        BY DEF IInv, TypeOK, R
      <4>7. \A i \in DOMAIN accepted'[o] : i \in DOMAIN accepted[o] \/ accepted'[o][i] = r
        BY <4>2, <4>6
      <4> QED
        BY <4>4, <4>5, <4>7
    <3> QED
      BY <3>1, <3>2
  <2> QED
    BY <1>0, <2>1, <2>2
<1>2. CASE ~IsSettled(o)
  <2>1. PICK c \in Coordinators :
           /\ Settle(c) /\ job[c].op = o
           /\ settled'[o] = [action |-> Doing(c), by |-> job[c].by, seen |-> stage]
           /\ op'[o].rev = op[o].rev + 1
    BY <1>2, SettlementKept, StaysSettled
  <2>2. job[c].by \in DOMAIN accepted[o] /\ Doing(c) = accepted[o][job[c].by].action /\ Doing(c) \in {"ABORT", "ADOPT", "ROLLBACK"}
    BY <2>1, SettledResolution
  <2>3. accepted' = accepted
    BY <2>1 DEF Settle
  <2>4. settled'[o].by = job[c].by /\ settled'[o].action = Doing(c)
    BY <2>1
  <2> QED
    BY <1>0, <2>1, <2>2, <2>3, <2>4
<1> QED
  BY <1>1, <1>2

LEMMA SessionsOfRollbacksKept == IInv /\ [Next]_vars => SessionsOfRollbacks'
<1> SUFFICES ASSUME IInv, [Next]_vars, NEW o \in Ops, NEW i \in 1..MaxResolutions, session'[o][i] # "NONE"
             PROVE  i \in DOMAIN accepted'[o] /\ accepted'[o][i].action = "ROLLBACK"
  BY DEF SessionsOfRollbacks
<1>0. session \in [Ops -> [1..MaxResolutions -> SessionState]]
  BY DEF IInv, TypeOK
<1>1. i \in DOMAIN accepted[o] /\ accepted[o][i].action = "ROLLBACK"
  <2>1. CASE session[o][i] # "NONE"
    BY <2>1 DEF IInv, SessionsOfRollbacks
  <2>2. CASE session[o][i] = "NONE"
    <3>1. PICK q \in Ops, j \in 1..MaxResolutions :
             PrepareSession(q, j) \/ RestoreSession(q, j) \/ GiveBackSession(q, j) \/ CloseSession(q, j)
      BY <2>2, SessionsWritten DEF SessionWriters
    <3>2. session' = [session EXCEPT ![q][j] = session'[q][j]]
      BY <1>0, <3>1 DEF PrepareSession, RestoreSession, GiveBackSession, CloseSession, SetSession
    <3>3. q = o /\ j = i
      BY <1>0, <2>2, <3>2
    <3>4. PrepareSession(o, i)
      BY <2>2, <3>1, <3>3 DEF RestoreSession, GiveBackSession, CloseSession, CanRestore, CanGiveBack, CanClose
    <3>5. i \in DOMAIN accepted[o] /\ Action(o, i) = "ROLLBACK"
      BY <3>4 DEF PrepareSession, CanPrepare
    <3>6. i # 0
      OBVIOUS
    <3> QED
      BY <3>5, <3>6 DEF Action
  <2> QED
    BY <2>1, <2>2
<1> QED
  BY <1>1, ResolutionsGrow

LEMMA JobFitsKept == IInv /\ [Next]_vars => JobFits'
<1> SUFFICES ASSUME IInv, [Next]_vars, NEW d \in Coordinators, pc'[d] # "idle"
             PROVE  /\ job'[d].op \in Ops /\ job'[d].step \in Steps /\ job'[d].by \in DOMAIN accepted'[job'[d].op]
                    /\ pc'[d] = "lifecycle" => job'[d].step \in {"SETTLE", "SETTLE_ROLLBACK"} /\ settled'[job'[d].op] # Unsettled
                    /\ job'[d].step \in {"SETTLE", "SETTLE_ROLLBACK"} =>
                          Doing(d)' \in IF job'[d].step = "SETTLE" THEN {"ABORT", "ADOPT"} ELSE {"ROLLBACK"}
  BY DEF JobFits, Step, IsSettled
<1> DEFINE o == job'[d].op
           i == job'[d].by
<1>a. \A q \in Ops : \A j \in DOMAIN accepted[q] : Action(q, j) = accepted[q][j].action
  BY ResolutionType DEF Action, IInv
<1>b. \A q \in Ops : \A j \in DOMAIN accepted[q] : j \in DOMAIN accepted'[q] /\ Action(q, j)' = Action(q, j)
  <2> SUFFICES ASSUME NEW q \in Ops, NEW j \in DOMAIN accepted[q]
               PROVE  j \in DOMAIN accepted'[q] /\ Action(q, j)' = Action(q, j)
    OBVIOUS
  <2>1. j \in DOMAIN accepted'[q] /\ accepted'[q][j] = accepted[q][j]
    BY ResolutionsGrow
  <2> QED
    BY <2>1 DEF Action
<1>1. ASSUME Look(d) PROVE o \in Ops /\ job'[d].step \in Steps /\ i \in DOMAIN accepted[o] /\ pc'[d] = "act"
                           /\ (job'[d].step = "SETTLE" => Action(o, i) \in {"ABORT", "ADOPT"})
                           /\ (job'[d].step = "SETTLE_ROLLBACK" => Action(o, i) = "ROLLBACK")
  <2>1. PICK q \in Ops : Recovery(q) \in Steps /\ job' = [job EXCEPT ![d] = [step |-> Recovery(q), op |-> q, by |-> About(q)]]
    BY <1>1 DEF Look
  <2>2. job'[d] = [step |-> Recovery(q), op |-> q, by |-> About(q)] /\ pc'[d] = "act"
    BY <1>1, <2>1 DEF Look, IInv, TypeOK
  <2>3. o = q /\ job'[d].step = Recovery(q) /\ i = About(q)
    BY <2>2
  <2>4. About(q) \in DOMAIN accepted[q] /\ (Recovery(q) = "SETTLE" => accepted[q][About(q)].action \in {"ABORT", "ADOPT"})
        /\ (Recovery(q) = "SETTLE_ROLLBACK" => accepted[q][About(q)].action = "ROLLBACK")
    BY <2>1, LookedAt
  <2>5. Action(q, About(q)) = accepted[q][About(q)].action
    BY <1>a, <2>4
  <2> HIDE DEF o, i
  <2> QED
    BY <2>1, <2>2, <2>3, <2>4, <2>5
<1>2. ASSUME pc[d] # "idle", job'[d] = job[d]
      PROVE  o \in Ops /\ job'[d].step \in Steps /\ i \in DOMAIN accepted[o]
             /\ (job'[d].step = "SETTLE" => Action(o, i) \in {"ABORT", "ADOPT"})
             /\ (job'[d].step = "SETTLE_ROLLBACK" => Action(o, i) = "ROLLBACK")
  BY <1>2 DEF IInv, JobFits, Doing, Step
<1>3. ASSUME pc'[d] = "lifecycle" PROVE job'[d].step \in {"SETTLE", "SETTLE_ROLLBACK"} /\ settled'[o] # Unsettled /\ job'[d] = job[d] /\ pc[d] # "idle"
  <2>1. CASE Settle(d)
    <3>1. job' = job /\ pc[d] = "act" /\ Step(d) \in {"SETTLE", "SETTLE_ROLLBACK"} /\ job[d].op \in Ops /\ job[d].by # 0
          /\ Record(job[d].op, job[d].by)
      BY <2>1, SettledResolution DEF Settle, Goes
    <3>2. settled'[job[d].op].by = job[d].by
      BY <3>1 DEF Record, IInv, TypeOK
    <3>3. settled'[job[d].op] # Unsettled
      BY <3>1, <3>2 DEF Unsettled
    <3> QED
      BY <3>1, <3>3 DEF Step
  <2>2. CASE pc[d] = "lifecycle" /\ job'[d] = job[d]
    <3>1. job[d].op \in Ops /\ Step(d) \in {"SETTLE", "SETTLE_ROLLBACK"} /\ IsSettled(job[d].op)
      BY <2>2 DEF IInv, JobFits
    <3>2. settled'[job[d].op] # Unsettled
      BY <3>1, SettlementKept DEF IsSettled
    <3> QED
      BY <2>2, <3>1, <3>2 DEF Step
  <2>3. ~Look(d)
    BY <1>3 DEF Look, IInv, TypeOK
  <2> QED
    BY <1>3, <2>1, <2>2, <2>3, CallsStep DEF CallStep, IInv
<1>4. Look(d) \/ (pc[d] # "idle" /\ job'[d] = job[d])
  <2>1. Settle(d) => pc[d] # "idle" /\ job'[d] = job[d]
    BY SettledResolution DEF Settle, Goes
  <2> QED
    BY <2>1, CallsStep DEF CallStep, IInv
<1>5. o \in Ops /\ job'[d].step \in Steps /\ i \in DOMAIN accepted[o]
      /\ (job'[d].step = "SETTLE" => Action(o, i) \in {"ABORT", "ADOPT"})
      /\ (job'[d].step = "SETTLE_ROLLBACK" => Action(o, i) = "ROLLBACK")
  BY <1>1, <1>2, <1>4
<1>6. Doing(d)' = Action(o, i) /\ i \in DOMAIN accepted'[o]
  <2>1. accepted'[o][i] = accepted[o][i] /\ i \in DOMAIN accepted'[o]
    BY <1>5, ResolutionsGrow
  <2> QED
    BY <2>1 DEF Doing, Action
<1> QED
  BY <1>3, <1>5, <1>6

-----------------------------------------------------------------------------
(* The status of the microtask: where it can and cannot go.                *)

(* Nothing returns to a status before execution, and what has executed has *)
(* executed for good.                                                      *)
LEMMA NeverBackBeforeBegun ==
  ASSUME IInv, [Next]_vars
  PROVE  /\ stage' \in PreExecution => stage \in PreExecution
         /\ executed => executed'
<1> DEFINE Forward == (stage' \in PreExecution => stage \in PreExecution) /\ (executed => executed')
<1>1. ASSUME NEW c \in Coordinators, SettleLifecycle(c) PROVE Forward
  <2>1. Step(c) \in {"SETTLE", "SETTLE_ROLLBACK"} /\ pc[c] # "idle"
    BY <1>1 DEF SettleLifecycle, IInv, JobFits
  <2> QED
    BY <1>1, <2>1, NewTargetExists DEF SettleLifecycle, PreExecution
<1>2. ASSUME NEW c \in Coordinators, FinishSettlement(c) PROVE Forward
  BY <1>2, FinishTargetExists DEF FinishSettlement, PreExecution
<1>3. ASSUME NEW c \in Coordinators, RearmRetry(c) \/ StagePreflight(c) PROVE Forward
  BY <1>3 DEF RearmRetry, StagePreflight, PreExecution
<1>4. ASSUME PreparationEnds \/ PrepareAgain PROVE Forward
  BY <1>4 DEF PreparationEnds, PrepareAgain, PreExecution
<1>5. ASSUME Activate \/ Verify PROVE Forward
  BY <1>5 DEF Activate, Verify, SetStage, PreExecution
<1>6. ASSUME StageMove PROVE Forward
  BY <1>6 DEF StageMove, SetStage, Moves, PreExecution
<1>7. ASSUME UNCHANGED <<stage, executed>> PROVE Forward
  BY <1>7
<1>8. Forward
  BY <1>1, <1>2, <1>3, <1>4, <1>5, <1>6, <1>7, StageWritten DEF StageWriters
<1> QED
  BY <1>8

(* A microtask nothing is settled of is begun by its activation alone.     *)
LEMMA BegunByActivation ==
  ASSUME IInv, [Next]_vars, stage \in PreExecution, \A o \in Ops : ~IsSettled(o)
  PROVE  stage' \in PreExecution \/ executed'
<1>1. ASSUME NEW c \in Coordinators PROVE ~SettleLifecycle(c) /\ ~FinishSettlement(c) /\ ~RearmRetry(c)
  <2>1. ~SettleLifecycle(c)
    <3>1. pc[c] = "lifecycle" => job[c].op \in Ops /\ IsSettled(job[c].op)
      BY DEF IInv, JobFits
    <3> QED
      BY <3>1 DEF SettleLifecycle
  <2>2. ~FinishSettlement(c)
    BY FinishTargetExists DEF FinishSettlement
  <2>3. ~RearmRetry(c)
    BY DEF RearmRetry, CanRearm, PreExecution, RecoveryMicro
  <2> QED
    BY <2>1, <2>2, <2>3
<1>2. ASSUME NEW c \in Coordinators, StagePreflight(c) PROVE stage' = stage
  BY <1>2 DEF StagePreflight, Restorable, PreExecution, RecoveryMicro
<1>3. PreparationEnds \/ PrepareAgain => stage' \in PreExecution
  BY DEF PreparationEnds, PrepareAgain, SetStage, PreExecution
<1>4. Activate => executed'
  BY DEF Activate
<1>5. ~Verify /\ ~StageMove
  BY DEF Verify, StageMove, Moves, PreExecution
<1> QED
  BY <1>1, <1>2, <1>3, <1>4, <1>5, StageWritten DEF StageWriters

LEMMA BegunOrKnownKept == IInv /\ [Next]_vars => BegunOrKnown'
<1> SUFFICES ASSUME IInv, [Next]_vars, ~executed',
                    stage' \notin PreExecution \/ \E o \in Ops : settled'[o] # Unsettled
             PROVE  \E o \in Ops : settled'[o].seen \in PreExecution
  BY DEF BegunOrKnown, NeverBegan, IsSettled
<1>1. ~executed
  BY NeverBackBeforeBegun
<1>2. CASE NeverBegan
  <2>1. PICK o \in Ops : settled[o].seen \in PreExecution
    BY <1>2 DEF NeverBegan
  <2>2. IsSettled(o)
    BY <2>1 DEF IsSettled, Unsettled, PreExecution
  <2>3. settled'[o] = settled[o]
    BY <2>2, SettlementKept
  <2> QED
    BY <2>1, <2>3
<1>3. CASE ~NeverBegan
  <2>1. stage \in PreExecution /\ \A o \in Ops : ~IsSettled(o)
    BY <1>1, <1>3 DEF IInv, BegunOrKnown
  <2>2. stage' \in PreExecution
    BY <2>1, BegunByActivation
  <2>3. PICK o \in Ops : settled'[o] # Unsettled
    BY <2>2
  <2>4. settled'[o] # settled[o]
    BY <2>1, <2>3 DEF IsSettled
  <2>5. PICK c \in Coordinators : settled'[o] = [action |-> Doing(c), by |-> job[c].by, seen |-> stage]
    BY <2>4, SettlementKept
  <2>6. settled'[o].seen = stage
    BY <2>5
  <2> QED
    BY <2>1, <2>6
<1> QED
  BY <1>2, <1>3

LEMMA AbortedBeforeBegunKept == IInv /\ [Next]_vars => AbortedBeforeBegun'
<1> SUFFICES ASSUME IInv, [Next]_vars, stage' \in PreExecution, NEW o \in Ops, settled'[o] # Unsettled
             PROVE  settled'[o].action = "ABORT"
  BY DEF AbortedBeforeBegun, IsSettled
<1>1. stage \in PreExecution
  BY NeverBackBeforeBegun
<1>2. CASE settled'[o] = settled[o]
  BY <1>1, <1>2 DEF IInv, AbortedBeforeBegun, IsSettled
<1>3. CASE settled'[o] # settled[o]
  <2>1. PICK c \in Coordinators :
           Settle(c) /\ settled'[o] = [action |-> Doing(c), by |-> job[c].by, seen |-> stage]
    BY <1>3, SettlementKept
  <2>2. Step(c) \in {"SETTLE", "SETTLE_ROLLBACK"} /\ pc[c] # "idle"
    BY <2>1, SettledResolution
  <2>3. NewTarget(c) \in {"DONE", "RECOVERY_REQUIRED", "VERIFIED"}
    BY <2>2, NewTargetExists
  <2>4. ASSUME NEW A, Reachable(NewTarget(c), A) PROVE A = {"ABORT"}
    BY <1>1, <2>3, <2>4 DEF Reachable, AllowedFrom, PreExecution, RecoveryMicro
  <2>5. Reachable(NewTarget(c), Voices \cup {Doing(c)}) \/ Reachable(NewTarget(c), {"ROLLBACK"})
    BY <2>1 DEF Settle, CanSettle, CanSettleRollback
  <2>6. ~Reachable(NewTarget(c), {"ROLLBACK"})
    BY <2>4
  <2>7. Voices \cup {Doing(c)} = {"ABORT"}
    BY <2>4, <2>5, <2>6
  <2>8. Doing(c) = "ABORT"
    BY <2>7
  <2> QED
    BY <2>1, <2>8
<1> QED
  BY <1>2, <1>3

-----------------------------------------------------------------------------
(* The invariant.                                                          *)

LEMMA InitInv == Init => IInv
<1> SUFFICES ASSUME Init PROVE IInv
  OBVIOUS
<1>0. /\ file = InitialBytes /\ claim = [t \in Targets |-> None]
      /\ stage = IF Begun THEN "ACTIVE" ELSE "PREPARING"
      /\ op = [o \in Ops |-> [status |-> "INTENT", rev |-> 1]]
      /\ settled = [o \in Ops |-> Unsettled] /\ accepted = [o \in Ops |-> <<>>]
      /\ session = [o \in Ops |-> NoSessions] /\ recent = {} /\ lock = None
      /\ pc = [c \in Coordinators |-> "idle"] /\ job = [c \in Coordinators |-> NoJob]
      /\ executed = Begun /\ spent = [edits |-> 0, crashes |-> 0, preparations |-> 0]
  BY DEF Init
<1>1. \A o \in Ops : ~IsSettled(o) /\ settled[o].by = 0 /\ settled[o].seen = "NONE" /\ accepted[o] = <<>>
  BY <1>0 DEF IsSettled, Unsettled
<1>2. TypeOK
  <2>1. file \in [Targets -> Bytes] /\ claim \in [Targets -> Ops \cup {None}] /\ recent \subseteq Ops \X Ops
    BY <1>0, SettlementAssumption
  <2>2. stage \in MicrotaskStatus /\ executed \in BOOLEAN
    BY <1>0, SettlementAssumption DEF MicrotaskStatus, PreExecution
  <2>3. op \in [Ops -> [status : OperationStatus, rev : Nat]]
    BY <1>0 DEF OperationStatus
  <2>4. settled \in [Ops -> [action : Actions \cup {"NONE"}, by : Nat, seen : MicrotaskStatus \cup {"NONE"}]]
    BY <1>0 DEF Unsettled
  <2>5. accepted \in [Ops -> Seq([action : Actions, rev : Nat, view : [Targets -> Bytes]])]
    BY <1>0
  <2>6. \A o \in Ops : settled[o].by <= Len(accepted[o])
    BY <1>1
  <2>7. session \in [Ops -> [1..MaxResolutions -> SessionState]]
    BY <1>0 DEF NoSessions, SessionState
  <2>8. pc \in [Coordinators -> {"idle", "act", "lifecycle", "release", "rc4"}] /\ lock \in Coordinators \cup {None}
    BY <1>0
  <2>9. job \in [Coordinators -> [step : Steps \cup {"NONE"}, op : Ops \cup {None}, by : Nat]]
    BY <1>0 DEF NoJob
  <2>10. spent \in [edits : Nat, crashes : Nat, preparations : Nat]
    BY <1>0
  <2> QED
    BY <2>1, <2>2, <2>3, <2>4, <2>5, <2>6, <2>7, <2>8, <2>9, <2>10 DEF TypeOK
<1>3. AcceptedOnRevision
  BY <1>1, SettlementAssumption DEF AcceptedOnRevision
<1>4. SettledByResolution /\ AbortedBeforeBegun
  BY <1>1 DEF SettledByResolution, AbortedBeforeBegun
<1>5. SessionsOfRollbacks
  BY <1>0 DEF SessionsOfRollbacks, NoSessions
<1>6. JobFits
  BY <1>0 DEF JobFits
<1>7. BegunOrKnown
  BY <1>0, <1>1 DEF BegunOrKnown, PreExecution
<1> QED
  BY <1>2, <1>3, <1>4, <1>5, <1>6, <1>7 DEF IInv

(* Every step of recovery and of what runs beside it keeps the invariant.  *)
THEOREM Inductive == IInv /\ [Next]_vars => IInv'
  BY TypeStep, AcceptedOnRevisionKept, SettledByResolutionKept, SessionsOfRollbacksKept, JobFitsKept,
     BegunOrKnownKept, AbortedBeforeBegunKept DEF IInv

(* The facts recovery decides on stay in order whoever writes them.        *)
THEOREM InvariantHolds == Spec => []IInv
<1>1. Init => IInv
  BY InitInv
<1>2. IInv /\ [Next]_vars => IInv'
  BY Inductive
<1> QED
  BY <1>1, <1>2, PTL DEF Spec

(* Every durable fact has its type, for any bounds (RC-6).                 *)
THEOREM RecoveryTypeCorrect == Spec => []TypeOK
<1>1. IInv => TypeOK
  BY DEF IInv
<1> QED
  BY <1>1, InvariantHolds, PTL

-----------------------------------------------------------------------------
(* What a restore needs.                                                   *)

LEMMA RestoreSessionRestores ==
  ASSUME IInv, [Next]_vars, NEW o \in Ops, NEW i \in 1..MaxResolutions,
         session[o][i] # "RESTORED", session'[o][i] = "RESTORED"
  PROVE  CanRestore(o, i)
<1>0. session \in [Ops -> [1..MaxResolutions -> SessionState]]
  BY DEF IInv, TypeOK
<1>1. PICK q \in Ops, j \in 1..MaxResolutions :
         PrepareSession(q, j) \/ RestoreSession(q, j) \/ GiveBackSession(q, j) \/ CloseSession(q, j)
  BY SessionsWritten DEF SessionWriters
<1>2. PICK s \in SessionState : session' = [session EXCEPT ![q][j] = s] /\ (s = "RESTORED" => CanRestore(q, j))
  BY <1>1 DEF PrepareSession, RestoreSession, GiveBackSession, CloseSession, SetSession, SessionState
<1>3. q = o /\ j = i /\ s = "RESTORED"
  BY <1>0, <1>2
<1> QED
  BY <1>2, <1>3

(* A settlement is final in both directions: its record never changes and  *)
(* no rollback of its operation restores anything any more, for any number *)
(* of operations, calls and crashes (_settle_recovery_locked).             *)
THEOREM SettlementsAreFinal == Spec => NoRestoreAfterSettlement
<1> DEFINE Final == \A o \in Ops : IsSettled(o) =>
                       /\ settled'[o] = settled[o]
                       /\ \A i \in 1..MaxResolutions :
                             session'[o][i] = "RESTORED" => session[o][i] = "RESTORED"
<1>1. IInv /\ [Next]_vars => Final
  <2> SUFFICES ASSUME IInv, [Next]_vars, NEW o \in Ops, IsSettled(o)
               PROVE  /\ settled'[o] = settled[o]
                      /\ \A i \in 1..MaxResolutions :
                            session'[o][i] = "RESTORED" => session[o][i] = "RESTORED"
    OBVIOUS
  <2>1. settled'[o] = settled[o]
    BY SettlementKept
  <2>2. ASSUME NEW i \in 1..MaxResolutions, session'[o][i] = "RESTORED", session[o][i] # "RESTORED"
        PROVE  FALSE
    <3>1. session[o][i] = "PREPARED" /\ accepted[o][i].rev = op[o].rev
      BY <2>2, RestoreSessionRestores DEF CanRestore, Fresh
    <3>2. i \in DOMAIN accepted[o] /\ accepted[o][i].action = "ROLLBACK"
      BY <3>1 DEF IInv, SessionsOfRollbacks
    <3>3. accepted[o][i].rev < op[o].rev
      BY <3>2 DEF IInv, SettledByResolution
    <3>4. op[o].rev \in Nat
      BY DEF IInv, TypeOK
    <3> QED
      BY <3>1, <3>3, <3>4
  <2> QED
    BY <2>1, <2>2
<1>2. IInv /\ [Next]_vars => [Final]_vars
  BY <1>1
<1> QED
  BY <1>2, InvariantHolds, PTL DEF Spec, NoRestoreAfterSettlement

(* Bytes change only for a stage that was ACTIVE once and is not verified, *)
(* whoever asks for the rollback (rollback_refusal): a microtask settled   *)
(* before it began is known by the status its settlement remembers.        *)
THEOREM OnlyExecutedIsRestored == Spec => NeverExecutedNeverRestored
<1> DEFINE Executed == \A o \in Ops : \A i \in 1..MaxResolutions :
                          session[o][i] # "RESTORED" /\ session'[o][i] = "RESTORED"
                              => executed /\ stage # "VERIFIED"
<1>1. IInv /\ [Next]_vars => Executed
  <2> SUFFICES ASSUME IInv, [Next]_vars, NEW o \in Ops, NEW i \in 1..MaxResolutions,
                      session[o][i] # "RESTORED", session'[o][i] = "RESTORED"
               PROVE  executed /\ stage # "VERIFIED"
    OBVIOUS
  <2>1. stage \in RecoveryMicro \cup {"ACTIVE", "DONE"} /\ \A q \in Ops : settled[q].seen \notin PreExecution
    BY RestoreSessionRestores DEF CanRestore, Restorable
  <2>2. stage \notin PreExecution /\ stage # "VERIFIED" /\ ~NeverBegan
    BY <2>1 DEF PreExecution, RecoveryMicro, NeverBegan
  <2> QED
    BY <2>2 DEF IInv, BegunOrKnown
<1>2. IInv /\ [Next]_vars => [Executed]_vars
  BY <1>1
<1> QED
  BY <1>2, InvariantHolds, PTL DEF Spec, NeverExecutedNeverRestored

-----------------------------------------------------------------------------
(* What the settlements hold the microtask at.                             *)

(* A settled ABORT or ROLLBACK keeps the stage at the manual boundary      *)
(* while it speaks, whatever is recovered, reported or asked for beside it *)
(* (settlement_lifecycle_target).                                          *)
THEOREM DispositionHolds == Spec => NeverLifted
<1> DEFINE Held == Voices \cap Destructive # {} /\ stage = "RECOVERY_REQUIRED" => stage' = "RECOVERY_REQUIRED"
<1>1. IInv /\ [Next]_vars => Held
  <2> SUFFICES ASSUME IInv, [Next]_vars, Voices \cap Destructive # {}, stage = "RECOVERY_REQUIRED"
               PROVE  stage' = "RECOVERY_REQUIRED"
    OBVIOUS
  <2>1. ASSUME NEW c \in Coordinators, SettleLifecycle(c) PROVE stage' = "RECOVERY_REQUIRED"
    <3>1. Step(c) \in {"SETTLE", "SETTLE_ROLLBACK"} /\ pc[c] # "idle"
      BY <2>1 DEF SettleLifecycle, IInv, JobFits
    <3> QED
      BY <2>1, <3>1, NewTargetExists DEF SettleLifecycle
  <2>2. ASSUME NEW c \in Coordinators, FinishSettlement(c) PROVE stage' = "RECOVERY_REQUIRED"
    BY <2>2, FinishTargetExists DEF FinishSettlement
  <2>3. ASSUME NEW c \in Coordinators, RearmRetry(c) PROVE FALSE
    <3>1. \E o \in Ops : Voice(o) \cap Destructive # {}
      BY DEF Voices
    <3> QED
      BY <2>3, <3>1 DEF RearmRetry, CanRearm, Disposed
  <2>4. ASSUME NEW c \in Coordinators, StagePreflight(c) PROVE stage' = "RECOVERY_REQUIRED"
    BY <2>4 DEF StagePreflight
  <2>5. ~PreparationEnds /\ ~PrepareAgain /\ ~Activate /\ ~Verify /\ ~StageMove
    BY DEF PreparationEnds, PrepareAgain, Activate, Verify, StageMove, Moves
  <2> QED
    BY <2>1, <2>2, <2>3, <2>4, <2>5, StageWritten DEF StageWriters
<1>2. IInv /\ [Next]_vars => [Held]_vars
  BY <1>1
<1> QED
  BY <1>2, InvariantHolds, PTL DEF Spec, NeverLifted

(* A settlement that speaks is heard.                                      *)
LEMMA SpeakingIsHeard ==
  ASSUME NEW o \in Ops, SettlementSpeaks(o)
  PROVE  /\ Voice(o) = IF Authority(o) = settled[o].by THEN {settled[o].action} ELSE {"ABORT"}
         /\ Voices # {}
<1>1. Voice(o) = IF Authority(o) = settled[o].by THEN {settled[o].action} ELSE {"ABORT"}
  BY VoiceIs DEF SettlementSpeaks, LateAbort
<1> QED
  BY <1>1 DEF Voices

(* Where only an accepted effect is left, nothing of it is undone.         *)
LEMMA OnlyAdopted ==
  ASSUME IInv, NEW o \in Ops, SettlementSpeaks(o), EffectiveTarget(Voices) = "DONE"
  PROVE  ~Aborted(o) /\ "ROLLBACK" \notin Voice(o)
<1>1. Voices = {"ADOPT"}
  BY SpeakingIsHeard, VoicesAre, TargetExists DEF IInv
<1>2. Voice(o) \subseteq {"ADOPT"}
  BY <1>1, VoicesAre DEF IInv
<1>3. Authority(o) = settled[o].by /\ settled[o].action = "ADOPT"
  BY <1>2, SpeakingIsHeard
<1>4. accepted[o][Authority(o)].action = "ADOPT"
  BY <1>3 DEF SettlementSpeaks, IInv, SettledByResolution
<1> QED
  BY <1>2, <1>4, AuthorityIsAccepted DEF IInv

(* What recovery asks nothing for has nothing open and nothing undone.     *)
LEMMA NothingToRecover ==
  ASSUME IInv, stage = "DONE", NEW o \in Ops, Recovery(o) = "NONE"
  PROVE  OpenSessions(o) = {} /\ ~Aborted(o) /\ "ROLLBACK" \notin Voice(o)
<1>1. OpenSessions(o) = {}
  <2>1. OfSession(o) # "NONE"
    BY DEF OfSession
  <2> QED
    BY <2>1 DEF Recovery
<1>2. CASE SettlementSpeaks(o)
  <2>1. Completed(o)
    BY <1>1, <1>2 DEF Recovery
  <2>2. EffectiveTarget(Voices) = "DONE"
    BY <2>1 DEF Completed, Satisfied
  <2> QED
    BY <1>1, <1>2, <2>2, OnlyAdopted
<1>3. CASE ~SettlementSpeaks(o)
  <2> DEFINE i == Authority(o)
  <2>1. i = 0
    <3> SUFFICES ASSUME i # 0 PROVE FALSE
      OBVIOUS
    <3>1. accepted[o][i].action \in Actions /\ Action(o, i) = accepted[o][i].action
      BY AuthorityIsAccepted, ResolutionType DEF IInv, Action
    <3>2. OfAction(o, i) # "NONE"
      BY <3>1 DEF OfAction, Actions, Destructive
    <3>3. Recovery(o) \in {"SETTLE_ROLLBACK", "MANUAL"} \/ Recovery(o) = OfAction(o, i)
      BY <1>1, <1>3 DEF Recovery
    <3> QED
      BY <3>2, <3>3
  <2>2. ~Aborted(o)
    BY <2>1, AuthorityIsAccepted, ResolutionType DEF IInv
  <2>3. Voice(o) = {}
    BY <1>3, <2>2, VoiceIs DEF SettlementSpeaks
  <2> QED
    BY <1>1, <2>2, <2>3
<1> QED
  BY <1>2, <1>3

(* Outdated advice is not an ABORT and undoes nothing.                     *)
LEMMA StaleIsAdvice ==
  ASSUME IInv, NEW o \in Ops, Stale(o)
  PROVE  OpenSessions(o) = {} /\ ~Aborted(o) /\ "ROLLBACK" \notin Voice(o)
<1>1. OpenSessions(o) = {} /\ ~SettlementSpeaks(o) /\ Authority(o) # 0 /\ ~InForce(o, Authority(o))
  BY DEF Stale
<1>2. ~Aborted(o)
  <2> SUFFICES ASSUME Aborted(o) PROVE FALSE
    OBVIOUS
  <2>1. Authority(o) \in DOMAIN accepted[o] /\ Action(o, Authority(o)) = "ABORT"
    BY <1>1, AuthorityIsAccepted DEF IInv, Action
  <2>2. ~IsSettled(o)
    BY <1>1 DEF SettlementSpeaks, LateAbort
  <2>3. Authority(o) \in Speaking(o)
    BY <2>1, <2>2 DEF Speaking
  <2> QED
    BY <1>1, <2>1, <2>3 DEF InForce
<1>3. Voice(o) = {}
  BY <1>1, <1>2, VoiceIs DEF SettlementSpeaks
<1> QED
  BY <1>1, <1>2, <1>3

(* What is adopted is verified, and stays so.                              *)
AdoptedVerified == \A o \in Ops : settled[o].action = "ADOPT" => op[o].status = "VERIFIED"

LEMMA AdoptedHolds == Spec => []AdoptedVerified
<1>1. Init => AdoptedVerified
  BY DEF Init, AdoptedVerified, Unsettled
<1>2. IInv /\ AdoptedVerified /\ [Next]_vars => AdoptedVerified'
  <2> SUFFICES ASSUME IInv, AdoptedVerified, [Next]_vars, NEW o \in Ops, settled'[o].action = "ADOPT"
               PROVE  op'[o].status = "VERIFIED"
    BY DEF AdoptedVerified
  <2>0. /\ op \in [Ops -> [status : OperationStatus, rev : Nat]]
        /\ DOMAIN settled = Ops
        /\ settled[o].action = "ADOPT" => op[o].status = "VERIFIED"
    BY DEF IInv, TypeOK, AdoptedVerified
  <2>1. ASSUME NEW c \in Coordinators, Settle(c) PROVE op'[o].status = "VERIFIED"
    <3>1. Record(job[c].op, job[c].by)
      BY <2>1 DEF Settle
    <3>2. PICK q : q = job[c].op
      OBVIOUS
    <3>3. PICK i : i = job[c].by
      OBVIOUS
    <3>4. \/ UNCHANGED <<op, settled>>
          \/ /\ settled' = [settled EXCEPT ![q] = [action |-> Action(q, i), by |-> i, seen |-> stage]]
             /\ op' = [op EXCEPT ![q] = [status |-> IF Action(q, i) = "ADOPT" THEN "VERIFIED" ELSE @.status,
                                         rev |-> @.rev + 1]]
      BY <3>1, <3>2, <3>3 DEF Record
    <3> QED
      BY <2>0, <3>4
  <2>2. ASSUME NEW q \in Ops, Execute(q) \/ ApiTransition(q) PROVE op'[o].status = "VERIFIED"
    <3>1. UNCHANGED settled /\ op[q].status # "VERIFIED"
      BY <2>2 DEF Execute, Eligible, ApiTransition, Allowed
    <3>2. q # o /\ (\A p \in Ops \ {q} : op'[p] = op[p])
      BY <2>0, <2>2, <3>1 DEF Execute, ApiTransition
    <3> QED
      BY <2>0, <3>1, <3>2
  <2>3. ASSUME NEW q \in Ops, NEW a \in Actions, Resolve(q, a) PROVE op'[o].status = "VERIFIED"
    BY <2>0, <2>3 DEF Resolve
  <2> QED
    BY <2>0, <2>1, <2>2, <2>3, RecordsWritten DEF RecordWriters
<1> QED
  BY <1>1, <1>2, InvariantHolds, PTL DEF Spec

(* A settled rollback that has fallen silent was followed by a RETRY       *)
(* (SETTLEMENT_ADMITS), and no other settlement leaves a fate open.        *)
LEMMA SilentMeansRetried ==
  ASSUME IInv, AdoptedVerified, NEW o \in Ops, ~Aborted(o), "ROLLBACK" \notin Voice(o), IsSettled(o),
         op[o].status \in OpenFate \/ settled[o].action = "ROLLBACK"
  PROVE  RetriedAfterRollback(o)
<1>1. /\ settled[o].by \in DOMAIN accepted[o]
      /\ settled[o].action = accepted[o][settled[o].by].action
      /\ settled[o].action \in Actions /\ settled[o].action # "RETRY"
  BY ResolutionType DEF IInv, SettledByResolution
<1>2. settled[o].action = "ROLLBACK"
  <2>1. settled[o].action # "ABORT"
    BY <1>1 DEF Aborted
  <2>2. settled[o].action = "ADOPT" => op[o].status \notin OpenFate
    BY DEF AdoptedVerified, OpenFate
  <2> QED
    BY <1>1, <2>1, <2>2 DEF Actions, Destructive
<1>3. Authority(o) # settled[o].by
  BY <1>2, VoiceIs
<1>4. Authority(o) \in Speaking(o)
  BY <1>1, AuthoritySpeaks DEF IInv
<1>5. PICK i \in DOMAIN accepted[o] : i = Authority(o) /\ i > settled[o].by /\ Action(o, i) \in {"ABORT", "RETRY"}
  BY <1>2, <1>3, <1>4 DEF Speaking, Admits
<1>6. Action(o, i) # "ABORT"
  <2>1. i # 0
    BY <1>5, ResolutionType DEF IInv
  <2> QED
    BY <1>5, <2>1 DEF Aborted, Action
<1> QED
  BY <1>2, <1>5, <1>6 DEF RetriedAfterRollback

(* When a stage is verified nothing of it is aborted or in an open         *)
(* session, and an operation of open fate or with a settled rollback is    *)
(* one a RETRY was accepted for later than its ROLLBACK                    *)
(* (verification_refusal).                                                 *)
THEOREM VerifiedOnlyWhenRecovered == Spec => VerificationRespectsRecovery
<1> DEFINE Closed(o) == OpenSessions(o) = {} /\ ~Aborted(o) /\ "ROLLBACK" \notin Voice(o)
           Respects == stage # "VERIFIED" /\ stage' = "VERIFIED" =>
                          \A o \in Ops :
                              /\ ~Aborted(o) /\ OpenSessions(o) = {}
                              /\ op[o].status \in OpenFate \/ settled[o].action = "ROLLBACK"
                                    => RetriedAfterRollback(o)
<1>1. IInv /\ AdoptedVerified /\ [Next]_vars => Respects
  <2> SUFFICES ASSUME IInv, AdoptedVerified, [Next]_vars, stage # "VERIFIED", stage' = "VERIFIED", NEW o \in Ops
               PROVE  /\ ~Aborted(o) /\ OpenSessions(o) = {}
                      /\ op[o].status \in OpenFate \/ settled[o].action = "ROLLBACK"
                            => RetriedAfterRollback(o)
    OBVIOUS
  <2>1. ASSUME NEW c \in Coordinators, SettleLifecycle(c) PROVE FALSE
    <3>1. Step(c) \in {"SETTLE", "SETTLE_ROLLBACK"} /\ pc[c] # "idle"
      BY <2>1 DEF SettleLifecycle, IInv, JobFits
    <3> QED
      BY <2>1, <3>1, NewTargetExists DEF SettleLifecycle
  <2>2. ASSUME NEW c \in Coordinators, FinishSettlement(c) PROVE FALSE
    BY <2>2, FinishTargetExists DEF FinishSettlement
  <2>3. ASSUME NEW c \in Coordinators, RearmRetry(c) \/ StagePreflight(c) PROVE FALSE
    BY <2>3 DEF RearmRetry, StagePreflight
  <2>4. ~PreparationEnds /\ ~PrepareAgain /\ ~Activate /\ ~StageMove
    BY DEF PreparationEnds, PrepareAgain, Activate, StageMove, Moves, SetStage
  <2>5. Verify
    BY <2>1, <2>2, <2>3, <2>4, StageWritten DEF StageWriters
  <2>6. /\ stage = "DONE" /\ (Recovery(o) = "NONE" \/ Stale(o) \/ AcceptedEffect(o))
        /\ op[o].status \in OpenFate => IsSettled(o)
    BY <2>5 DEF Verify, Verifiable
  <2>7. ASSUME AcceptedEffect(o) PROVE Closed(o)
    <3>1. OpenSessions(o) = {} /\ SettlementSpeaks(o) /\ EffectiveTarget(Voices) = "DONE"
      BY <2>7 DEF AcceptedEffect, SettlementSpeaks
    <3> QED
      BY <3>1, OnlyAdopted
  <2>8. Closed(o)
    BY <2>6, <2>7, NothingToRecover, StaleIsAdvice
  <2>9. settled[o].action = "ROLLBACK" => IsSettled(o)
    BY DEF IsSettled, Unsettled
  <2> QED
    BY <2>6, <2>8, <2>9, SilentMeansRetried
<1>2. IInv /\ AdoptedVerified /\ [Next]_vars => [Respects]_vars
  BY <1>1
<1> QED
  BY <1>2, InvariantHolds, AdoptedHolds, PTL DEF Spec, VerificationRespectsRecovery

(* A settled ABORT or ROLLBACK that died after its first write can always  *)
(* be completed, whatever happened since (_finish_settlement).             *)
THEOREM HalfDoneCanBeFinished == Spec => []HalfDoneCompletable
<1>1. IInv => HalfDoneCompletable
  <2> SUFFICES ASSUME IInv, NEW o \in Ops, HalfDone(o), OpenSessions(o) = {}, stage # "PREPARING"
               PROVE  Recovery(o) = "FINISH" /\ Finishable
    BY DEF HalfDoneCompletable
  <2> DEFINE s == EffectiveTarget(Voices)
  <2>1. SettlementSpeaks(o) /\ settled[o].action \in Destructive /\ ~Contradicted(o) /\ ~Completed(o)
    BY DEF HalfDone
  <2>2. Recovery(o) = "FINISH"
    BY <2>1 DEF Recovery
  <2>3. Voices # {} /\ Voices \in SUBSET {"ABORT", "ADOPT", "ROLLBACK"} /\ Voices \cap Destructive # {}
    <3>1. Voice(o) \cap Destructive # {}
      BY <2>1, SpeakingIsHeard DEF Destructive
    <3> QED
      BY <3>1, VoicesAre DEF IInv
  <2>4. CASE stage = "VERIFIED"
    <3>1. s = "VERIFIED" \/ s = "RECOVERY_REQUIRED"
      BY <2>3, <2>4, TargetIs DEF EffectiveTarget
    <3>2. s # "RECOVERY_REQUIRED"
      BY <2>1, <2>4 DEF Contradicted
    <3>3. Satisfied(s)
      BY <2>4, <3>1, <3>2 DEF Satisfied
    <3> QED
      BY <2>2, <2>3, <3>3 DEF Finishable
  <2>5. CASE stage # "VERIFIED"
    <3>1. s = "RECOVERY_REQUIRED"
      BY <2>3, <2>5, TargetIs DEF EffectiveTarget
    <3>2. stage \in {"READY", "BLOCKED_PREPARE"} \cup RecoveryMicro \cup {"ACTIVE", "DONE"}
      BY <2>5 DEF IInv, TypeOK, MicrotaskStatus, PreExecution
    <3>3. stage \in {"READY", "BLOCKED_PREPARE"} => Voices = {"ABORT"}
      <4> SUFFICES ASSUME stage \in PreExecution PROVE Voices = {"ABORT"}
        BY DEF PreExecution
      <4>1. ASSUME NEW q \in Ops PROVE Voice(q) \subseteq {"ABORT"}
        BY VoiceIs DEF IInv, AbortedBeforeBegun
      <4>2. Voices \subseteq {"ABORT"}
        BY <4>1 DEF Voices
      <4> QED
        BY <2>3, <4>2
    <3>4. stage \in AllowedFrom("RECOVERY_REQUIRED", Voices)
      BY <3>2, <3>3 DEF AllowedFrom
    <3>5. Reachable(s, Voices)
      BY <3>1, <3>4 DEF Reachable
    <3> QED
      BY <2>2, <2>3, <3>5 DEF Finishable
  <2> QED
    BY <2>4, <2>5
<1> QED
  BY <1>1, InvariantHolds, PTL
====
