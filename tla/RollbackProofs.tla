---- MODULE RollbackProofs ----
(***************************************************************************)
(* Theorems about RollbackSafety, for any targets, restore points, TASKs,  *)
(* operations, sessions and bounds.                                        *)
(***************************************************************************)
EXTENDS RollbackSafety, WellFoundedInduction, TLAPS

(* The order of the numbers is well-founded, so a set of targets has a     *)
(* first one.                                                              *)
LEMMA LessWellFounded == IsWellFoundedOn({ss \in Nat \X Nat : ss[1] < ss[2]}, Nat)
  BY NatLessThanWellFounded, Zenon DEF OpToRel

LEMMA MinIn ==
  ASSUME NEW S, S \subseteq Targets, S # {}
  PROVE  Min(S) \in S
<1>1. S \subseteq Nat
  BY RollbackAssumption DEF Targets
<1>2. PICK x \in S : \A y \in S : ~(<<y, x>> \in {ss \in Nat \X Nat : ss[1] < ss[2]})
  BY <1>1, WFMin, LessWellFounded
<1>3. ASSUME NEW y \in S
      PROVE  x =< y
  <2>1. x \in Nat /\ y \in Nat
    BY <1>1
  <2>2. ~(<<y, x>>[1] < <<y, x>>[2])
    BY <1>2, <2>1
  <2> QED
    BY <2>1, <2>2
<1> QED
  BY <1>3 DEF Min

LEMMA ItemsType == \A r \in Sessions : Items(r) \subseteq Targets /\ OpTask(r) \in Tasks
  BY RollbackAssumption DEF Items, OpTask, Targets

-----------------------------------------------------------------------------
(* Types.                                                                  *)

LEMMA TypeInit == Init => TypeOK
  BY RollbackAssumption
     DEF Init, TypeOK, NoClaim, SessionStatus, TargetStatus, Labels, Targets

(* Changing the record of one target, the status, the place of a call.     *)
LEMMA PartType ==
  ASSUME TypeOK, NEW r \in Sessions, NEW t, NEW p \in TargetStatus, SetPart(r, t, p)
  PROVE  part' \in [Sessions -> [Targets -> TargetStatus]]
  BY DEF SetPart, TypeOK

LEMMA MarkType ==
  ASSUME TypeOK, NEW r \in Sessions, NEW S
  PROVE  Mark(r, S) \in [Sessions -> [Targets -> TargetStatus]]
  BY DEF Mark, TypeOK, TargetStatus

LEMMA StatusType ==
  ASSUME TypeOK, NEW r \in Sessions, NEW s \in SessionStatus, SetStatus(r, s)
  PROVE  status' \in [Sessions -> SessionStatus]
  BY DEF SetStatus, TypeOK

ProcessOK ==
    /\ pc \in [Sessions -> Labels]
    /\ call \in [Sessions -> {"apply", "close", "finish"}]
    /\ plan \in [Sessions -> BOOLEAN]
    /\ taskLock \in [Tasks -> Sessions \cup {None}]
    /\ targetLock \in [Targets -> Sessions \cup {None}]

LEMMA LeaveType ==
  ASSUME TypeOK, NEW r \in Sessions, Leave(r)
  PROVE  ProcessOK'
  BY DEF Leave, Unlock, TypeOK, ProcessOK, Labels

LEMMA GotoType ==
  ASSUME TypeOK, NEW r \in Sessions, NEW l \in Labels, Goto(r, l)
  PROVE  ProcessOK'
  BY DEF Goto, TypeOK, ProcessOK

LEMMA CallType ==
  ASSUME TypeOK, NEW r \in Sessions, NEW c \in {"apply", "close", "finish"}, Call(r, c)
  PROVE  TypeOK'
  BY DEF Call, Enter, TypeOK, Labels, world, facts, record

LEMMA StutterType == ASSUME TypeOK, UNCHANGED vars PROVE TypeOK'
  BY DEF TypeOK, vars, world, facts, record, process

(* One more of a bounded kind of event.                                    *)
LEMMA SpentType ==
  ASSUME TypeOK
  PROVE  /\ [spent EXCEPT !.edits = @ + 1] \in [edits : Nat, crashes : Nat, timeouts : Nat]
         /\ [spent EXCEPT !.crashes = @ + 1] \in [edits : Nat, crashes : Nat, timeouts : Nat]
         /\ [spent EXCEPT !.timeouts = @ + 1] \in [edits : Nat, crashes : Nat, timeouts : Nat]
<1>1. spent.edits + 1 \in Nat /\ spent.crashes + 1 \in Nat /\ spent.timeouts + 1 \in Nat
  BY DEF TypeOK
<1>2. ASSUME NEW n \in Nat
      PROVE  /\ [spent EXCEPT !.edits = n] \in [edits : Nat, crashes : Nat, timeouts : Nat]
             /\ [spent EXCEPT !.crashes = n] \in [edits : Nat, crashes : Nat, timeouts : Nat]
             /\ [spent EXCEPT !.timeouts = n] \in [edits : Nat, crashes : Nat, timeouts : Nat]
  BY DEF TypeOK
<1> QED
  BY <1>1, <1>2

(* prepare, and the beginning of a call.                                   *)
LEMMA PrepareType ==
  ASSUME TypeOK, NEW r \in Sessions,
         Prepare(r) \/ Preserve(r) \/ PreserveFails(r) \/ Preserved(r)
  PROVE  TypeOK'
<1> USE DEF world, facts, record, process
<1>1. CASE Prepare(r)
  BY <1>1, StatusType DEF Prepare, Enter, TypeOK, SessionStatus, Labels
<1>2. CASE Preserve(r)
  <2> DEFINE t == Min(With(r, "PENDING"))
  <2>1. part' \in [Sessions -> [Targets -> TargetStatus]]
    BY <1>2, PartType DEF Preserve, TargetStatus
  <2>2. kept' \in [Sessions -> [Targets -> Bytes]]
    BY <1>2 DEF Preserve, TypeOK
  <2> QED
    BY <1>2, <2>1, <2>2 DEF Preserve, TypeOK
<1>3. CASE PreserveFails(r)
  BY <1>3, StatusType, LeaveType DEF PreserveFails, TypeOK, SessionStatus, ProcessOK
<1>4. CASE Preserved(r)
  BY <1>4, StatusType, LeaveType DEF Preserved, TypeOK, SessionStatus, ProcessOK
<1> QED
  BY <1>1, <1>2, <1>3, <1>4

LEMMA BeginType ==
  ASSUME TypeOK, NEW r \in Sessions,
         Apply(r) \/ FinishRelease(r) \/ Close(r) \/ TakeLock(r) \/ Locked(r) \/ LockTimeout(r)
  PROVE  TypeOK'
<1> USE DEF world, facts, record, process
<1>1. CASE Apply(r) \/ FinishRelease(r) \/ Close(r)
  BY <1>1, CallType DEF Apply, FinishRelease, Close
<1>2. CASE TakeLock(r)
  BY <1>2 DEF TakeLock, TypeOK
<1>3. CASE Locked(r)
  <2>1. AfterLocks(r) \in Labels
    BY DEF AfterLocks, Labels
  <2> QED
    BY <1>3, <2>1, GotoType DEF Locked, TypeOK, ProcessOK
<1>4. CASE LockTimeout(r)
  BY <1>4, LeaveType, SpentType DEF LockTimeout, TypeOK, ProcessOK
<1> QED
  BY <1>1, <1>2, <1>3, <1>4

(* The phases of apply and close.                                          *)
LEMMA AdmissionType ==
  ASSUME TypeOK, NEW r \in Sessions,
         Settle(r) \/ StopAtDrift(r) \/ Blocked(r) \/ Admitted(r) \/ AcquireOne(r) \/ Authorize(r)
  PROVE  TypeOK'
<1> USE DEF world, facts, record, process
<1>1. CASE Settle(r)
  <2>1. \A t : ProvenFate(r, t) \in TargetStatus
    BY DEF ProvenFate, TargetStatus
  <2> QED
    BY <1>1, <2>1, PartType DEF Settle, TypeOK
<1>2. CASE StopAtDrift(r)
  BY <1>2, MarkType, GotoType DEF StopAtDrift, TypeOK, Labels, ProcessOK
<1>3. CASE Blocked(r)
  BY <1>3, LeaveType DEF Blocked, TypeOK, ProcessOK
<1>4. CASE Admitted(r)
  BY <1>4, GotoType DEF Admitted, TypeOK, Labels, ProcessOK
<1>5. CASE AcquireOne(r)
  <2> DEFINE t == Min(Items(r) \ Owned(r))
  <2>1. t \in Targets
    BY <1>5, MinIn, ItemsType DEF AcquireOne
  <2>2. kept[r][t] \in Bytes
    BY <2>1 DEF TypeOK
  <2>3. claim' = [claim EXCEPT ![t] = [owner |-> r, basis |-> kept[r][t]]]
    BY <1>5 DEF AcquireOne
  <2>4. claim' \in [Targets -> [owner : Ops \cup Sessions \cup {None}, basis : Bytes]]
    BY <2>2, <2>3 DEF TypeOK
  <2> QED
    BY <1>5, <2>4 DEF AcquireOne, TypeOK
<1>6. CASE Authorize(r)
  BY <1>6, StatusType, GotoType DEF Authorize, TypeOK, Labels, ProcessOK, SessionStatus
<1> QED
  BY <1>1, <1>2, <1>3, <1>4, <1>5, <1>6

LEMMA RestoreType ==
  ASSUME TypeOK, NEW r \in Sessions,
         KeepNoop(r) \/ MarkApplying(r) \/ StopAtTarget(r) \/ Write(r) \/ WriteFails(r) \/ Confirm(r)
  PROVE  TypeOK'
<1> USE DEF world, facts, record, process
<1>1. CASE KeepNoop(r)
  BY <1>1, PartType DEF KeepNoop, TypeOK, TargetStatus
<1>2. CASE MarkApplying(r)
  BY <1>2, PartType, StatusType, GotoType
     DEF MarkApplying, TypeOK, TargetStatus, SessionStatus, Labels, ProcessOK
<1>3. CASE StopAtTarget(r)
  BY <1>3, PartType, GotoType DEF StopAtTarget, TypeOK, TargetStatus, Labels, ProcessOK
<1>4. CASE Write(r)
  <2>1. file' \in [Targets -> Bytes] /\ author' \in [Targets -> Ops \cup Sessions \cup {None, Outside}]
    BY <1>4, RollbackAssumption DEF Write, TypeOK
  <2> QED
    BY <1>4, <2>1, GotoType DEF Write, TypeOK, Labels, ProcessOK
<1>5. CASE WriteFails(r)
  BY <1>5, PartType, GotoType DEF WriteFails, TypeOK, TargetStatus, Labels, ProcessOK
<1>6. CASE Confirm(r)
  BY <1>6, PartType, GotoType DEF Confirm, TypeOK, TargetStatus, Labels, ProcessOK
<1> QED
  BY <1>1, <1>2, <1>3, <1>4, <1>5, <1>6

LEMMA FinishType ==
  ASSUME TypeOK, NEW r \in Sessions,
         Prove(r) \/ Conclude(r) \/ ReleaseOne(r) \/ Released(r) \/ Crash(r) \/ Accept(r)
  PROVE  TypeOK'
<1> USE DEF world, facts, record, process
<1>1. CASE Prove(r)
  BY <1>1, MarkType, GotoType DEF Prove, TypeOK, Labels, ProcessOK
<1>2. CASE Conclude(r)
  <2>1. status' \in [Sessions -> SessionStatus]
    BY <1>2, StatusType DEF Conclude, SessionStatus
  <2>2. ProcessOK'
    BY <1>2, GotoType, LeaveType DEF Conclude, Labels
  <2> QED
    BY <1>2, <2>1, <2>2 DEF Conclude, TypeOK, ProcessOK
<1>3. CASE ReleaseOne(r)
  BY <1>3, RollbackAssumption DEF ReleaseOne, TypeOK, NoClaim
<1>4. CASE Released(r)
  <2>1. status' \in [Sessions -> SessionStatus]
    BY <1>4 DEF Released, SetStatus, TypeOK, SessionStatus
  <2> QED
    BY <1>4, <2>1, LeaveType DEF Released, TypeOK, ProcessOK
<1>5. CASE Crash(r)
  BY <1>5, LeaveType, SpentType DEF Crash, TypeOK, ProcessOK
<1>6. CASE Accept(r)
  BY <1>6 DEF Accept, TypeOK
<1> QED
  BY <1>1, <1>2, <1>3, <1>4, <1>5, <1>6

(* The writers a rollback runs beside.                                     *)
LEMMA BesideType ==
  ASSUME TypeOK,
         \/ \E o \in Ops : OpClaim(o) \/ OpExecute(o) \/ OpRelease(o) \/ OpRecord(o) \/ Abort(o)
         \/ \E k \in Tasks : RestorePointBreaks(k)
         \/ \E t \in Targets : ForeignEdit(t)
  PROVE  TypeOK'
<1> USE DEF world, facts, record, process
<1>1. ASSUME NEW o \in Ops, OpClaim(o) \/ OpRelease(o)
      PROVE  TypeOK'
  <2>1. TargetOf[o] \in Targets
    BY RollbackAssumption
  <2>2. claim' \in [Targets -> [owner : Ops \cup Sessions \cup {None}, basis : Bytes]]
    <3>1. CASE OpClaim(o)
      BY <2>1, <3>1 DEF OpClaim, TypeOK
    <3>2. CASE OpRelease(o)
      BY <2>1, <3>2, RollbackAssumption DEF OpRelease, TypeOK, NoClaim
    <3> QED
      BY <1>1, <3>1, <3>2
  <2> QED
    BY <1>1, <2>2 DEF OpClaim, OpRelease, TypeOK
<1>2. ASSUME NEW o \in Ops, OpExecute(o)
      PROVE  TypeOK'
  <2>1. TargetOf[o] \in Targets /\ Payload[o] \in Bytes
    BY RollbackAssumption
  <2>2. file' \in [Targets -> Bytes]
    BY <1>2, <2>1 DEF OpExecute, TypeOK
  <2>3. author' \in [Targets -> Ops \cup Sessions \cup {None, Outside}]
    BY <1>2, <2>1 DEF OpExecute, TypeOK
  <2>4. fate' \in [Ops -> {"INTENT", "STARTED", "DONE"}]
    BY <1>2 DEF OpExecute, TypeOK
  <2> QED
    BY <1>2, <2>2, <2>3, <2>4 DEF OpExecute, TypeOK
<1>3. ASSUME NEW o \in Ops, OpRecord(o)
      PROVE  TypeOK'
  BY <1>3 DEF OpRecord, TypeOK
<1>4. ASSUME NEW o \in Ops, Abort(o)
      PROVE  TypeOK'
  BY <1>4 DEF Abort, TypeOK
<1>5. ASSUME NEW k \in Tasks, RestorePointBreaks(k)
      PROVE  TypeOK'
  BY <1>5 DEF RestorePointBreaks, TypeOK
<1>6. ASSUME NEW t \in Targets, ForeignEdit(t)
      PROVE  TypeOK'
  <2>1. file' \in [Targets -> Bytes]
    BY <1>6, RollbackAssumption DEF ForeignEdit, TypeOK
  <2>2. author' \in [Targets -> Ops \cup Sessions \cup {None, Outside}]
    BY <1>6 DEF ForeignEdit, TypeOK
  <2>3. spent' \in [edits : Nat, crashes : Nat, timeouts : Nat]
    BY <1>6, SpentType DEF ForeignEdit
  <2> QED
    BY <1>6, <2>1, <2>2, <2>3 DEF ForeignEdit, TypeOK
<1> QED
  BY <1>1, <1>2, <1>3, <1>4, <1>5, <1>6

LEMMA TypeStep == ASSUME TypeOK, [Next]_vars PROVE TypeOK'
  BY PrepareType, BeginType, AdmissionType, RestoreType, FinishType, BesideType, StutterType
     DEF Next, Step

(* Every state of a rollback, its neighbours and its crashes is typed: in  *)
(* particular every status recovered from an interrupted write is one the  *)
(* session record may hold.                                                *)
THEOREM RollbackTypeCorrect == Spec => []TypeOK
<1>1. TypeOK /\ [Next]_vars => TypeOK'
  BY TypeStep
<1> QED
  BY TypeInit, <1>1, PTL DEF Spec

-----------------------------------------------------------------------------
(***************************************************************************)
(* Whatever sessions, operations, editors and crashes do: ownership is all *)
(* or nothing, ends by its owner's hand, protects what was verified, and   *)
(* nothing that was not preserved is overwritten.                          *)
(***************************************************************************)

(* What a running call has: its locks, the claims it may or does take, at  *)
(* most one target in flight, and the truth of what it has proved.         *)
Phases == {"settle", "acquire", "restore", "write", "confirm", "prove", "conclude"}

LocksHeld(r) == pc[r] \in Phases => \A t \in Items(r) : targetLock[t] = r

Claimable(r) ==
    pc[r] = "acquire" => \A t \in Items(r) : claim[t].owner \in {None, SourceOf[r], r}

OwnsAll(r) ==
    pc[r] \in {"restore", "write", "confirm"} => \A t \in Items(r) : claim[t].owner = r

Quiet(r) == pc[r] \in {"acquire", "restore"} => With(r, "APPLYING") = {}

OneInFlight(r) ==
    pc[r] \in {"write", "confirm"} =>
        \E t \in Items(r) :
            /\ With(r, "APPLYING") = {t}
            /\ pc[r] = "write" => file[t] = kept[r][t] \/ t \in raced

Proven(r) ==
    pc[r] = "conclude" =>
        \A t \in With(r, "RESTORED") \cup With(r, "NOOP") :
            file[t] = InitialBytes[t] \/ t \in raced

Running(r) ==
    pc[r] \in Phases \/ (pc[r] = "lock" /\ call[r] = "apply") => status[r] # "VERIFIED"

Stands(r) ==
    status[r] = "VERIFIED" =>
        \A t \in Owned(r) : file[t] = InitialBytes[t] \/ t \in raced

Sound(r) ==
    /\ LocksHeld(r) /\ Claimable(r) /\ OwnsAll(r)
    /\ Quiet(r) /\ OneInFlight(r) /\ Proven(r)
    /\ Running(r) /\ Stands(r)

IInv == TypeOK /\ \A r \in Sessions : Sound(r)

SessionStep(r) ==
    \/ Accept(r)
    \/ Prepare(r) \/ Apply(r) \/ FinishRelease(r) \/ Close(r)
    \/ Step(r)
    \/ PreserveFails(r) \/ TakeLock(r) \/ LockTimeout(r) \/ Crash(r)

Beside ==
    \/ \E o \in Ops :
          OpClaim(o) \/ OpExecute(o) \/ OpRelease(o) \/ OpRecord(o) \/ Abort(o)
    \/ \E k \in Tasks : RestorePointBreaks(k)
    \/ \E t \in Targets : ForeignEdit(t)
    \/ UNCHANGED vars

LEMMA StepCases == [Next]_vars => Beside \/ \E r \in Sessions : SessionStep(r)
  BY DEF Next, Beside, SessionStep

-----------------------------------------------------------------------------
(* Frames: what a step leaves alone.                                       *)

(* A session's step leaves the records and calls of the others alone.      *)
LEMMA RecordFrame ==
  ASSUME TypeOK, NEW q \in Sessions, SessionStep(q), NEW r \in Sessions, r # q
  PROVE  /\ status'[r] = status[r] /\ part'[r] = part[r] /\ kept'[r] = kept[r]
         /\ known'[r] = known[r] /\ pc'[r] = pc[r] /\ call'[r] = call[r]
<1> USE DEF TypeOK, record, process, SetPart, SetStatus, Goto, Leave, Enter, Call
<1>1. CASE Accept(q)
  BY <1>1 DEF Accept
<1>2. CASE Prepare(q) \/ Preserve(q) \/ PreserveFails(q) \/ Preserved(q)
  BY <1>2 DEF Prepare, Preserve, PreserveFails, Preserved
<1>3. CASE Apply(q) \/ FinishRelease(q) \/ Close(q)
  BY <1>3 DEF Apply, FinishRelease, Close
<1>4. CASE TakeLock(q) \/ Locked(q) \/ LockTimeout(q) \/ Crash(q)
  BY <1>4 DEF TakeLock, Locked, LockTimeout, Crash
<1>5. CASE Settle(q) \/ StopAtDrift(q) \/ Blocked(q) \/ Admitted(q)
  BY <1>5 DEF Settle, StopAtDrift, Blocked, Admitted, Mark
<1>6. CASE AcquireOne(q) \/ Authorize(q)
  BY <1>6 DEF AcquireOne, Authorize
<1>7. CASE KeepNoop(q) \/ MarkApplying(q) \/ StopAtTarget(q)
  BY <1>7 DEF KeepNoop, MarkApplying, StopAtTarget
<1>8. CASE Write(q) \/ WriteFails(q) \/ Confirm(q)
  BY <1>8 DEF Write, WriteFails, Confirm
<1>9. CASE Prove(q) \/ Conclude(q) \/ ReleaseOne(q) \/ Released(q)
  BY <1>9 DEF Prove, Conclude, ReleaseOne, Released, Mark
<1> QED
  BY <1>1, <1>2, <1>3, <1>4, <1>5, <1>6, <1>7, <1>8, <1>9 DEF SessionStep, Step

(* Nobody takes or opens a target lock that another session has.           *)
LEMMA LockFrame ==
  ASSUME TypeOK, NEW q \in Sessions, SessionStep(q), NEW r \in Sessions, r # q,
         NEW t \in Targets, targetLock[t] = r
  PROVE  targetLock'[t] = r
<1>0. r # None
  BY RollbackAssumption
<1> USE DEF process, Goto, Leave, Unlock, Enter, Call
<1>1. CASE TakeLock(q)
  BY <1>0, <1>1 DEF TakeLock, TypeOK
<1>2. CASE Accept(q)
  BY <1>2 DEF Accept
<1>3. CASE Prepare(q) \/ Preserve(q) \/ PreserveFails(q) \/ Preserved(q)
  BY <1>3 DEF Prepare, Preserve, PreserveFails, Preserved
<1>4. CASE Apply(q) \/ FinishRelease(q) \/ Close(q) \/ Locked(q) \/ LockTimeout(q) \/ Crash(q)
  BY <1>4 DEF Apply, FinishRelease, Close, Locked, LockTimeout, Crash
<1>5. CASE Settle(q) \/ StopAtDrift(q) \/ Blocked(q) \/ Admitted(q) \/ AcquireOne(q) \/ Authorize(q)
  BY <1>5 DEF Settle, StopAtDrift, Blocked, Admitted, AcquireOne, Authorize
<1>6. CASE \/ KeepNoop(q) \/ MarkApplying(q) \/ StopAtTarget(q)
           \/ Write(q) \/ WriteFails(q) \/ Confirm(q)
  BY <1>6 DEF KeepNoop, MarkApplying, StopAtTarget, Write, WriteFails, Confirm
<1>7. CASE Prove(q) \/ Conclude(q) \/ ReleaseOne(q) \/ Released(q)
  BY <1>7 DEF Prove, Conclude, ReleaseOne, Released
<1> QED
  BY <1>1, <1>2, <1>3, <1>4, <1>5, <1>6, <1>7 DEF SessionStep, Step

(* Five kinds of step change claims, bytes, or what is known of editors.   *)
LEMMA WorldFrame ==
  ASSUME NEW q \in Sessions, SessionStep(q)
  PROVE  \/ UNCHANGED world
         \/ AcquireOne(q) \/ MarkApplying(q) \/ Write(q) \/ Prove(q) \/ ReleaseOne(q)
<1>1. CASE Accept(q) \/ Prepare(q) \/ Preserve(q) \/ PreserveFails(q) \/ Preserved(q)
  BY <1>1 DEF Accept, Prepare, Preserve, PreserveFails, Preserved
<1>2. CASE \/ Apply(q) \/ FinishRelease(q) \/ Close(q)
           \/ TakeLock(q) \/ Locked(q) \/ LockTimeout(q) \/ Crash(q)
  BY <1>2 DEF Apply, FinishRelease, Close, Call, TakeLock, Locked, LockTimeout, Crash
<1>3. CASE Settle(q) \/ StopAtDrift(q) \/ Blocked(q) \/ Admitted(q) \/ Authorize(q)
  BY <1>3 DEF Settle, StopAtDrift, Blocked, Admitted, Authorize
<1>4. CASE KeepNoop(q) \/ StopAtTarget(q) \/ WriteFails(q) \/ Confirm(q)
  BY <1>4 DEF KeepNoop, StopAtTarget, WriteFails, Confirm
<1>5. CASE Conclude(q) \/ Released(q)
  BY <1>5 DEF Conclude, Released
<1> QED
  BY <1>1, <1>2, <1>3, <1>4, <1>5 DEF SessionStep, Step

LEMMA InFlightIs ==
  ASSUME NEW r \in Sessions, NEW t \in Items(r), With(r, "APPLYING") = {t}
  PROVE  InFlight(r) = t
BY MinIn, ItemsType DEF InFlight

LEMMA SetPartValue ==
  ASSUME TypeOK, NEW r \in Sessions, NEW t \in Targets, NEW p, SetPart(r, t, p)
  PROVE  part'[r][t] = p /\ \A s \in Targets \ {t} : part'[r][s] = part[r][s]
BY DEF TypeOK, SetPart

LEMMA AcquireOneIs ==
  ASSUME NEW r \in Sessions, AcquireOne(r)
  PROVE  \E t \in Items(r) \ Owned(r) :
             claim' = [claim EXCEPT ![t] = [owner |-> r, basis |-> kept[r][t]]]
<1> DEFINE t == Min(Items(r) \ Owned(r))
<1>1. t \in Items(r) \ Owned(r)
  BY MinIn, ItemsType DEF AcquireOne
<1> QED
  BY <1>1 DEF AcquireOne

(* A session changes bytes only of a target it has locked and claimed; it  *)
(* takes a claim from nobody but its source operation.                     *)
LEMMA SessionTouch ==
  ASSUME IInv, NEW q \in Sessions, SessionStep(q), NEW t \in Targets
  PROVE  /\ file'[t] # file[t] \/ author'[t] # author[t] \/ (t \in raced /\ t \notin raced') =>
                t \in Items(q) /\ targetLock[t] = q /\ claim[t].owner = q
         /\ claim'[t] # claim[t] =>
                \/ /\ pc[q] = "acquire" /\ targetLock[t] = q
                   /\ claim[t].owner \in {None, SourceOf[q]} /\ claim'[t].owner = q
                \/ pc[q] = "release" /\ claim[t].owner = q /\ claim'[t].owner = None
<1>1. CASE UNCHANGED world
  BY <1>1 DEF world
<1>2. CASE AcquireOne(q)
  <2>1. PICK s \in Items(q) \ Owned(q) :
           claim' = [claim EXCEPT ![s] = [owner |-> q, basis |-> kept[q][s]]]
    BY <1>2, AcquireOneIs
  <2>2. pc[q] = "acquire"
    BY <1>2 DEF AcquireOne
  <2>3. targetLock[s] = q /\ claim[s].owner \in {None, SourceOf[q]}
    BY <2>1, <2>2 DEF IInv, Sound, LocksHeld, Claimable, Phases, Owned
  <2>4. claim'[t] # claim[t] => t = s /\ claim'[t].owner = q
    BY <2>1 DEF IInv, TypeOK
  <2> QED
    BY <1>2, <2>2, <2>3, <2>4 DEF AcquireOne
<1>3. CASE MarkApplying(q)
  <2>1. PICK s \in Items(q) : AtTarget(q, s) /\ raced' = raced \ {s}
    BY <1>3 DEF MarkApplying
  <2>2. targetLock[s] = q /\ claim[s].owner = q
    BY <2>1 DEF AtTarget, IInv, Sound, LocksHeld, OwnsAll, Phases
  <2> QED
    BY <1>3, <2>1, <2>2 DEF MarkApplying
<1>4. CASE Write(q)
  <2>1. PICK s \in Items(q) : With(q, "APPLYING") = {s}
    BY <1>4 DEF Write, IInv, Sound, OneInFlight
  <2>2. InFlight(q) = s
    BY <2>1, InFlightIs
  <2>3. targetLock[s] = q /\ claim[s].owner = q
    BY <1>4 DEF Write, IInv, Sound, LocksHeld, OwnsAll, Phases
  <2> QED
    BY <1>4, <2>2, <2>3 DEF Write, IInv, TypeOK
<1>5. CASE Prove(q)
  <2>1. Owned(q) \subseteq Items(q) /\ \A s \in Owned(q) : claim[s].owner = q /\ targetLock[s] = q
    BY <1>5 DEF Prove, Owned, IInv, Sound, LocksHeld, Phases
  <2> QED
    BY <1>5, <2>1 DEF Prove
<1>6. CASE ReleaseOne(q)
  <2>1. Min(Releasable(q)) \in Releasable(q)
    BY <1>6, MinIn, ItemsType DEF ReleaseOne, Releasable
  <2> QED
    BY <1>6, <2>1 DEF ReleaseOne, Releasable, Held, NoClaim, IInv, TypeOK
<1> QED
  BY <1>1, <1>2, <1>3, <1>4, <1>5, <1>6, WorldFrame

LEMMA BesideFrame == Beside => UNCHANGED <<record, pc, call, targetLock>>
  BY DEF Beside, OpClaim, OpExecute, OpRelease, OpRecord, Abort, RestorePointBreaks,
     ForeignEdit, process, vars

(* An operation changes bytes and claims only of a target no rollback has  *)
(* locked, and bytes only of one it owns; an editor is remembered.         *)
LEMMA BesideTouch ==
  ASSUME IInv, Beside, NEW t \in Targets
  PROVE  /\ UNCHANGED <<record, pc, call, targetLock>>
         /\ t \in raced => t \in raced'
         /\ file'[t] # file[t] \/ author'[t] # author[t] =>
                \/ t \in raced' /\ author'[t] = Outside
                \/ targetLock[t] = None /\ claim[t].owner \in Ops
         /\ claim'[t] # claim[t] =>
                /\ targetLock[t] = None
                /\ \/ claim[t].owner = None /\ claim'[t].owner \in Ops
                   \/ claim[t].owner \in Ops /\ claim'[t].owner = None
<1> USE DEF world, record, process, IInv, TypeOK
<1>1. ASSUME NEW o \in Ops, OpClaim(o) \/ OpRelease(o)
      PROVE  /\ UNCHANGED <<record, pc, call, targetLock, file, author, raced>>
             /\ claim'[t] # claim[t] =>
                    /\ targetLock[t] = None
                    /\ \/ claim[t].owner = None /\ claim'[t].owner \in Ops
                       \/ claim[t].owner \in Ops /\ claim'[t].owner = None
  BY <1>1 DEF OpClaim, OpRelease, NoClaim, BoundaryFree
<1>2. ASSUME NEW o \in Ops, OpExecute(o)
      PROVE  /\ UNCHANGED <<record, pc, call, targetLock, claim, raced>>
             /\ file'[t] # file[t] \/ author'[t] # author[t] =>
                    targetLock[t] = None /\ claim[t].owner \in Ops
  BY <1>2 DEF OpExecute, BoundaryFree
<1>3. ASSUME NEW o \in Ops, OpRecord(o) \/ Abort(o)
      PROVE  UNCHANGED <<record, pc, call, targetLock, world>>
  BY <1>3 DEF OpRecord, Abort
<1>4. ASSUME NEW k \in Tasks, RestorePointBreaks(k)
      PROVE  UNCHANGED <<record, pc, call, targetLock, world>>
  BY <1>4 DEF RestorePointBreaks
<1>5. ASSUME NEW s \in Targets, ForeignEdit(s)
      PROVE  /\ UNCHANGED <<record, pc, call, targetLock, claim>>
             /\ raced \subseteq raced'
             /\ file'[t] # file[t] \/ author'[t] # author[t] =>
                    t \in raced' /\ author'[t] = Outside
  BY <1>5 DEF ForeignEdit
<1>6. CASE UNCHANGED vars
  BY <1>6 DEF vars
<1> QED
  BY <1>1, <1>2, <1>3, <1>4, <1>5, <1>6 DEF Beside

-----------------------------------------------------------------------------
(* What others do to a session.                                            *)

Others(r) == Beside \/ \E q \in Sessions \ {r} : SessionStep(q)

LEMMA OthersTouch ==
  ASSUME IInv, NEW r \in Sessions, Others(r)
  PROVE  /\ status'[r] = status[r] /\ part'[r] = part[r] /\ kept'[r] = kept[r]
         /\ known'[r] = known[r] /\ pc'[r] = pc[r] /\ call'[r] = call[r]
         /\ \A t \in Targets :
                /\ targetLock[t] = r =>
                       /\ targetLock'[t] = r
                       /\ claim'[t].owner \in {claim[t].owner, None}
                /\ claim[t].owner = r <=> claim'[t].owner = r
                /\ targetLock[t] = r \/ claim[t].owner = r =>
                       /\ \/ file'[t] = file[t] /\ author'[t] = author[t]
                          \/ t \in raced' /\ author'[t] = Outside
                       /\ t \in raced => t \in raced'
<1>0. r # None /\ r \notin Ops
  BY RollbackAssumption
<1>1. CASE Beside
  <2>1. UNCHANGED <<record, pc, call, targetLock>>
    BY <1>1, BesideFrame
  <2>2. ASSUME NEW t \in Targets
        PROVE  /\ targetLock[t] = r => claim'[t] = claim[t]
               /\ claim[t].owner = r <=> claim'[t].owner = r
               /\ targetLock[t] = r \/ claim[t].owner = r =>
                      /\ \/ file'[t] = file[t] /\ author'[t] = author[t]
                         \/ t \in raced' /\ author'[t] = Outside
                      /\ t \in raced => t \in raced'
    BY <1>0, <1>1, BesideTouch
  <2> QED
    BY <2>1, <2>2 DEF record
<1>2. ASSUME NEW q \in Sessions, q # r, SessionStep(q)
      PROVE  /\ status'[r] = status[r] /\ part'[r] = part[r] /\ kept'[r] = kept[r]
             /\ known'[r] = known[r] /\ pc'[r] = pc[r] /\ call'[r] = call[r]
             /\ \A t \in Targets :
                    /\ targetLock[t] = r =>
                           /\ targetLock'[t] = r
                           /\ claim'[t].owner \in {claim[t].owner, None}
                    /\ claim[t].owner = r <=> claim'[t].owner = r
                    /\ targetLock[t] = r \/ claim[t].owner = r =>
                           /\ \/ file'[t] = file[t] /\ author'[t] = author[t]
                              \/ t \in raced' /\ author'[t] = Outside
                           /\ t \in raced => t \in raced'
  <2>0. SourceOf[q] # r
    BY <1>0, RollbackAssumption
  <2>1. ASSUME NEW t \in Targets
        PROVE  /\ targetLock[t] = r =>
                      /\ targetLock'[t] = r
                      /\ claim'[t].owner \in {claim[t].owner, None}
               /\ claim[t].owner = r <=> claim'[t].owner = r
               /\ targetLock[t] = r \/ claim[t].owner = r =>
                      /\ \/ file'[t] = file[t] /\ author'[t] = author[t]
                         \/ t \in raced' /\ author'[t] = Outside
                      /\ t \in raced => t \in raced'
    <3>1. targetLock[t] = r => targetLock'[t] = r
      BY <1>2, LockFrame DEF IInv
    <3>2. /\ targetLock[t] = r => claim'[t].owner \in {claim[t].owner, None}
          /\ claim[t].owner = r <=> claim'[t].owner = r
      BY <1>0, <1>2, <2>0, SessionTouch
    <3>3. targetLock[t] = r \/ claim[t].owner = r =>
              file'[t] = file[t] /\ author'[t] = author[t] /\ (t \in raced => t \in raced')
      BY <1>2, SessionTouch
    <3> QED
      BY <3>1, <3>2, <3>3
  <2> QED
    BY <1>2, <2>1, RecordFrame DEF IInv
<1> QED
  BY <1>1, <1>2 DEF Others

LEMMA OthersSound ==
  ASSUME IInv, NEW r \in Sessions, Others(r)
  PROVE  Sound(r)'
<1>1. Sound(r) /\ Items(r) \subseteq Targets
  BY ItemsType DEF IInv
<1>2. Items(r)' = Items(r) /\ Owned(r)' = Owned(r)
      /\ \A p : With(r, p)' = With(r, p)
  BY <1>1, OthersTouch DEF Items, OpTask, Owned, With
<1>3. LocksHeld(r)' /\ Running(r)'
  BY <1>1, <1>2, OthersTouch DEF Sound, LocksHeld, Running
<1>4. Claimable(r)'
  BY <1>1, <1>2, OthersTouch DEF Sound, LocksHeld, Claimable, Phases
<1>5. OwnsAll(r)' /\ Quiet(r)'
  BY <1>1, <1>2, OthersTouch DEF Sound, OwnsAll, Quiet
<1>6. OneInFlight(r)'
  BY <1>1, <1>2, OthersTouch DEF Sound, OneInFlight, LocksHeld, Phases
<1>7. Proven(r)'
  BY <1>1, <1>2, OthersTouch DEF Sound, Proven, LocksHeld, Phases, With
<1>8. Stands(r)'
  BY <1>1, <1>2, OthersTouch DEF Sound, Stands, Owned
<1> QED
  BY <1>3, <1>4, <1>5, <1>6, <1>7, <1>8 DEF Sound

-----------------------------------------------------------------------------
(* What a session's own step does to it.                                   *)

(* Outside of its phases a session has nothing to keep but the truth of an *)
(* old VERIFIED.                                                           *)
LEMMA OutOfPhases ==
  ASSUME IInv, NEW r \in Sessions, pc'[r] \notin Phases,
         (pc'[r] = "lock" /\ call'[r] = "apply") => status'[r] # "VERIFIED",
         Stands(r)'
  PROVE  Sound(r)'
BY DEF Sound, LocksHeld, Claimable, OwnsAll, Quiet, OneInFlight, Proven, Running, Phases

(* A step that changes neither bytes nor claims nor the word VERIFIED.     *)
LEMMA StandsOn ==
  ASSUME IInv, NEW r \in Sessions, UNCHANGED <<file, claim, raced>>,
         status'[r] = "VERIFIED" => status[r] = "VERIFIED"
  PROVE  Stands(r)'
BY DEF IInv, Sound, Stands, Owned, Items, OpTask

LEMMA BeginSound ==
  ASSUME IInv, NEW r \in Sessions,
         \/ Accept(r) \/ Prepare(r) \/ Preserve(r) \/ PreserveFails(r) \/ Preserved(r)
         \/ Apply(r) \/ FinishRelease(r) \/ Close(r)
         \/ TakeLock(r) \/ LockTimeout(r) \/ Crash(r)
  PROVE  Sound(r)'
<1> USE DEF IInv, TypeOK, world, facts, record, process
<1>1. CASE Accept(r)
  <2>1. UNCHANGED <<world, record, process>> /\ Sound(r)
    BY <1>1 DEF Accept
  <2>2. Items(r)' = Items(r) /\ Owned(r)' = Owned(r) /\ \A p : With(r, p)' = With(r, p)
    BY <2>1 DEF Items, OpTask, With, Owned
  <2>3. LocksHeld(r)' /\ Claimable(r)' /\ OwnsAll(r)' /\ Running(r)'
    BY <2>1, <2>2 DEF Sound, LocksHeld, Claimable, OwnsAll, Running
  <2>4. Quiet(r)' /\ OneInFlight(r)' /\ Proven(r)' /\ Stands(r)'
    BY <2>1, <2>2 DEF Sound, Quiet, OneInFlight, Proven, Stands
  <2> QED
    BY <2>3, <2>4 DEF Sound
<1>2. CASE Prepare(r)
  <2>1. status'[r] = "PREPARED" /\ pc'[r] = "preserve"
    BY <1>2 DEF Prepare, SetStatus, Enter
  <2> QED
    BY <1>2, <2>1, OutOfPhases, StandsOn DEF Prepare, Phases
<1>3. CASE Preserve(r)
  BY <1>3, OutOfPhases, StandsOn DEF Preserve, Phases
<1>4. CASE PreserveFails(r) \/ Preserved(r)
  <2>1. status'[r] # "VERIFIED" /\ pc'[r] = "idle"
    BY <1>4 DEF PreserveFails, Preserved, SetStatus, Leave
  <2> QED
    BY <1>4, <2>1, OutOfPhases, StandsOn DEF PreserveFails, Preserved, Phases
<1>5. CASE Apply(r) \/ FinishRelease(r) \/ Close(r)
  BY <1>5, OutOfPhases, StandsOn
     DEF Apply, FinishRelease, Close, Call, Enter, Phases, Done
<1>6. CASE TakeLock(r)
  BY <1>6, OutOfPhases, StandsOn DEF TakeLock, Phases, Sound, Running
<1>7. CASE LockTimeout(r) \/ Crash(r)
  BY <1>7, OutOfPhases, StandsOn DEF LockTimeout, Crash, Leave, Phases
<1> QED
  BY <1>1, <1>2, <1>3, <1>4, <1>5, <1>6, <1>7

LEMMA AdmissionSound ==
  ASSUME IInv, NEW r \in Sessions,
         \/ Locked(r) \/ Settle(r) \/ StopAtDrift(r) \/ Blocked(r) \/ Admitted(r)
         \/ AcquireOne(r) \/ Authorize(r)
  PROVE  Sound(r)'
<1> USE DEF IInv, TypeOK, world, facts, record, process
<1>0. Sound(r) /\ Items(r) \subseteq Targets /\ Items(r)' = Items(r)
  BY ItemsType DEF Items, OpTask
<1>1. CASE Locked(r)
  <2>1. CASE call[r] = "apply"
    <3>1. pc'[r] = "settle" /\ UNCHANGED <<world, record, call, targetLock>>
      BY <1>1, <2>1 DEF Locked, Goto, AfterLocks
    <3>2. LocksHeld(r)'
      BY <1>0, <1>1, <2>1, <3>1 DEF Locked, ToLock, LocksHeld
    <3>3. status[r] # "VERIFIED"
      BY <1>0, <1>1, <2>1 DEF Locked, Sound, Running
    <3>4. Running(r)' /\ Stands(r)'
      BY <3>1, <3>3, StandsOn DEF Running
    <3> QED
      BY <3>1, <3>2, <3>4
         DEF Sound, Claimable, OwnsAll, Quiet, OneInFlight, Proven
  <2>2. CASE call[r] # "apply"
    BY <1>1, <2>2, OutOfPhases, StandsOn DEF Locked, Goto, AfterLocks, Phases
  <2> QED
    BY <2>1, <2>2
<1>2. CASE Settle(r)
  <2>1. pc[r] = "settle" /\ UNCHANGED <<world, status, process>>
    BY <1>2 DEF Settle
  <2>2. Stands(r)'
    BY <2>1, StandsOn
  <2> QED
    BY <1>0, <2>1, <2>2
       DEF Sound, LocksHeld, Claimable, OwnsAll, Quiet, OneInFlight, Proven, Running, Phases
<1>3. CASE StopAtDrift(r)
  <2>1. pc[r] = "settle" /\ pc'[r] = "prove" /\ UNCHANGED <<world, status, targetLock, call>>
    BY <1>3 DEF StopAtDrift, AtAdmission, Goto
  <2>2. Stands(r)'
    BY <2>1, StandsOn
  <2> QED
    BY <1>0, <2>1, <2>2
       DEF Sound, LocksHeld, Claimable, OwnsAll, Quiet, OneInFlight, Proven, Running, Phases
<1>4. CASE Blocked(r)
  BY <1>4, OutOfPhases, StandsOn DEF Blocked, Leave, Phases
<1>5. CASE Admitted(r)
  <2>1. /\ pc[r] = "settle" /\ With(r, "APPLYING") = {} /\ Ownable(r)
        /\ pc'[r] = (IF status[r] = "PRESERVED" THEN "acquire" ELSE "restore")
        /\ UNCHANGED <<world, record, targetLock, call>>
    BY <1>5 DEF Admitted, AtAdmission, Goto
  <2>2. Stands(r)'
    BY <2>1, StandsOn
  <2>3. Claimable(r)' /\ OwnsAll(r)'
    BY <1>0, <2>1 DEF Ownable, Held, Claimable, OwnsAll
  <2>4. Quiet(r)'
    BY <1>0, <2>1 DEF Quiet, With
  <2>5. LocksHeld(r)' /\ Running(r)'
    BY <1>0, <2>1 DEF Sound, LocksHeld, Running, Phases
  <2> QED
    BY <2>1, <2>2, <2>3, <2>4, <2>5 DEF Sound, OneInFlight, Proven
<1>6. CASE AcquireOne(r)
  <2>1. /\ pc[r] = "acquire" /\ UNCHANGED <<file, raced, record, process>>
        /\ \A t \in Targets : claim'[t] = claim[t] \/ claim'[t].owner = r
    BY <1>6, MinIn, ItemsType DEF AcquireOne
  <2>2. LocksHeld(r)' /\ Running(r)' /\ Stands(r)'
    BY <1>0, <2>1 DEF Sound, LocksHeld, Running, Stands, Phases
  <2>3. Claimable(r)' /\ Quiet(r)'
    BY <1>0, <2>1 DEF Sound, Claimable, Quiet, With
  <2> QED
    BY <2>1, <2>2, <2>3 DEF Sound, OwnsAll, OneInFlight, Proven
<1>7. CASE Authorize(r)
  <2>1. /\ pc[r] = "acquire" /\ Items(r) = Owned(r)
        /\ pc'[r] = "restore" /\ status'[r] = "AUTHORIZED"
        /\ UNCHANGED <<world, part, targetLock, call>>
    BY <1>7 DEF Authorize, Goto, SetStatus
  <2>2. LocksHeld(r)' /\ Running(r)' /\ Stands(r)'
    BY <1>0, <2>1 DEF Sound, LocksHeld, Running, Stands, Phases
  <2>3. OwnsAll(r)' /\ Quiet(r)'
    BY <1>0, <2>1 DEF Sound, OwnsAll, Quiet, With, Owned
  <2> QED
    BY <2>1, <2>2, <2>3 DEF Sound, Claimable, OneInFlight, Proven
<1> QED
  BY <1>1, <1>2, <1>3, <1>4, <1>5, <1>6, <1>7

LEMMA RestoreSound ==
  ASSUME IInv, NEW r \in Sessions,
         \/ KeepNoop(r) \/ MarkApplying(r) \/ StopAtTarget(r)
         \/ Write(r) \/ WriteFails(r) \/ Confirm(r)
  PROVE  Sound(r)'
<1> USE DEF IInv, TypeOK, world, facts, record, process
<1>0. Sound(r) /\ Items(r) \subseteq Targets /\ Items(r)' = Items(r) /\ Owned(r) \subseteq Items(r)
  BY ItemsType DEF Items, OpTask, Owned
<1>1. CASE KeepNoop(r)
  <2>1. PICK t \in Items(r) : pc[r] = "restore" /\ SetPart(r, t, "NOOP")
    BY <1>1 DEF KeepNoop, AtTarget
  <2>2. UNCHANGED <<world, status, process>>
    BY <1>1 DEF KeepNoop
  <2>3. LocksHeld(r)' /\ Running(r)' /\ OwnsAll(r)' /\ Stands(r)'
    BY <1>0, <2>1, <2>2 DEF Sound, LocksHeld, Running, OwnsAll, Stands, Phases
  <2>4. Quiet(r)'
    BY <1>0, <2>1, <2>2 DEF Sound, Quiet, With, SetPart
  <2> QED
    BY <2>1, <2>2, <2>3, <2>4 DEF Sound, Claimable, OneInFlight, Proven
<1>2. CASE MarkApplying(r)
  <2>1. PICK t \in Items(r) :
           /\ pc[r] = "restore" /\ pc'[r] = "write" /\ file[t] = kept[r][t]
           /\ SetPart(r, t, "APPLYING") /\ status'[r] = "APPLYING"
    BY <1>2 DEF MarkApplying, AtTarget, Unchanged, Goto, SetStatus
  <2>2. UNCHANGED <<file, claim, kept, targetLock, call>>
    BY <1>2 DEF MarkApplying, Goto
  <2>3. LocksHeld(r)' /\ Running(r)' /\ OwnsAll(r)' /\ Stands(r)'
    BY <1>0, <2>1, <2>2 DEF Sound, LocksHeld, Running, OwnsAll, Stands, Phases
  <2>4. With(r, "APPLYING") = {}
    BY <1>0, <2>1 DEF Sound, Quiet
  <2>5. With(r, "APPLYING")' = {t}
    BY <1>0, <2>1, <2>4 DEF With, SetPart
  <2>6. OneInFlight(r)'
    BY <1>0, <2>1, <2>2, <2>5 DEF OneInFlight
  <2> QED
    BY <2>1, <2>3, <2>6 DEF Sound, Claimable, Quiet, Proven
<1>3. CASE StopAtTarget(r)
  <2>1. /\ pc[r] = "restore" /\ pc'[r] = "prove"
        /\ UNCHANGED <<world, status, targetLock, call>>
    BY <1>3 DEF StopAtTarget, AtTarget, Goto
  <2>2. LocksHeld(r)' /\ Running(r)' /\ Stands(r)'
    BY <1>0, <2>1, StandsOn DEF Sound, LocksHeld, Running, Phases
  <2> QED
    BY <2>1, <2>2 DEF Sound, Claimable, OwnsAll, Quiet, OneInFlight, Proven
<1>4. CASE Write(r)
  <2>1. /\ pc[r] = "write" /\ pc'[r] = "confirm"
        /\ UNCHANGED <<claim, raced, record, targetLock, call>>
    BY <1>4 DEF Write, Goto
  <2>2. LocksHeld(r)' /\ Running(r)' /\ OwnsAll(r)'
    BY <1>0, <2>1 DEF Sound, LocksHeld, Running, OwnsAll, Phases
  <2>3. OneInFlight(r)'
    BY <1>0, <2>1 DEF Sound, OneInFlight, With
  <2>4. status'[r] # "VERIFIED"
    BY <1>0, <2>1 DEF Sound, Running, Phases
  <2> QED
    BY <2>1, <2>2, <2>3, <2>4 DEF Sound, Claimable, Quiet, Proven, Stands
<1>5. CASE WriteFails(r)
  <2>1. /\ pc[r] = "write" /\ pc'[r] = "prove"
        /\ UNCHANGED <<world, status, targetLock, call>>
    BY <1>5 DEF WriteFails, Goto
  <2>2. LocksHeld(r)' /\ Running(r)' /\ Stands(r)'
    BY <1>0, <2>1, StandsOn DEF Sound, LocksHeld, Running, Phases
  <2> QED
    BY <2>1, <2>2 DEF Sound, Claimable, OwnsAll, Quiet, OneInFlight, Proven
<1>6. CASE Confirm(r)
  <2>1. PICK t \in Items(r) : With(r, "APPLYING") = {t}
    BY <1>0, <1>6 DEF Confirm, Sound, OneInFlight
  <2>2. InFlight(r) = t
    BY <2>1, InFlightIs
  <2>3. /\ pc[r] = "confirm"
        /\ \/ SetPart(r, t, "RESTORED") /\ pc'[r] = "restore"
           \/ SetPart(r, t, "FAILED") /\ pc'[r] = "prove"
        /\ UNCHANGED <<world, status, targetLock, call>>
    BY <1>6, <2>2 DEF Confirm, Goto
  <2>4. LocksHeld(r)' /\ Running(r)' /\ Stands(r)' /\ OwnsAll(r)'
    BY <1>0, <2>3, StandsOn DEF Sound, LocksHeld, Running, OwnsAll, Phases
  <2>5. \A s \in Items(r) : part'[r][s] # "APPLYING"
    BY <1>0, <2>1, <2>3, SetPartValue DEF With
  <2>6. Quiet(r)'
    BY <1>0, <2>5 DEF Quiet, With
  <2> QED
    BY <2>3, <2>4, <2>6 DEF Sound, Claimable, OneInFlight, Proven
<1> QED
  BY <1>1, <1>2, <1>3, <1>4, <1>5, <1>6

LEMMA ConcludeSound ==
  ASSUME IInv, NEW r \in Sessions,
         Prove(r) \/ Conclude(r) \/ ReleaseOne(r) \/ Released(r)
  PROVE  Sound(r)'
<1> USE DEF IInv, TypeOK, world, facts, record, process
<1>0. Sound(r) /\ Items(r) \subseteq Targets /\ Items(r)' = Items(r)
  BY ItemsType DEF Items, OpTask
<1>1. CASE Prove(r)
  <2>1. /\ pc[r] \in {"prove", "restore"} /\ pc'[r] = "conclude"
        /\ UNCHANGED <<file, claim, status, kept, targetLock, call>>
    BY <1>1 DEF Prove, Goto
  <2>2. LocksHeld(r)' /\ Running(r)'
    BY <1>0, <2>1 DEF Sound, LocksHeld, Running, Phases
  <2>3. Stands(r)'
    BY <1>0, <2>1 DEF Sound, Running, Stands, Phases
  <2>4. ASSUME NEW t \in Items(r), part'[r][t] \in {"RESTORED", "NOOP"}
        PROVE  file[t] = InitialBytes[t]
    <3>1. t \notin Drifted(r) /\ part[r][t] = part'[r][t]
      BY <1>0, <1>1, <2>4 DEF Prove, Mark
    <3> QED
      BY <2>4, <3>1 DEF Drifted, With
  <2>5. Proven(r)'
    BY <1>0, <2>1, <2>4 DEF Proven, With
  <2> QED
    BY <2>1, <2>2, <2>3, <2>5 DEF Sound, Claimable, OwnsAll, Quiet, OneInFlight
<1>2. CASE Conclude(r)
  <2>1. pc[r] = "conclude" /\ UNCHANGED world /\ pc'[r] \in {"release", "idle"}
    BY <1>2 DEF Conclude, Goto, Leave
  <2>2. Owned(r)' = Owned(r)
    BY <1>0, <2>1 DEF Owned
  <2>3. CASE Todo(r) = {}
    <3>1. \A t \in Owned(r) : file[t] = InitialBytes[t] \/ t \in raced
      BY <1>0, <2>1, <2>3 DEF Sound, Proven, Todo, Owned
    <3>2. Stands(r)'
      BY <2>1, <2>2, <3>1 DEF Stands
    <3> QED
      BY <2>1, <3>2, OutOfPhases DEF Phases
  <2>4. CASE Todo(r) # {}
    <3>1. status'[r] # "VERIFIED"
      BY <1>2, <2>4 DEF Conclude, SetStatus
    <3> QED
      BY <2>1, <3>1, OutOfPhases DEF Phases, Stands
  <2> QED
    BY <2>3, <2>4
<1>3. CASE ReleaseOne(r)
  <2>1. /\ pc[r] = "release" /\ UNCHANGED <<file, raced, record, process>>
        /\ \A t \in Targets : claim'[t] = claim[t] \/ claim'[t] = NoClaim
    <3>1. claim' = [claim EXCEPT ![Min(Releasable(r))] = NoClaim]
      BY <1>3 DEF ReleaseOne
    <3> QED
      BY <1>3, <3>1 DEF ReleaseOne
  <2>2. NoClaim.owner # r
    BY RollbackAssumption DEF NoClaim
  <2>3. \A t \in Items(r) : claim'[t].owner = r => claim[t].owner = r
    BY <1>0, <2>1, <2>2
  <2>4. Owned(r)' \subseteq Owned(r)
    BY <1>0, <2>3 DEF Owned
  <2>5. Stands(r)'
    BY <1>0, <2>1, <2>4 DEF Sound, Stands
  <2> QED
    BY <2>1, <2>5, OutOfPhases DEF Phases
<1>4. CASE Released(r)
  <2>1. /\ pc'[r] = "idle" /\ UNCHANGED world
        /\ status'[r] = "VERIFIED" => status[r] = "VERIFIED"
    BY <1>4 DEF Released, Leave, SetStatus
  <2> QED
    BY <2>1, OutOfPhases, StandsOn DEF Phases
<1> QED
  BY <1>1, <1>2, <1>3, <1>4

LEMMA OwnSound == ASSUME IInv, NEW r \in Sessions, SessionStep(r) PROVE Sound(r)'
  BY BeginSound, AdmissionSound, RestoreSound, ConcludeSound DEF SessionStep, Step

LEMMA InvInit == Init => IInv
  BY TypeInit DEF Init, IInv, Sound, LocksHeld, Claimable, OwnsAll, Quiet, OneInFlight,
     Proven, Running, Stands, Phases

LEMMA InvStep == ASSUME IInv, [Next]_vars PROVE IInv'
<1>1. TypeOK'
  BY TypeStep DEF IInv
<1>2. ASSUME NEW r \in Sessions
      PROVE  Sound(r)'
  <2>1. Others(r) \/ SessionStep(r)
    BY StepCases DEF Others
  <2> QED
    BY <2>1, OthersSound, OwnSound
<1> QED
  BY <1>1, <1>2 DEF IInv

LEMMA InvCorrect == Spec => []IInv
  BY InvInit, InvStep, PTL DEF Spec

-----------------------------------------------------------------------------
(* A session writes only while it owns every target of its restore point,  *)
(* whatever died, and wherever, in this call or an earlier one.            *)
THEOREM OwnershipIsAllOrNothing == Spec => []AllOrNothing
<1>1. IInv => AllOrNothing
  BY DEF IInv, Sound, OwnsAll, AllOrNothing, Owned
<1> QED
  BY <1>1, InvCorrect, PTL

(* The bytes of a verified session stand as long as it owns them, unless   *)
(* an editor outside of the control plane changes them.                    *)
THEOREM VerifiedIsTrue == Spec => []VerifiedStands
<1>1. IInv => VerifiedStands
  BY DEF IInv, Sound, Stands, VerifiedStands
<1> QED
  BY <1>1, InvCorrect, PTL

(* No step takes a target from the session that owns it, and a session     *)
(* takes one over only from the operation it rolls back.                   *)
THEOREM OwnershipIsKept == Spec => OwnershipEndsByOwner
<1>1. ASSUME IInv, [Next]_vars, NEW t \in Targets, claim'[t].owner # claim[t].owner
      PROVE  /\ claim[t].owner \in Sessions =>
                    pc[claim[t].owner] = "release" /\ claim'[t].owner = None
             /\ claim[t].owner \in Ops /\ claim'[t].owner \in Sessions =>
                    claim[t].owner = SourceOf[claim'[t].owner]
  <2>0. None \notin Sessions /\ None \notin Ops /\ Ops \cap Sessions = {}
        /\ \A q \in Sessions : SourceOf[q] \in Ops
    BY RollbackAssumption
  <2>1. CASE Beside
    BY <1>1, <2>0, <2>1, BesideTouch
  <2>2. ASSUME NEW q \in Sessions, SessionStep(q)
        PROVE  /\ claim[t].owner \in Sessions =>
                      pc[claim[t].owner] = "release" /\ claim'[t].owner = None
               /\ claim[t].owner \in Ops /\ claim'[t].owner \in Sessions =>
                      claim[t].owner = SourceOf[claim'[t].owner]
    BY <1>1, <2>0, <2>2, SessionTouch
  <2> QED
    BY <1>1, <2>1, <2>2, StepCases
<1>2. IInv /\ [Next]_vars =>
        [\A t \in Targets :
          LET before == claim[t].owner
              after  == claim'[t].owner
          IN  before # after =>
                  /\ before \in Sessions => pc[before] = "release" /\ after = None
                  /\ before \in Ops /\ after \in Sessions => before = SourceOf[after]]_vars
  BY <1>1
<1> QED
  BY <1>2, InvCorrect, PTL DEF Spec, OwnershipEndsByOwner

(* Only a session's restoring write puts its name on changed bytes, and    *)
(* what it replaces is what it preserved of the target in flight, unless   *)
(* an editor came between the comparison and the write.                    *)
THEOREM NothingLost == Spec => NothingUnpreservedLost
<1>1. ASSUME IInv, [Next]_vars, NEW r \in Sessions, NEW t \in Targets,
             file'[t] # file[t], author'[t] = r
      PROVE  part[r][t] = "APPLYING" /\ (file[t] = kept[r][t] \/ t \in raced)
  <2>0. r # Outside /\ r \notin Ops
    BY RollbackAssumption
  <2>1. ASSUME NEW o \in Ops, OpExecute(o)
        PROVE  FALSE
    <3>1. t = TargetOf[o] /\ author'[t] = o
      BY <1>1, <2>1 DEF OpExecute, IInv, TypeOK
    <3> QED
      BY <1>1, <2>0, <3>1
  <2>2. ASSUME NEW s \in Targets, ForeignEdit(s)
        PROVE  FALSE
    BY <1>1, <2>0, <2>2 DEF ForeignEdit, IInv, TypeOK
  <2>3. ~Beside
    BY <1>1, <2>1, <2>2
       DEF Beside, OpClaim, OpRelease, OpRecord, Abort, RestorePointBreaks, world, vars
  <2>4. PICK q \in Sessions : SessionStep(q)
    BY <1>1, <2>3, StepCases
  <2>5. Write(q)
    BY <1>1, <2>4, WorldFrame DEF world, AcquireOne, MarkApplying, Prove, ReleaseOne
  <2>6. PICK s \in Items(q) :
           With(q, "APPLYING") = {s} /\ (file[s] = kept[q][s] \/ s \in raced)
    BY <1>1, <2>5 DEF Write, IInv, Sound, OneInFlight
  <2>7. InFlight(q) = s
    BY <2>6, InFlightIs
  <2>8. t = s /\ author'[t] = q
    BY <1>1, <2>5, <2>7 DEF Write, IInv, TypeOK
  <2> QED
    BY <1>1, <2>6, <2>8 DEF With
<1>2. IInv /\ [Next]_vars =>
        [\A r \in Sessions : \A t \in Targets :
          file'[t] # file[t] /\ author'[t] = r =>
              /\ part[r][t] = "APPLYING"
              /\ file[t] = kept[r][t] \/ t \in raced]_vars
  BY <1>1
<1> QED
  BY <1>2, InvCorrect, PTL DEF Spec, NothingUnpreservedLost
====
