---- MODULE RollbackRefinement ----
(***************************************************************************)
(* The stored, locked, interruptible rollback implements RestorePromise.   *)
(***************************************************************************)
EXTENDS RollbackProofs

(* What the promise needs beside IInv: claims name their sessions, and the *)
(* place of a call bounds the status of its record.                        *)
ClaimsWithin(r) == \A t \in Targets : claim[t].owner = r => t \in Items(r)

Named(r) ==
    /\ status[r] \in {"NONE", "PREPARED", "PRESERVED"} => ~known[r]
    /\ status[r] \in {"AUTHORIZED", "APPLYING"} => known[r]

Placed(r) ==
    /\ pc[r] \in Phases \/ (pc[r] = "lock" /\ call[r] = "apply") =>
           status[r] \in {"PRESERVED", "AUTHORIZED", "APPLYING"}
    /\ pc[r] \in Phases => call[r] = "apply"
    /\ pc[r] = "preserve" => status[r] = "PREPARED"
    /\ pc[r] = "acquire" => status[r] = "PRESERVED"
    /\ pc[r] \in {"restore", "write", "confirm"} => status[r] \in {"AUTHORIZED", "APPLYING"}
    /\ pc[r] \in {"lock", "release"} /\ call[r] = "close" =>
           status[r] \notin {"NONE", "VERIFIED"}

Stopped(r) == pc[r] = "prove" => \E t \in Items(r) : part[r][t] \in {"DRIFTED", "FAILED"}

Proved(r) ==
    pc[r] = "conclude" /\ Todo(r) = {} =>
        /\ status[r] \in {"AUTHORIZED", "APPLYING"}
        /\ \A t \in Items(r) :
              /\ claim[t].owner = r
              /\ file[t] = InitialBytes[t] \/ author[t] = Outside

Ready(r) == ClaimsWithin(r) /\ Named(r) /\ Placed(r) /\ Stopped(r) /\ Proved(r)

RInv == IInv /\ \A r \in Sessions : Ready(r)

-----------------------------------------------------------------------------
LEMMA ReadyInit == Init => \A r \in Sessions : Ready(r)
  BY RollbackAssumption
     DEF Init, Ready, ClaimsWithin, Named, Placed, Stopped, Proved, Phases, NoClaim

LEMMA OthersReady ==
  ASSUME RInv, NEW r \in Sessions, Others(r)
  PROVE  Ready(r)'
<1> USE DEF RInv
<1>1. Ready(r) /\ Items(r) \subseteq Targets /\ LocksHeld(r)
  BY ItemsType DEF IInv, Sound
<1>2. Items(r)' = Items(r) /\ Todo(r)' = Todo(r)
  BY <1>1, OthersTouch DEF Items, OpTask, Todo, With
<1>3. ClaimsWithin(r)' /\ Named(r)' /\ Placed(r)' /\ Stopped(r)'
  BY <1>1, <1>2, OthersTouch DEF Ready, ClaimsWithin, Named, Placed, Stopped
<1>4. Proved(r)'
  BY <1>1, <1>2, OthersTouch DEF Ready, Proved, LocksHeld, Phases
<1> QED
  BY <1>3, <1>4 DEF Ready

(* A step that takes no target only has to keep status and place together. *)
LEMMA ReadyOn ==
  ASSUME RInv, NEW r \in Sessions,
         \A t \in Targets : claim'[t].owner = r => claim[t].owner = r,
         Named(r)', Placed(r)', pc'[r] \notin {"prove", "conclude"}
  PROVE  Ready(r)'
BY DEF RInv, Ready, ClaimsWithin, Stopped, Proved, Items, OpTask

LEMMA BeginReady ==
  ASSUME RInv, NEW r \in Sessions,
         \/ Prepare(r) \/ Preserve(r) \/ PreserveFails(r) \/ Preserved(r)
         \/ Apply(r) \/ FinishRelease(r) \/ Close(r)
         \/ TakeLock(r) \/ LockTimeout(r) \/ Crash(r) \/ Locked(r)
  PROVE  Ready(r)'
<1> USE DEF RInv, IInv, TypeOK, world, facts, record, process
<1>0. Ready(r)
  OBVIOUS
<1>1. CASE Prepare(r)
  <2>1. status[r] \in {"NONE", "PREPARED"} /\ status'[r] = "PREPARED" /\ pc'[r] = "preserve"
        /\ UNCHANGED <<claim, known>>
    BY <1>1 DEF Prepare, SetStatus, Enter
  <2> QED
    BY <1>0, <2>1, ReadyOn DEF Ready, Named, Placed, Phases
<1>2. CASE Preserve(r)
  <2>1. pc[r] = "preserve" /\ UNCHANGED <<claim, known, status, process>>
    BY <1>2 DEF Preserve
  <2> QED
    BY <1>0, <2>1, ReadyOn DEF Ready, Named, Placed, Phases
<1>3. CASE PreserveFails(r) \/ Preserved(r)
  <2>1. pc[r] = "preserve" /\ status'[r] \in {"PRESERVATION_FAILED", "PRESERVED"}
        /\ pc'[r] = "idle" /\ UNCHANGED <<claim, known>>
    BY <1>3 DEF PreserveFails, Preserved, SetStatus, Leave
  <2> QED
    BY <1>0, <2>1, ReadyOn DEF Ready, Named, Placed, Phases
<1>4. CASE Apply(r) \/ FinishRelease(r) \/ Close(r)
  <2>1. /\ pc'[r] = "lock" /\ UNCHANGED <<claim, known, status>>
        /\ call'[r] = "apply" => status[r] \notin {"NONE", "PREPARED"} /\ ~Done(status[r])
        /\ call'[r] = "close" => status[r] \notin {"NONE", "VERIFIED"}
    BY <1>4 DEF Apply, FinishRelease, Close, Call, Enter
  <2>2. Placed(r)'
    BY <2>1 DEF Placed, Phases, Done, SessionStatus
  <2> QED
    BY <1>0, <2>1, <2>2, ReadyOn DEF Ready, Named
<1>5. CASE TakeLock(r)
  <2>1. pc[r] = "lock" /\ UNCHANGED <<claim, known, status, pc, call>>
    BY <1>5 DEF TakeLock
  <2> QED
    BY <1>0, <2>1, ReadyOn DEF Ready, Named, Placed
<1>6. CASE LockTimeout(r) \/ Crash(r)
  <2>1. pc'[r] = "idle" /\ UNCHANGED <<claim, known, status>>
    BY <1>6 DEF LockTimeout, Crash, Leave
  <2> QED
    BY <1>0, <2>1, ReadyOn DEF Ready, Named, Placed, Phases
<1>7. CASE Locked(r)
  <2>1. /\ pc[r] = "lock" /\ UNCHANGED <<claim, known, status, call>>
        /\ pc'[r] = (IF call[r] = "apply" THEN "settle" ELSE "release")
    BY <1>7 DEF Locked, Goto, AfterLocks
  <2> QED
    BY <1>0, <2>1, ReadyOn DEF Ready, Named, Placed, Phases
<1> QED
  BY <1>1, <1>2, <1>3, <1>4, <1>5, <1>6, <1>7

LEMMA AdmissionReady ==
  ASSUME RInv, NEW r \in Sessions,
         \/ Settle(r) \/ StopAtDrift(r) \/ Blocked(r) \/ Admitted(r)
         \/ AcquireOne(r) \/ Authorize(r)
  PROVE  Ready(r)'
<1> USE DEF RInv, IInv, TypeOK, world, facts, record, process
<1>0. Ready(r) /\ Items(r) \subseteq Targets /\ Items(r)' = Items(r)
  BY ItemsType DEF Items, OpTask
<1>1. CASE Settle(r)
  <2>1. pc[r] = "settle" /\ UNCHANGED <<claim, known, status, process>>
    BY <1>1 DEF Settle
  <2> QED
    BY <1>0, <2>1, ReadyOn DEF Ready, Named, Placed
<1>2. CASE StopAtDrift(r)
  <2>1. /\ pc[r] = "settle" /\ pc'[r] = "prove" /\ EndsHere(r)
        /\ part' = Mark(r, NewDrift(r)) /\ UNCHANGED <<claim, known, status, call>>
    BY <1>2 DEF StopAtDrift, AtAdmission, Goto
  <2>2. PICK t \in Items(r) : t \in NewDrift(r) \/ part[r][t] \in {"DRIFTED", "FAILED"}
    BY <2>1 DEF EndsHere, With, NewDrift, Drifted
  <2>3. part'[r][t] \in {"DRIFTED", "FAILED"}
    BY <1>0, <2>1, <2>2 DEF Mark
  <2>4. Stopped(r)' /\ ClaimsWithin(r)'
    BY <1>0, <2>1, <2>3 DEF Stopped, Ready, ClaimsWithin
  <2>5. Named(r)' /\ Placed(r)'
    BY <1>0, <2>1 DEF Ready, Named, Placed, Phases
  <2> QED
    BY <2>1, <2>4, <2>5 DEF Ready, Proved
<1>3. CASE Blocked(r)
  <2>1. pc'[r] = "idle" /\ UNCHANGED <<claim, known, status>>
    BY <1>3 DEF Blocked, Leave
  <2> QED
    BY <1>0, <2>1, ReadyOn DEF Ready, Named, Placed, Phases
<1>4. CASE Admitted(r)
  <2>1. /\ pc[r] = "settle" /\ UNCHANGED <<claim, known, status, call>>
        /\ pc'[r] = (IF status[r] = "PRESERVED" THEN "acquire" ELSE "restore")
    BY <1>4 DEF Admitted, AtAdmission, Goto
  <2> QED
    BY <1>0, <2>1, ReadyOn DEF Ready, Named, Placed, Phases
<1>5. CASE AcquireOne(r)
  <2>1. pc[r] = "acquire" /\ UNCHANGED <<file, record, process>>
    BY <1>5 DEF AcquireOne
  <2>2. ClaimsWithin(r)'
    <3>1. PICK s \in Items(r) :
             claim' = [claim EXCEPT ![s] = [owner |-> r, basis |-> kept[r][s]]]
      BY <1>5, AcquireOneIs
    <3>2. \A t \in Targets : t # s => claim'[t] = claim[t]
      BY <3>1 DEF IInv, TypeOK
    <3> QED
      BY <1>0, <3>2 DEF Ready, ClaimsWithin
  <2> QED
    BY <1>0, <2>1, <2>2 DEF Ready, Named, Placed, Stopped, Proved
<1>6. CASE Authorize(r)
  <2>1. /\ pc[r] = "acquire" /\ pc'[r] = "restore" /\ status'[r] = "AUTHORIZED"
        /\ known'[r] = TRUE /\ UNCHANGED <<claim, call>>
    BY <1>6 DEF Authorize, Goto, SetStatus
  <2> QED
    BY <1>0, <2>1, ReadyOn DEF Ready, Named, Placed, Phases
<1> QED
  BY <1>1, <1>2, <1>3, <1>4, <1>5, <1>6

LEMMA RestoreReady ==
  ASSUME RInv, NEW r \in Sessions,
         \/ KeepNoop(r) \/ MarkApplying(r) \/ StopAtTarget(r)
         \/ Write(r) \/ WriteFails(r) \/ Confirm(r)
  PROVE  Ready(r)'
<1> USE DEF RInv, IInv, TypeOK, world, facts, record, process
<1>0. Ready(r) /\ Items(r) \subseteq Targets /\ Items(r)' = Items(r)
  BY ItemsType DEF Items, OpTask
<1>1. CASE KeepNoop(r)
  <2>1. pc[r] = "restore" /\ UNCHANGED <<claim, known, status, process>>
    BY <1>1 DEF KeepNoop, AtTarget
  <2> QED
    BY <1>0, <2>1, ReadyOn DEF Ready, Named, Placed
<1>2. CASE MarkApplying(r)
  <2>1. /\ pc[r] = "restore" /\ pc'[r] = "write" /\ status'[r] = "APPLYING"
        /\ UNCHANGED <<claim, known, call>>
    BY <1>2 DEF MarkApplying, AtTarget, Goto, SetStatus
  <2> QED
    BY <1>0, <2>1, ReadyOn DEF Ready, Named, Placed, Phases
<1>3. CASE StopAtTarget(r)
  <2>1. PICK t \in Items(r) : pc[r] = "restore" /\ SetPart(r, t, "DRIFTED")
    BY <1>3 DEF StopAtTarget, AtTarget
  <2>2. pc'[r] = "prove" /\ UNCHANGED <<claim, known, status, call>>
    BY <1>3 DEF StopAtTarget, Goto
  <2>3. part'[r][t] = "DRIFTED"
    BY <1>0, <2>1, SetPartValue
  <2>4. ClaimsWithin(r)' /\ Named(r)' /\ Placed(r)' /\ Stopped(r)'
    BY <1>0, <2>1, <2>2, <2>3 DEF Ready, ClaimsWithin, Named, Placed, Stopped, Phases
  <2> QED
    BY <2>2, <2>4 DEF Ready, Proved
<1>4. CASE Write(r)
  <2>1. pc[r] = "write" /\ pc'[r] = "confirm" /\ UNCHANGED <<claim, known, status, call>>
    BY <1>4 DEF Write, Goto
  <2> QED
    BY <1>0, <2>1, ReadyOn DEF Ready, Named, Placed, Phases
<1>5. CASE WriteFails(r) \/ Confirm(r)
  <2>1. pc[r] \in {"write", "confirm"}
    BY <1>5 DEF WriteFails, Confirm
  <2>2. PICK t \in Items(r) : With(r, "APPLYING") = {t}
    BY <2>1 DEF Sound, OneInFlight
  <2>3. InFlight(r) = t
    BY <2>2, InFlightIs
  <2>4. /\ \/ pc'[r] = "restore"
           \/ pc'[r] = "prove" /\ SetPart(r, t, "FAILED")
        /\ UNCHANGED <<claim, known, status, call>>
    BY <1>5, <2>3 DEF WriteFails, Confirm, Goto
  <2>5. pc'[r] = "prove" => part'[r][t] = "FAILED"
    BY <1>0, <2>4, SetPartValue
  <2>6. ClaimsWithin(r)' /\ Named(r)' /\ Placed(r)' /\ Stopped(r)'
    BY <1>0, <2>1, <2>4, <2>5 DEF Ready, ClaimsWithin, Named, Placed, Stopped, Phases
  <2> QED
    BY <2>4, <2>6 DEF Ready, Proved
<1> QED
  BY <1>1, <1>2, <1>3, <1>4, <1>5

LEMMA ConcludeReady ==
  ASSUME RInv, NEW r \in Sessions,
         Prove(r) \/ Conclude(r) \/ ReleaseOne(r) \/ Released(r) \/ Accept(r)
  PROVE  Ready(r)'
<1> USE DEF RInv, IInv, TypeOK, world, facts, record, process
<1>0. Ready(r) /\ Items(r) \subseteq Targets /\ Items(r)' = Items(r)
  BY ItemsType DEF Items, OpTask
<1>1. CASE Prove(r)
  <2>1. /\ pc[r] = "prove" \/ (pc[r] = "restore" /\ Todo(r) = {})
        /\ pc'[r] = "conclude" /\ part' = Mark(r, Drifted(r))
        /\ UNCHANGED <<file, author, claim, known, status, kept, call>>
    BY <1>1 DEF Prove, Goto
  <2>2. ClaimsWithin(r)' /\ Named(r)' /\ Placed(r)'
    BY <1>0, <2>1 DEF Ready, ClaimsWithin, Named, Placed, Phases
  <2>3. \A t \in Items(r) : part[r][t] \in {"DRIFTED", "FAILED"} =>
            part'[r][t] \in {"DRIFTED", "FAILED"}
    BY <1>0, <2>1 DEF Mark
  <2>4. pc[r] = "prove" => Todo(r)' # {}
    BY <1>0, <2>3 DEF Ready, Stopped, Todo, With
  <2>5. ASSUME Todo(r)' = {}, NEW t \in Items(r)
        PROVE  claim[t].owner = r /\ file[t] = InitialBytes[t]
    <3>1. part'[r][t] \in {"RESTORED", "NOOP"}
      BY <1>0, <2>5 DEF Todo, With
    <3>2. t \notin Drifted(r) /\ part[r][t] = part'[r][t]
      BY <1>0, <2>1, <3>1 DEF Mark
    <3> QED
      BY <3>1, <3>2 DEF Drifted, With, Held
  <2>6. Proved(r)'
    BY <1>0, <2>1, <2>4, <2>5 DEF Ready, Placed, Proved
  <2> QED
    BY <2>1, <2>2, <2>6 DEF Ready, Stopped
<1>2. CASE Conclude(r)
  <2>1. /\ pc[r] = "conclude" /\ UNCHANGED <<claim, known, call>>
        /\ \/ pc'[r] = "release" /\ status'[r] = "VERIFIED"
           \/ pc'[r] = "idle" /\ status'[r] \in {"PARTIAL", "FAILED"}
    BY <1>2 DEF Conclude, Goto, Leave, SetStatus
  <2>2. call[r] = "apply"
    BY <1>0, <2>1 DEF Ready, Placed, Phases
  <2> QED
    BY <1>0, <2>1, <2>2, ReadyOn DEF Ready, Named, Placed, Phases
<1>3. CASE ReleaseOne(r)
  <2>1. pc[r] = "release" /\ UNCHANGED <<file, record, process>>
    BY <1>3 DEF ReleaseOne
  <2>2. \A t \in Targets : claim'[t] = claim[t] \/ claim'[t] = NoClaim
    BY <1>3 DEF ReleaseOne
  <2>3. NoClaim.owner # r
    BY RollbackAssumption DEF NoClaim
  <2> QED
    BY <1>0, <2>1, <2>2, <2>3, ReadyOn DEF Ready, Named, Placed
<1>4. CASE Released(r)
  <2>1. /\ pc[r] = "release" /\ pc'[r] = "idle" /\ UNCHANGED <<claim, known>>
        /\ status'[r] \in {status[r], "CLOSED"}
    BY <1>4 DEF Released, Leave, SetStatus
  <2> QED
    BY <1>0, <2>1, ReadyOn DEF Ready, Named, Placed, Phases
<1>5. CASE Accept(r)
  <2>1. UNCHANGED <<world, record, process>>
    BY <1>5 DEF Accept
  <2>2. Todo(r)' = Todo(r)
    BY <2>1 DEF Todo, With, Items, OpTask
  <2> QED
    BY <1>0, <2>1, <2>2 DEF Ready, ClaimsWithin, Named, Placed, Stopped, Proved
<1> QED
  BY <1>1, <1>2, <1>3, <1>4, <1>5

LEMMA ReadyStep == ASSUME RInv, [Next]_vars PROVE RInv'
<1>1. IInv'
  BY InvStep DEF RInv
<1>2. ASSUME NEW r \in Sessions
      PROVE  Ready(r)'
  <2>1. Others(r) \/ SessionStep(r)
    BY StepCases DEF Others
  <2>2. CASE SessionStep(r)
    BY <2>2, BeginReady, AdmissionReady, RestoreReady, ConcludeReady DEF SessionStep, Step
  <2> QED
    BY <2>1, <2>2, OthersReady
<1> QED
  BY <1>1, <1>2 DEF RInv

LEMMA ReadyCorrect == Spec => []RInv
<1>1. Init => RInv
  BY InvInit, ReadyInit DEF RInv
<1> QED
  BY <1>1, ReadyStep, PTL DEF Spec

-----------------------------------------------------------------------------
(* The mapping, step by step.                                              *)

Shown    == [r \in Sessions |-> Outcome(r)]
Holders  == [t \in Targets |-> Holder(t)]
Tampered == {t \in Targets : author[t] = Outside}

LEMMA InitMaps == Init => Promise!Init
<1> SUFFICES ASSUME Init PROVE Promise!Init
  OBVIOUS
<1>1. \A r \in Sessions : Outcome(r) = "open"
  BY DEF Init, Outcome
<1>2. \A t \in Targets : Holder(t) = None
  BY RollbackAssumption DEF Init, Holder, NoClaim
<1>3. Tampered = {}
  BY RollbackAssumption DEF Init, Tampered
<1>4. file = InitialBytes
  BY DEF Init
<1> QED
  BY <1>1, <1>2, <1>3, <1>4 DEF Promise!Init, Tampered

(* A step of a session shows only in its own outcome.                      *)
LEMMA ShownStep ==
  ASSUME RInv, NEW r \in Sessions, SessionStep(r)
  PROVE  Shown' = [Shown EXCEPT ![r] = Outcome(r)']
<1>1. \A q \in Sessions \ {r} : Outcome(q)' = Outcome(q)
  BY RecordFrame DEF Outcome, RInv, IInv
<1> QED
  BY <1>1 DEF Shown

LEMMA HoldersStep ==
  ASSUME RInv, NEW r \in Sessions, SessionStep(r), known'[r] = known[r],
         NEW t \in Targets, claim'[t] = claim[t]
  PROVE  Holder(t)' = Holder(t)
BY RecordFrame DEF Holder, RInv, IInv

(* What leaves bytes, claims and the record's claims alone is silent, or   *)
(* the end of an unfinished session.                                       *)
LEMMA QuietStep ==
  ASSUME RInv, NEW r \in Sessions, SessionStep(r),
         UNCHANGED <<file, author>>, Holders' = Holders,
         \/ Outcome(r)' = Outcome(r)
         \/ Outcome(r) \in {"open", "owning"} /\ Outcome(r)' = "ended"
  PROVE  [Promise!Next]_(Promise!vars)
<1>1. Tampered' = Tampered
  BY DEF Tampered
<1>2. CASE Outcome(r)' = Outcome(r)
  <2>1. Shown' = Shown
    BY <1>2, ShownStep DEF Shown
  <2> QED
    BY <1>1, <2>1 DEF Shown, Holders, Tampered, Promise!vars
<1>3. CASE Outcome(r) \in {"open", "owning"} /\ Outcome(r)' = "ended"
  <2>1. Promise!Ended(r)
    BY <1>1, <1>3, ShownStep DEF Shown, Holders, Tampered, Promise!Ended
  <2> QED
    BY <2>1 DEF Promise!Next
<1> QED
  BY <1>2, <1>3

LEMMA SilentMaps ==
  ASSUME RInv, NEW r \in Sessions,
         \/ Accept(r) \/ Prepare(r) \/ Preserve(r) \/ PreserveFails(r) \/ Preserved(r)
         \/ Apply(r) \/ FinishRelease(r) \/ Close(r)
         \/ TakeLock(r) \/ LockTimeout(r) \/ Crash(r) \/ Locked(r)
         \/ Settle(r) \/ StopAtDrift(r) \/ Blocked(r) \/ Admitted(r)
         \/ KeepNoop(r) \/ MarkApplying(r) \/ StopAtTarget(r)
         \/ WriteFails(r) \/ Confirm(r) \/ Prove(r) \/ Released(r)
  PROVE  [Promise!Next]_(Promise!vars)
<1> USE DEF world, facts, record, process
<1>0. SessionStep(r) /\ Ready(r) /\ TypeOK
  BY DEF SessionStep, Step, RInv, IInv
<1>1. UNCHANGED <<file, author, claim>> /\ known'[r] = known[r]
  <2>1. CASE Accept(r) \/ Prepare(r) \/ Preserve(r) \/ PreserveFails(r) \/ Preserved(r)
    BY <2>1 DEF Accept, Prepare, Preserve, PreserveFails, Preserved
  <2>2. CASE \/ Apply(r) \/ FinishRelease(r) \/ Close(r)
             \/ TakeLock(r) \/ LockTimeout(r) \/ Crash(r) \/ Locked(r)
    BY <2>2 DEF Apply, FinishRelease, Close, Call, TakeLock, LockTimeout, Crash, Locked
  <2>3. CASE Settle(r) \/ StopAtDrift(r) \/ Blocked(r) \/ Admitted(r)
    BY <2>3 DEF Settle, StopAtDrift, Blocked, Admitted
  <2>4. CASE KeepNoop(r) \/ MarkApplying(r) \/ StopAtTarget(r)
    BY <2>4 DEF KeepNoop, MarkApplying, StopAtTarget
  <2>5. CASE WriteFails(r) \/ Confirm(r) \/ Prove(r) \/ Released(r)
    BY <2>5 DEF WriteFails, Confirm, Prove, Released
  <2> QED
    BY <2>1, <2>2, <2>3, <2>4, <2>5
<1>2. Holders' = Holders
  BY <1>0, <1>1, HoldersStep DEF Holders
<1>3. \/ status'[r] = status[r]
      \/ status[r] \in {"NONE", "PREPARED"} /\ status'[r] = "PREPARED"
      \/ status[r] = "PREPARED" /\ status'[r] \in {"PRESERVED", "PRESERVATION_FAILED"}
      \/ status[r] \in {"AUTHORIZED", "APPLYING"} /\ status'[r] = "APPLYING"
      \/ status[r] \notin {"NONE", "VERIFIED"} /\ status'[r] = "CLOSED"
  <2>1. CASE Prepare(r)
    BY <1>0, <2>1 DEF Prepare, SetStatus, TypeOK
  <2>2. CASE PreserveFails(r) \/ Preserved(r)
    BY <1>0, <2>2 DEF PreserveFails, Preserved, SetStatus, TypeOK, Ready, Placed
  <2>3. CASE MarkApplying(r)
    BY <1>0, <2>3 DEF MarkApplying, AtTarget, SetStatus, TypeOK, Ready, Placed
  <2>4. CASE Released(r)
    BY <1>0, <2>4 DEF Released, SetStatus, TypeOK, Ready, Placed
  <2>5. CASE \/ Accept(r) \/ Preserve(r) \/ Apply(r) \/ FinishRelease(r) \/ Close(r)
             \/ TakeLock(r) \/ LockTimeout(r) \/ Crash(r) \/ Locked(r)
    BY <2>5 DEF Accept, Preserve, Apply, FinishRelease, Close, Call, TakeLock, LockTimeout,
       Crash, Locked
  <2>6. CASE \/ Settle(r) \/ StopAtDrift(r) \/ Blocked(r) \/ Admitted(r) \/ KeepNoop(r)
             \/ StopAtTarget(r) \/ WriteFails(r) \/ Confirm(r) \/ Prove(r)
    BY <2>6 DEF Settle, StopAtDrift, Blocked, Admitted, KeepNoop, StopAtTarget, WriteFails,
       Confirm, Prove
  <2> QED
    BY <2>1, <2>2, <2>3, <2>4, <2>5, <2>6
<1>4. status[r] \in SessionStatus
  BY <1>0 DEF TypeOK
<1>5. \/ Outcome(r)' = Outcome(r)
      \/ Outcome(r) \in {"open", "owning"} /\ Outcome(r)' = "ended"
  BY <1>3, <1>4 DEF Outcome, SessionStatus
<1> QED
  BY <1>0, <1>1, <1>2, <1>5, QuietStep

LEMMA AcquireMaps ==
  ASSUME RInv, NEW r \in Sessions, AcquireOne(r)
  PROVE  [Promise!Next]_(Promise!vars)
<1> USE DEF world, facts, record, process
<1>0. SessionStep(r) /\ Ready(r) /\ Sound(r) /\ TypeOK
  BY DEF SessionStep, Step, RInv, IInv
<1>1. pc[r] = "acquire" /\ UNCHANGED <<file, author, known, status>>
  BY DEF AcquireOne
<1>2. ~known[r] /\ \A q \in Sessions : SourceOf[q] \notin Sessions
  BY <1>0, <1>1, RollbackAssumption DEF Ready, Placed, Named
<1>3. PICK s \in Items(r) : claim' = [claim EXCEPT ![s] = [owner |-> r, basis |-> kept[r][s]]]
  BY AcquireOneIs
<1>4. claim[s].owner \in {None, SourceOf[r], r}
  BY <1>0, <1>1 DEF Sound, Claimable
<1>5. s \in Targets
  BY ItemsType
<1>6. claim'[s].owner = r
  BY <1>0, <1>3, <1>5 DEF TypeOK
<1>7. Holder(s) = None /\ Holder(s)' = None
  BY <1>1, <1>2, <1>4, <1>6 DEF Holder
<1>8. \A t \in Targets \ {s} : claim'[t] = claim[t]
  BY <1>0, <1>3 DEF TypeOK
<1>9. \A t \in Targets : Holder(t)' = Holder(t)
  BY <1>1, <1>7, <1>8 DEF Holder
<1> QED
  BY <1>0, <1>1, <1>9, QuietStep DEF Holders, Outcome

LEMMA AuthorizeMaps ==
  ASSUME RInv, NEW r \in Sessions, Authorize(r)
  PROVE  Promise!Take(r)
<1> USE DEF world, facts, record, process
<1>0. SessionStep(r) /\ Ready(r) /\ TypeOK
  BY DEF SessionStep, Step, RInv, IInv
<1>1. /\ pc[r] = "acquire" /\ Items(r) = Owned(r)
      /\ status'[r] = "AUTHORIZED" /\ known'[r] = TRUE
      /\ UNCHANGED <<file, author, claim>>
  BY <1>0 DEF Authorize, SetStatus, TypeOK
<1>2. status[r] = "PRESERVED" /\ ~known[r]
  BY <1>0, <1>1 DEF Ready, Placed, Named
<1>3. Outcome(r) = "open" /\ Outcome(r)' = "owning"
  BY <1>1, <1>2 DEF Outcome
<1>4. \A q \in Sessions \ {r} : known'[q] = known[q]
  BY <1>0, RecordFrame
<1>5. \A t \in Targets : claim[t].owner = r <=> t \in Items(r)
  BY <1>0, <1>1 DEF Owned, Ready, ClaimsWithin
<1>6. \A t \in Targets :
          /\ t \in Items(r) => Holder(t) = None /\ Holder(t)' = r
          /\ t \notin Items(r) => Holder(t)' = Holder(t)
  BY <1>1, <1>2, <1>4, <1>5 DEF Holder
<1>7. Items(r)' = Items(r) /\ Items(r) \subseteq Targets
  BY ItemsType DEF Items, OpTask
<1> QED
  BY <1>0, <1>1, <1>3, <1>6, <1>7, ShownStep DEF Shown, Promise!Take

LEMMA WriteMaps ==
  ASSUME RInv, NEW r \in Sessions, Write(r)
  PROVE  \E t \in Targets : Promise!Restore(r, t)
<1> USE DEF world, facts, record, process
<1>0. SessionStep(r) /\ Ready(r) /\ Sound(r) /\ TypeOK
  BY DEF SessionStep, Step, RInv, IInv
<1>1. pc[r] = "write" /\ UNCHANGED <<claim, known, status>>
  BY DEF Write
<1>2. PICK t \in Items(r) : With(r, "APPLYING") = {t}
  BY <1>0, <1>1 DEF Sound, OneInFlight
<1>3. t \in Targets /\ Items(r) \subseteq Targets
  BY ItemsType
<1>4. file' = [file EXCEPT ![t] = InitialBytes[t]] /\ author' = [author EXCEPT ![t] = r]
  BY <1>2, InFlightIs DEF Write
<1>5. status[r] \in {"AUTHORIZED", "APPLYING"} /\ known[r]
  BY <1>0, <1>1 DEF Ready, Placed, Named
<1>6. Outcome(r) = "owning"
  BY <1>5 DEF Outcome
<1>7. \A s \in Items(r) : Holder(s) = r
  BY <1>0, <1>1, <1>5 DEF Sound, OwnsAll, Holder
<1>8. Tampered' = Tampered \ {t}
  <2>1. r # Outside
    BY RollbackAssumption
  <2>2. author'[t] = r /\ \A s \in Targets \ {t} : author'[s] = author[s]
    BY <1>0, <1>3, <1>4 DEF TypeOK
  <2> QED
    BY <1>3, <2>1, <2>2 DEF Tampered
<1>9. Shown' = Shown /\ Holders' = Holders
  BY <1>1 DEF Shown, Holders, Outcome, Holder
<1>10. Promise!Restore(r, t)
  BY <1>2, <1>3, <1>4, <1>6, <1>7, <1>8, <1>9
     DEF Promise!Restore, Promise!Has, Shown, Holders, Tampered
<1> QED
  BY <1>3, <1>10

LEMMA ConcludeMaps ==
  ASSUME RInv, NEW r \in Sessions, Conclude(r)
  PROVE  [Promise!Next]_(Promise!vars)
<1> USE DEF world, facts, record, process
<1>0. SessionStep(r) /\ Ready(r) /\ TypeOK
  BY DEF SessionStep, Step, RInv, IInv
<1>1. /\ pc[r] = "conclude" /\ UNCHANGED <<file, author, claim, known>>
      /\ Todo(r) = {} => status'[r] = "VERIFIED"
      /\ Todo(r) # {} => status'[r] \in {"PARTIAL", "FAILED"}
  BY <1>0 DEF Conclude, SetStatus, TypeOK
<1>2. Holders' = Holders
  BY <1>1 DEF Holders, Holder
<1>3. status[r] \in {"PRESERVED", "AUTHORIZED", "APPLYING"}
  BY <1>0, <1>1 DEF Ready, Placed, Phases
<1>4. CASE Todo(r) # {}
  <2>1. Outcome(r) \in {"open", "owning"} /\ Outcome(r)' = "ended"
    BY <1>1, <1>3, <1>4 DEF Outcome
  <2> QED
    BY <1>0, <1>1, <1>2, <2>1, QuietStep
<1>5. CASE Todo(r) = {}
  <2>1. /\ status[r] \in {"AUTHORIZED", "APPLYING"} /\ known[r]
        /\ \A t \in Items(r) :
              claim[t].owner = r /\ (file[t] = InitialBytes[t] \/ author[t] = Outside)
    BY <1>0, <1>1, <1>5 DEF Ready, Proved, Named
  <2>2. Outcome(r) = "owning" /\ Outcome(r)' = "verified"
    BY <1>1, <1>5, <2>1 DEF Outcome
  <2>3. \A t \in Items(r) : Holder(t) = r /\ t \in Targets
    BY <2>1, ItemsType DEF Holder
  <2>4. Promise!Verified(r)
    BY <1>0, <1>1, <1>2, <2>1, <2>2, <2>3, ShownStep
       DEF Promise!Verified, Promise!Has, Shown, Holders
  <2> QED
    BY <2>4 DEF Promise!Next
<1> QED
  BY <1>4, <1>5

LEMMA ReleaseMaps ==
  ASSUME RInv, NEW r \in Sessions, ReleaseOne(r)
  PROVE  \E t \in Targets : Promise!GiveBack(r, t)
<1> USE DEF world, facts, record, process
<1>0. Ready(r) /\ TypeOK
  BY DEF RInv, IInv
<1>1. UNCHANGED <<file, author, known, status>>
  BY DEF ReleaseOne
<1>2. PICK t \in Releasable(r) : claim' = [claim EXCEPT ![t] = NoClaim]
  BY MinIn, ItemsType DEF ReleaseOne, Releasable
<1>3. t \in Targets /\ known[r] /\ claim[t].owner = r
  BY <1>2, ItemsType DEF Releasable, Held
<1>4. claim'[t].owner = None /\ \A s \in Targets \ {t} : claim'[s] = claim[s]
  BY <1>0, <1>2, <1>3 DEF TypeOK, NoClaim
<1>5. Holder(t) = r /\ Holder(t)' = None /\ \A s \in Targets \ {t} : Holder(s)' = Holder(s)
  BY <1>1, <1>3, <1>4, RollbackAssumption DEF Holder
<1>6. Outcome(r) # "open"
  BY <1>0, <1>3 DEF Ready, Named, Outcome, TypeOK, SessionStatus
<1>7. Shown' = Shown
  BY <1>1 DEF Shown, Outcome
<1>8. Promise!GiveBack(r, t)
  BY <1>1, <1>3, <1>5, <1>6, <1>7 DEF Promise!GiveBack, Shown, Holders
<1> QED
  BY <1>3, <1>8

(* Operations change only what no session has; editors tamper.             *)
LEMMA BesideMaps == ASSUME RInv, Beside PROVE [Promise!Next]_(Promise!vars)
<1> USE DEF world, facts, record, process
<1>0. TypeOK /\ Ops \cap Sessions = {} /\ None \notin Sessions
      /\ \A o \in Ops : o # Outside /\ TargetOf[o] \in Targets /\ Payload[o] \in Bytes
  BY RollbackAssumption DEF RInv, IInv
<1>1. UNCHANGED <<status, known>>
  BY BesideFrame
<1>2. Shown' = Shown
  BY <1>1 DEF Shown, Outcome
<1>3. ASSUME NEW t \in Targets
      PROVE  Holder(t)' = Holder(t)
  <2>1. claim'[t].owner = claim[t].owner \/ {claim[t].owner, claim'[t].owner} \subseteq Ops \cup {None}
    BY BesideTouch DEF RInv
  <2> QED
    BY <1>0, <1>1, <2>1 DEF Holder
<1>4. Holders' = Holders
  BY <1>3 DEF Holders
<1>5. CASE UNCHANGED <<file, author>>
  BY <1>2, <1>4, <1>5 DEF Shown, Holders, Promise!vars
<1>6. ASSUME NEW o \in Ops, OpExecute(o), ~UNCHANGED <<file, author>>
      PROVE  \E t \in Targets : Promise!Mutate(t)
  <2> DEFINE t == TargetOf[o]
  <2>1. file' = [file EXCEPT ![t] = Payload[o]] /\ author' = [author EXCEPT ![t] = o]
        /\ claim[t].owner = o
    BY <1>6 DEF OpExecute
  <2>2. Holder(t) = None
    BY <1>0, <2>1 DEF Holder
  <2>3. author'[t] = o /\ \A s \in Targets \ {t} : author'[s] = author[s]
    BY <1>0, <2>1 DEF TypeOK
  <2>4. Tampered' = Tampered \ {t}
    BY <1>0, <2>3 DEF Tampered
  <2>5. Promise!Mutate(t)
    BY <1>0, <1>2, <1>4, <2>1, <2>2, <2>4 DEF Promise!Mutate, Shown, Holders, Tampered
  <2> QED
    BY <1>0, <2>5
<1>7. ASSUME NEW t \in Targets, ForeignEdit(t)
      PROVE  Promise!Tamper(t)
  <2>1. PICK b \in ForeignBytes : file' = [file EXCEPT ![t] = b]
    BY <1>7 DEF ForeignEdit
  <2>2. author'[t] = Outside /\ \A s \in Targets \ {t} : author'[s] = author[s]
    BY <1>0, <1>7 DEF ForeignEdit, TypeOK
  <2>3. Tampered' = Tampered \cup {t}
    BY <2>2 DEF Tampered
  <2>4. b \in Bytes
    BY RollbackAssumption
  <2> QED
    BY <1>2, <1>4, <2>1, <2>3, <2>4 DEF Promise!Tamper, Shown, Holders, Tampered
<1>8. \/ UNCHANGED <<file, author>>
      \/ \E o \in Ops : OpExecute(o)
      \/ \E t \in Targets : ForeignEdit(t)
  BY DEF Beside, OpClaim, OpRelease, OpRecord, Abort, RestorePointBreaks, vars
<1> QED
  BY <1>5, <1>6, <1>7, <1>8 DEF Promise!Next

(* Every behaviour of the stored, locked, interruptible rollback is one of *)
(* the abstract exclusive restore: all targets at once or none, bytes that *)
(* only become the restore state, VERIFIED only of what is owned and true. *)
THEOREM RollbackKeepsItsPromise == Spec => ImplementsPromise
<1>1. RInv /\ [Next]_vars => [Promise!Next]_(Promise!vars)
  <2> SUFFICES ASSUME RInv, [Next]_vars PROVE [Promise!Next]_(Promise!vars)
    OBVIOUS
  <2>1. ASSUME NEW r \in Sessions, SessionStep(r)
        PROVE  [Promise!Next]_(Promise!vars)
    <3>1. CASE AcquireOne(r)
      BY <3>1, AcquireMaps
    <3>2. CASE Authorize(r)
      BY <3>2, AuthorizeMaps DEF Promise!Next
    <3>3. CASE Write(r)
      BY <3>3, WriteMaps DEF Promise!Next
    <3>4. CASE Conclude(r)
      BY <3>4, ConcludeMaps
    <3>5. CASE ReleaseOne(r)
      BY <3>5, ReleaseMaps DEF Promise!Next
    <3> QED
      BY <2>1, <3>1, <3>2, <3>3, <3>4, <3>5, SilentMaps DEF SessionStep, Step
  <2> QED
    BY <2>1, BesideMaps, StepCases
<1> QED
  BY InitMaps, <1>1, ReadyCorrect, PTL DEF Spec, ImplementsPromise, Promise!Spec
====
