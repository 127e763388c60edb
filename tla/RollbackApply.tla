---- MODULE RollbackApply ----
(***************************************************************************)
(* The phases of apply and close under all locks, the writers a rollback   *)
(* runs beside, and the specification.                                     *)
(***************************************************************************)
EXTENDS RollbackSession

Held(r, t) == known[r] /\ claim[t].owner = r

(* _prove_current: tracked targets whose bytes or owner changed.           *)
Drifted(r) ==
    {t \in With(r, "RESTORED") \cup With(r, "NOOP") :
        ~Held(r, t) \/ file[t] # InitialBytes[t]}
    \cup {t \in With(r, "PRESERVED") : ~Held(r, t) \/ file[t] # kept[r][t]}

Mark(r, S) == [part EXCEPT ![r] = [t \in Targets |-> IF t \in S THEN "DRIFTED" ELSE @[t]]]

-----------------------------------------------------------------------------
(* 1. In-flight targets of an interrupted call: the real bytes decide.     *)

(* Mutant: a session status is stored for a target. *)
FateOfSession(r, t) == "AUTHORIZED"

ProvenFate(r, t) ==
    CASE file[t] = InitialBytes[t]                           -> "RESTORED"
      [] file[t] # InitialBytes[t] /\ file[t] = kept[r][t]   -> "PRESERVED"
      [] file[t] \notin {InitialBytes[t], kept[r][t]}        -> "DRIFTED"

Settle(r) ==
    /\ pc[r] = "settle"
    /\ With(r, "APPLYING") # {}
    /\ LET t == Min(With(r, "APPLYING")) IN SetPart(r, t, ProvenFate(r, t))
    /\ UNCHANGED <<world, facts, status, kept, known, freed, process, spent>>

-----------------------------------------------------------------------------
(* 2. and 3. The basis is proved again, then every target is owned.        *)

OwnEffects(r) == With(r, "RESTORED") \cup With(r, "APPLYING") \cup With(r, "FAILED") # {}

(* Drift found among what earlier calls restored ends the session.         *)
NewDrift(r) ==
    IF With(r, "RESTORED") \cup With(r, "DRIFTED") \cup With(r, "FAILED") # {}
    THEN Drifted(r) ELSE {}

EndsHere(r) == NewDrift(r) \cup With(r, "DRIFTED") \cup With(r, "FAILED") # {}

BasisHolds(r) ==
    /\ plan[r]
    /\ SourceOf[r] \notin aborted
    /\ basis[r].fate = fate[SourceOf[r]]
    /\ ~OwnEffects(r) => Fresh(r) /\ \A t \in Items(r) : file[t] = kept[r][t]

(* Mutants: another owner is evicted; a resumed session is not asked.      *)
OwnableOverOwner(r) == status[r] = "PRESERVED" \/ \A t \in Items(r) : Held(r, t)
OwnableOnResume(r) ==
    status[r] = "PRESERVED" => \A t \in Items(r) : claim[t].owner \in {None, SourceOf[r], r}

(* All or nothing: nobody but the source operation may own a target; once  *)
(* authorised, the session must still own them all.                        *)
Ownable(r) ==
    IF status[r] = "PRESERVED"
    THEN \A t \in Items(r) : claim[t].owner \in {None, SourceOf[r], r}
    ELSE \A t \in Items(r) : Held(r, t)

AtAdmission(r) == pc[r] = "settle" /\ With(r, "APPLYING") = {}

StopAtDrift(r) ==
    /\ AtAdmission(r)
    /\ EndsHere(r)
    /\ part' = Mark(r, NewDrift(r))
    /\ Goto(r, "prove")
    /\ UNCHANGED <<world, facts, status, kept, known, freed, spent>>

Blocked(r) ==
    /\ AtAdmission(r)
    /\ ~EndsHere(r)
    /\ ~(BasisHolds(r) /\ Ownable(r))
    /\ Leave(r)
    /\ UNCHANGED <<world, facts, record, spent>>

Admitted(r) ==
    /\ AtAdmission(r)
    /\ ~EndsHere(r)
    /\ BasisHolds(r) /\ Ownable(r)
    /\ Goto(r, IF status[r] = "PRESERVED" THEN "acquire" ELSE "restore")
    /\ UNCHANGED <<world, facts, record, spent>>

(* One claim file after the other; the source operation's own claim is     *)
(* superseded, one of an earlier interrupted call is adopted.              *)
AcquireOne(r) ==
    /\ pc[r] = "acquire"
    /\ Items(r) \ Owned(r) # {}
    /\ LET t == Min(Items(r) \ Owned(r))
       IN  claim' = [claim EXCEPT ![t] = [owner |-> r, basis |-> kept[r][t]]]
    /\ UNCHANGED <<file, author, raced, facts, record, process, spent>>

Authorize(r) ==
    /\ pc[r] = "acquire"
    /\ Items(r) = Owned(r)
    /\ SetStatus(r, "AUTHORIZED")
    /\ known' = [known EXCEPT ![r] = TRUE]
    /\ Goto(r, "restore")
    /\ UNCHANGED <<world, facts, part, kept, freed, spent>>

-----------------------------------------------------------------------------
(* 4. Target by target: compare-and-set, write, verify, receipt.           *)

Todo(r) == Items(r) \ (With(r, "RESTORED") \cup With(r, "NOOP"))

(* Mutant: the bytes are not compared again before the write. *)
UnchangedIfOwned(r, t) == Held(r, t)

Unchanged(r, t) ==
    IF PlannedNoop(r, t) THEN file[t] = InitialBytes[t]
    ELSE Held(r, t) /\ file[t] = kept[r][t]

AtTarget(r, t) == pc[r] = "restore" /\ Todo(r) # {} /\ t = Min(Todo(r))

KeepNoop(r) ==
    \E t \in Items(r) :
        /\ AtTarget(r, t)
        /\ PlannedNoop(r, t) /\ Unchanged(r, t)
        /\ SetPart(r, t, "NOOP")
        /\ UNCHANGED <<world, facts, status, kept, known, freed, process, spent>>

MarkApplying(r) ==
    \E t \in Items(r) :
        /\ AtTarget(r, t)
        /\ ~PlannedNoop(r, t) /\ Unchanged(r, t)
        /\ SetPart(r, t, "APPLYING")
        /\ SetStatus(r, "APPLYING")
        /\ raced' = raced \ {t}
        /\ Goto(r, "write")
        /\ UNCHANGED <<file, claim, author, facts, kept, known, freed, spent>>

StopAtTarget(r) ==
    \E t \in Items(r) :
        /\ AtTarget(r, t)
        /\ ~Unchanged(r, t)
        /\ SetPart(r, t, "DRIFTED")
        /\ Goto(r, "prove")
        /\ UNCHANGED <<world, facts, status, kept, known, freed, spent>>

InFlight(r) == Min(With(r, "APPLYING"))

(* The file is replaced atomically, or a created one is removed.           *)
Write(r) ==
    /\ pc[r] = "write"
    /\ LET t == InFlight(r)
       IN  /\ InitialBytes[t] = Absent => file[t] # Absent
           /\ file' = [file EXCEPT ![t] = InitialBytes[t]]
           /\ author' = [author EXCEPT ![t] = r]
    /\ Goto(r, "confirm")
    /\ UNCHANGED <<claim, raced, facts, record, spent>>

(* The write raises: a created file is gone already, or the disk refuses.  *)
WriteFails(r) ==
    /\ pc[r] = "write"
    /\ LET t == InFlight(r)
       IN  /\ t \in FailingWrites \/ (InitialBytes[t] = Absent /\ file[t] = Absent)
           /\ SetPart(r, t, "FAILED")
    /\ Goto(r, "prove")
    /\ UNCHANGED <<world, facts, status, kept, known, freed, spent>>

Confirm(r) ==
    /\ pc[r] = "confirm"
    /\ LET t == InFlight(r)
       IN  IF file[t] = InitialBytes[t]
           THEN SetPart(r, t, "RESTORED") /\ Goto(r, "restore")
           ELSE SetPart(r, t, "FAILED") /\ Goto(r, "prove")
    /\ UNCHANGED <<world, facts, status, kept, known, freed, spent>>

-----------------------------------------------------------------------------
(* _finalize: prove every target, persist the result, then release.        *)

(* Mutant: the final proof is skipped. *)
ProveReceipts(r) ==
    /\ pc[r] = "prove" \/ (pc[r] = "restore" /\ Todo(r) = {})
    /\ raced' = raced \ Owned(r)
    /\ Goto(r, "conclude")
    /\ UNCHANGED <<file, claim, author, facts, record, spent>>

Prove(r) ==
    /\ pc[r] = "prove" \/ (pc[r] = "restore" /\ Todo(r) = {})
    /\ part' = Mark(r, Drifted(r))
    /\ raced' = raced \ Owned(r)
    /\ Goto(r, "conclude")
    /\ UNCHANGED <<file, claim, author, facts, status, kept, known, freed, spent>>

Conclude(r) ==
    /\ pc[r] = "conclude"
    /\ IF Todo(r) = {}
       THEN SetStatus(r, "VERIFIED") /\ Goto(r, "release")
       ELSE /\ SetStatus(r, IF With(r, "RESTORED") # {} THEN "PARTIAL" ELSE "FAILED")
            /\ Leave(r)
    /\ UNCHANGED <<world, facts, part, kept, known, freed, spent>>

Releasable(r) == {t \in Items(r) : Held(r, t)}

ReleaseOne(r) ==
    /\ pc[r] = "release"
    /\ Releasable(r) # {}
    /\ claim' = [claim EXCEPT ![Min(Releasable(r))] = NoClaim]
    /\ UNCHANGED <<file, author, raced, facts, record, process, spent>>

Released(r) ==
    /\ pc[r] = "release"
    /\ Releasable(r) = {}
    /\ freed' = [freed EXCEPT ![r] = TRUE]
    /\ SetStatus(r, IF call[r] = "close" THEN "CLOSED" ELSE status[r])
    /\ Leave(r)
    /\ UNCHANGED <<world, facts, part, kept, known, spent>>

-----------------------------------------------------------------------------
(* Operations of any TASK: claim, mutation boundary, release, lifecycle.   *)

BoundaryFree(o) == Free(TaskOf[o]) /\ targetLock[TargetOf[o]] = None

OpClaim(o) ==
    LET t == TargetOf[o]
    IN  /\ BoundaryFree(o)
        /\ fate[o] = "INTENT" /\ o \notin aborted
        /\ claim[t] = NoClaim
        /\ file[t] = InitialBytes[t]
        /\ claim' = [claim EXCEPT ![t] = [owner |-> o, basis |-> file[t]]]
        /\ UNCHANGED <<file, author, raced, facts, record, process, spent>>

(* The executor under TASK and target lock: STARTED is durable first, the  *)
(* write may or may not land, the receipt may be missing.                  *)
OpExecute(o) ==
    LET t == TargetOf[o]
    IN  /\ BoundaryFree(o)
        /\ claim[t].owner = o
        /\ fate[o] = "INTENT"
        /\ ~Disposed(TaskOf[o])
        /\ file[t] = claim[t].basis
        /\ \/ /\ file' = [file EXCEPT ![t] = Payload[o]]
              /\ author' = [author EXCEPT ![t] = o]
              /\ \E s \in {"STARTED", "DONE"} : fate' = [fate EXCEPT ![o] = s]
           \/ /\ fate' = [fate EXCEPT ![o] = "STARTED"]
              /\ UNCHANGED <<file, author>>
        /\ UNCHANGED <<claim, raced, aborted, broken, basis, record, process, spent>>

OpRelease(o) ==
    /\ BoundaryFree(o)
    /\ claim[TargetOf[o]].owner = o
    /\ fate[o] = "DONE" \/ o \in aborted
    /\ claim' = [claim EXCEPT ![TargetOf[o]] = NoClaim]
    /\ UNCHANGED <<file, author, raced, facts, record, process, spent>>

(* DONE is recorded through the API on the exact post-state.               *)
OpRecord(o) ==
    /\ o \in Driven
    /\ Free(TaskOf[o])
    /\ fate[o] = "STARTED"
    /\ file[TargetOf[o]] = Payload[o]
    /\ fate' = [fate EXCEPT ![o] = "DONE"]
    /\ UNCHANGED <<world, aborted, broken, basis, record, process, spent>>

Abort(o) ==
    /\ o \in Abortable \ aborted
    /\ Free(TaskOf[o])
    /\ aborted' = aborted \cup {o}
    /\ UNCHANGED <<world, fate, broken, basis, record, process, spent>>

-----------------------------------------------------------------------------
(* What takes no lock, and death.                                          *)

RestorePointBreaks(k) ==
    /\ k \in Breakable \ broken
    /\ broken' = broken \cup {k}
    /\ UNCHANGED <<world, fate, aborted, basis, record, process, spent>>

ForeignEdit(t) ==
    /\ spent.edits < MaxForeignEdits
    /\ \E b \in ForeignBytes \ {file[t]} : file' = [file EXCEPT ![t] = b]
    /\ author' = [author EXCEPT ![t] = Outside]
    /\ raced' = raced \cup {t}
    /\ spent' = [spent EXCEPT !.edits = @ + 1]
    /\ UNCHANGED <<claim, facts, record, process>>

(* The process dies, or a store error ends the call: locks go, the files   *)
(* stay as they are.                                                       *)
Crash(r) ==
    /\ pc[r] # "idle"
    /\ spent.crashes < MaxCrashes
    /\ spent' = [spent EXCEPT !.crashes = @ + 1]
    /\ Leave(r)
    /\ UNCHANGED <<world, facts, record>>

-----------------------------------------------------------------------------
Step(r) ==
    \/ Preserve(r) \/ Preserved(r)
    \/ Locked(r)
    \/ Settle(r) \/ StopAtDrift(r) \/ Blocked(r) \/ Admitted(r)
    \/ AcquireOne(r) \/ Authorize(r)
    \/ KeepNoop(r) \/ MarkApplying(r) \/ StopAtTarget(r)
    \/ Write(r) \/ WriteFails(r) \/ Confirm(r)
    \/ Prove(r) \/ Conclude(r)
    \/ ReleaseOne(r) \/ Released(r)

Next ==
    \/ \E r \in Sessions :
          \/ Accept(r)
          \/ Prepare(r) \/ Apply(r) \/ FinishRelease(r) \/ Close(r)
          \/ Step(r)
          \/ PreserveFails(r) \/ TakeLock(r) \/ LockTimeout(r) \/ Crash(r)
    \/ \E o \in Ops :
          OpClaim(o) \/ OpExecute(o) \/ OpRelease(o) \/ OpRecord(o) \/ Abort(o)
    \/ \E k \in Tasks : RestorePointBreaks(k)
    \/ \E t \in Targets : ForeignEdit(t)

Spec == Init /\ [][Next]_vars

(* Only a close that died halfway leaves an authorised session without one *)
(* of its claims (CLAIM_LOST).                                             *)
ClaimLost(r) == known[r] /\ \E t \in Items(r) : ~Held(r, t)

(* A running call goes on; a lock that is free again and again is taken in *)
(* the end (waiters poll it); an unfinished session is applied again, as   *)
(* its next safe action asks, and a close that died is repeated.           *)
FairSpec ==
    /\ Spec
    /\ \A r \in Sessions :
          /\ WF_vars(Step(r))
          /\ SF_vars(TakeLock(r))
          /\ WF_vars(Apply(r)) /\ WF_vars(FinishRelease(r))
          /\ SF_vars(ClaimLost(r) /\ Close(r))
====
