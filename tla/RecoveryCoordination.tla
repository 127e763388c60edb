---- MODULE RecoveryCoordination ----
(***************************************************************************)
(* RC-6: recover looks at the projected state without a lock, decides on   *)
(* one safe step, takes the TASK and mutation locks and proves the step    *)
(* again before it writes.  A settlement is three writes, operation record *)
(* first, then microtask, then claim; a death in between is completed by   *)
(* the next recover.  Several recover calls, an agent reporting progress,  *)
(* direct Resolver, RC-3 and RC-4 requests and an editor run beside it.    *)
(***************************************************************************)
EXTENDS Settlement

Free     == lock = None
Owns(o)  == claim[TargetOf[o]] = o
Touch(o) == recent' = {r \in recent : r[1] # o} \cup {<<q, o>> : q \in Ops \ {o}}

(* A session that has restored owns every target until it releases them.   *)
SessionOwns == \E o \in Ops : \E i \in 1..MaxResolutions : session[o][i] = "RESTORED"
Unowned(o)  == ~SessionOwns /\ \A t \in Targets : claim[t] \in {None, o}

-----------------------------------------------------------------------------
(* The projected recovery of one operation and the step it asks for.       *)

Concluded(o, i) == i # 0 /\ session[o][i] \in {"VERIFIED", "CLOSED"}

SettlementSpeaks(o) == IsSettled(o) /\ (Authority(o) = settled[o].by \/ LateAbort(o))

(* Completed: the microtask is where the settlements want it, the claim is *)
(* gone.  Contradicted: a ROLLBACK settled in a VERIFIED microtask.        *)
Completed(o)    == Satisfied(EffectiveTarget(Voices)) /\ ~Owns(o)
Contradicted(o) == stage = "VERIFIED" /\ EffectiveTarget(Voices) = "RECOVERY_REQUIRED"

OfSession(o) ==
    LET i == CHOOSE j \in OpenSessions(o) : TRUE
    IN  CASE Cardinality(OpenSessions(o)) > 1                          -> "MANUAL"
          [] Cardinality(OpenSessions(o)) = 1 /\ session[o][i] = "RESTORED" -> "APPLY"
          [] OTHER -> IF Authority(o) # i \/ ~Fresh(o, i) THEN "CLOSE"
                      ELSE IF stage = "VERIFIED" THEN "MANUAL" ELSE "APPLY"

OfAction(o, i) ==
    CASE Action(o, i) = "ABORT"    -> "SETTLE"
      [] Action(o, i) = "ADOPT"    -> IF stage \in PreExecution THEN "MANUAL" ELSE "SETTLE"
      [] Action(o, i) = "ROLLBACK" ->
            IF \/ stage \in PreExecution \cup {"VERIFIED"}
               \/ \E q \in Ops : settled[q].seen \in PreExecution
            THEN "MANUAL" ELSE "PREPARE"
      [] Action(o, i) = "RETRY"    ->
            IF stage \in RecoveryMicro /\ Voices \cap Destructive = {} THEN "REARM" ELSE "MANUAL"

Recovery(o) ==
    LET i == Authority(o)
    IN  IF OpenSessions(o) # {} THEN OfSession(o)
        ELSE IF SettlementSpeaks(o)
        THEN IF Contradicted(o) THEN "MANUAL"
             ELSE IF Completed(o) THEN "NONE" ELSE "FINISH"
        ELSE IF i = 0 THEN IF op[o].status \in OpenFate THEN "MANUAL" ELSE "NONE"
        ELSE IF Concluded(o, i)
        THEN IF session[o][i] = "VERIFIED" THEN "SETTLE_ROLLBACK" ELSE "MANUAL"
        ELSE IF ~InForce(o, i) THEN "MANUAL" ELSE OfAction(o, i)

(* The one operation recover looks at: an open rollback comes first, then  *)
(* the latest activity.                                                    *)
Pending(o)  == Recovery(o) # "NONE"
Later(o, q) == <<q, o>> \in recent

Focused(o) ==
    /\ Pending(o)
    /\ \A q \in Ops \ {o} :
          \/ ~Pending(q)
          \/ OpenSessions(o) # {} /\ OpenSessions(q) = {}
          \/ (OpenSessions(o) = {} <=> OpenSessions(q) = {}) /\ Later(o, q)

(* The resolution or session a step is about.                              *)
About(o) ==
    IF OpenSessions(o) # {} THEN CHOOSE j \in OpenSessions(o) : TRUE
    ELSE IF Recovery(o) = "FINISH" THEN settled[o].by ELSE Authority(o)

-----------------------------------------------------------------------------
(* recover: look, act under the locks, or give up.                         *)

Look(c) ==
    /\ pc[c] = "idle"
    /\ stage # "PREPARING"
    /\ \E o \in Ops :
          /\ Focused(o)
          /\ Recovery(o) \in Steps
          /\ job' = [job EXCEPT ![c] = [step |-> Recovery(o), op |-> o, by |-> About(o)]]
    /\ pc' = [pc EXCEPT ![c] = "act"]
    /\ UNCHANGED <<file, facts, recent, lock, executed, spent>>

Step(c)  == job[c].step
Doing(c) == Action(job[c].op, job[c].by)
Acts(c, s) == pc[c] = "act" /\ Step(c) = s /\ Free

Ends(c) ==
    /\ pc' = [pc EXCEPT ![c] = "idle"]
    /\ job' = [job EXCEPT ![c] = NoJob]

Goes(c, l) ==
    /\ pc' = [pc EXCEPT ![c] = l]
    /\ UNCHANGED job

Reachable(s, A) == stage = s \/ stage \in AllowedFrom(s, A)
NewTarget(c)    == EffectiveTarget(Voices \cup {Doing(c)})

(* ADOPT proves the bytes again while every target is locked.              *)
AdoptProved(o, i) ==
    /\ Fresh(o, i)
    /\ Unowned(o)
    /\ file[TargetOf[o]] = Payload[o]

(* _settle_recovery_locked: written once, on the revision it was decided.  *)
Recordable(o, i) ==
    \/ settled[o].by = i
    \/ /\ ~IsSettled(o)
       /\ op[o].rev = accepted[o][i].rev
       /\ CASE Action(o, i) = "ABORT"    -> TRUE
            [] Action(o, i) = "ADOPT"    -> op[o].status \in OpenFate \cup {"DONE"}
            [] Action(o, i) = "ROLLBACK" -> op[o].status \in {"INTENT", "DONE"} \cup OpenFate

CanSettle(c) ==
    LET o == job[c].op
        i == job[c].by
    IN  /\ Authority(o) = i
        /\ OpenSessions(o) = {}
        /\ stage # "PREPARING"
        /\ Reachable(NewTarget(c), Voices \cup {Doing(c)})
        /\ Doing(c) = "ADOPT" => AdoptProved(o, i)
        /\ Recordable(o, i)

CanSettleRollback(c) ==
    /\ session[job[c].op][job[c].by] = "VERIFIED"
    /\ Reachable(NewTarget(c), {"ROLLBACK"})
    /\ Recordable(job[c].op, job[c].by)

Record(o, i) ==
    IF settled[o].by = i THEN UNCHANGED <<op, settled>>
    ELSE /\ settled' = [settled EXCEPT ![o] = [action |-> Action(o, i), by |-> i, seen |-> stage]]
         /\ op' = [op EXCEPT ![o] = [status |-> IF Action(o, i) = "ADOPT" THEN "VERIFIED" ELSE @.status,
                                     rev |-> @.rev + 1]]

(* The first write of a settlement; the locks stay.                        *)
Settle(c) ==
    /\ \/ Acts(c, "SETTLE") /\ CanSettle(c)
       \/ Acts(c, "SETTLE_ROLLBACK") /\ CanSettleRollback(c)
    /\ Record(job[c].op, job[c].by)
    /\ Touch(job[c].op)
    /\ lock' = c
    /\ Goes(c, "lifecycle")
    /\ UNCHANGED <<file, claim, stage, accepted, session, executed, spent>>

(* The second write; a rolled back operation holds no claim any more.      *)
SettleLifecycle(c) ==
    /\ pc[c] = "lifecycle"
    /\ stage' = NewTarget(c)
    /\ lock' = None
    /\ IF Step(c) = "SETTLE" THEN Goes(c, "release") ELSE Ends(c)
    /\ UNCHANGED <<file, claim, op, settled, accepted, session, recent, executed, spent>>

AnyFresh(o, a) == \E i \in DOMAIN accepted[o] : Action(o, i) = a /\ Fresh(o, i)

Releasable(o) == Owns(o) /\ (op[o].status \in OpenFate => Aborted(o) \/ AnyFresh(o, "ADOPT"))

EndClaim(o) ==
    claim' = IF Releasable(o) THEN [claim EXCEPT ![TargetOf[o]] = None] ELSE claim

(* The third, under the locks of RC-3.                                     *)
SettleRelease(c) ==
    /\ pc[c] = "release" /\ Free
    /\ EndClaim(job[c].op)
    /\ Ends(c)
    /\ UNCHANGED <<file, stage, op, settled, accepted, session, recent, lock, executed, spent>>

(* Mutant: the settlements may have fallen silent since the look. *)
FinishableSilent ==
    stage # "PREPARING" /\ Reachable(EffectiveTarget(Voices), Voices)

Finishable ==
    /\ stage # "PREPARING"
    /\ Voices # {}
    /\ Satisfied(EffectiveTarget(Voices)) \/ Reachable(EffectiveTarget(Voices), Voices)

FinishSettlement(c) ==
    /\ Acts(c, "FINISH") /\ Finishable
    /\ stage' = IF Satisfied(EffectiveTarget(Voices)) THEN stage ELSE EffectiveTarget(Voices)
    /\ Goes(c, "release")
    /\ UNCHANGED <<file, claim, op, settled, accepted, session, recent, lock, executed, spent>>

CanRearm(c) ==
    LET o == job[c].op
        i == job[c].by
    IN  /\ Authority(o) = i /\ Fresh(o, i)
        /\ OpenSessions(o) = {}
        /\ Unowned(o)
        /\ ~Disposed
        /\ stage \in RecoveryMicro \cup {"ACTIVE"}

RearmRetry(c) ==
    /\ Acts(c, "REARM") /\ CanRearm(c)
    /\ stage' = "ACTIVE"
    /\ Ends(c)
    /\ UNCHANGED <<file, claim, op, settled, accepted, session, recent, lock, executed, spent>>

-----------------------------------------------------------------------------
(* RC-4, as one step per phase: what a caller, RC-6 or a direct request,   *)
(* gets done with the session of resolution i.                             *)

SetSession(o, i, s) ==
    /\ session' = [session EXCEPT ![o][i] = s]
    /\ Touch(o)

CanPrepare(o, i) ==
    /\ i \in DOMAIN accepted[o] /\ Action(o, i) = "ROLLBACK"
    /\ session[o][i] = "NONE"
    /\ ~Aborted(o) /\ Fresh(o, i)
    /\ Restorable

PrepareSession(o, i) ==
    /\ CanPrepare(o, i)
    /\ SetSession(o, i, "PREPARED")
    /\ UNCHANGED <<file, claim, op>>

CanRestore(o, i) ==
    /\ session[o][i] = "PREPARED"
    /\ ~Aborted(o) /\ Fresh(o, i)
    /\ Unowned(o)
    /\ Restorable

(* The targets' claims pass to the session.                                *)
RestoreSession(o, i) ==
    /\ CanRestore(o, i)
    /\ file' = InitialBytes
    /\ claim' = [t \in Targets |-> None]
    /\ SetSession(o, i, "RESTORED")
    /\ UNCHANGED op

CanGiveBack(o, i) == session[o][i] = "RESTORED"

GiveBackSession(o, i) ==
    /\ CanGiveBack(o, i)
    /\ SetSession(o, i, "VERIFIED")
    /\ UNCHANGED <<file, claim, op>>

CanClose(o, i) == session[o][i] = "PREPARED"

CloseSession(o, i) ==
    /\ CanClose(o, i)
    /\ SetSession(o, i, "CLOSED")
    /\ UNCHANGED <<file, claim, op>>

(* Asked for directly, without the boundary RC-6 puts the stage at.        *)
RollbackRequest(o) ==
    /\ Free
    /\ \E i \in 1..MaxResolutions :
          PrepareSession(o, i) \/ RestoreSession(o, i) \/ GiveBackSession(o, i) \/ CloseSession(o, i)
    /\ UNCHANGED <<stage, settled, accepted, process, executed, spent>>

PrepareRollback(c) ==
    /\ Acts(c, "PREPARE")
    /\ PrepareSession(job[c].op, job[c].by)
    /\ Ends(c)
    /\ UNCHANGED <<stage, settled, accepted, lock, executed, spent>>

CloseRollback(c) ==
    /\ Acts(c, "CLOSE")
    /\ CloseSession(job[c].op, job[c].by)
    /\ Ends(c)
    /\ UNCHANGED <<stage, settled, accepted, lock, executed, spent>>

(* _rollback_stage_preflight: before bytes may change the stage goes to    *)
(* RECOVERY_REQUIRED; nothing is written for a step that restores nothing. *)
Destroys(c) == session[job[c].op][job[c].by] = "PREPARED" /\ ~Aborted(job[c].op)

StagePreflight(c) ==
    /\ Acts(c, "APPLY")
    /\ Destroys(c) => Restorable
    /\ stage' = IF Destroys(c) THEN "RECOVERY_REQUIRED" ELSE stage
    /\ Goes(c, "rc4")
    /\ UNCHANGED <<file, claim, op, settled, accepted, session, recent, lock, executed, spent>>

ApplyRollback(c) ==
    LET o == job[c].op
        i == job[c].by
    IN  /\ pc[c] = "rc4" /\ Free
        /\ \/ RestoreSession(o, i) \/ GiveBackSession(o, i)
           \/ /\ ~CanRestore(o, i) /\ ~CanGiveBack(o, i)
              /\ UNCHANGED <<file, claim, op, session, recent>>
        /\ Ends(c)
        /\ UNCHANGED <<stage, settled, accepted, lock, executed, spent>>

-----------------------------------------------------------------------------
(* The facts moved on since the look: BLOCKED or FAIL_CLOSED, no write.    *)
Holds(c) ==
    LET o == job[c].op
        i == job[c].by
    IN  CASE Step(c) = "SETTLE"          -> CanSettle(c)
          [] Step(c) = "SETTLE_ROLLBACK" -> CanSettleRollback(c)
          [] Step(c) = "FINISH"          -> Finishable
          [] Step(c) = "REARM"           -> CanRearm(c)
          [] Step(c) = "PREPARE"         -> CanPrepare(o, i)
          [] Step(c) = "CLOSE"           -> CanClose(o, i)
          [] Step(c) = "APPLY"           -> Destroys(c) => Restorable

Refuse(c) ==
    /\ pc[c] = "act" /\ Free
    /\ ~Holds(c)
    /\ Ends(c)
    /\ UNCHANGED <<file, facts, recent, lock, executed, spent>>

Crash(c) ==
    /\ pc[c] # "idle"
    /\ spent.crashes < MaxCrashes
    /\ spent' = [spent EXCEPT !.crashes = @ + 1]
    /\ lock' = IF lock = c THEN None ELSE lock
    /\ Ends(c)
    /\ UNCHANGED <<file, facts, recent, executed>>
====
