---- MODULE RecoveryOutcome ----
(***************************************************************************)
(* What recover (RC-6) and the tracked rollback (RC-4) do to the control   *)
(* plane the mutation executor works on: an accepted ABORT or ADOPT and a  *)
(* verified rollback are settled, a settlement that died half way is       *)
(* finished, a RETRY is re-armed, a ROLLBACK is carried out.               *)
(*                                                                         *)
(* Each action is one locked section.  What recover saw before it took the *)
(* locks is left open: only the proof under the locks counts.  How a       *)
(* rollback session gets from its first claim to its last through deaths   *)
(* is RollbackApply's subject, how recover chooses its step and completes  *)
(* a settlement through deaths is RecoveryCoordination's.                  *)
(***************************************************************************)
EXTENDS TargetClaims

SetStage(k, s) ==
    /\ stage' = [stage EXCEPT ![k] = s]
    /\ UNCHANGED <<file, rec, accepted, settled, rollbacks, open, intact, asked,
                   claims, locks, procs, history, spent>>

(* Every target of the restore point locked, and nobody else's.            *)
TargetsFree(k) == \A t \in Manifest(k) : TargetFree(t)
Unowned(o)     == \A t \in Manifest(TaskOf[o]) : active[t].op \in {None, o}

Authoritative(o, i) == Fresh(o, i) /\ \A j \in DOMAIN accepted[o] : j > i => ~Fresh(o, j)

-----------------------------------------------------------------------------
(* Settlement: operation record first, microtask second; the claim is      *)
(* released by RC-3 afterwards.                                            *)

(* ADOPT proves authority and bytes again while every target is locked.    *)
Adoptable(o, i) ==
    /\ ~Aborted(o) /\ Authoritative(o, i)
    /\ TargetsFree(TaskOf[o]) /\ Unowned(o)
    /\ rec[o].status \in OpenFate \cup {"DONE"}
    /\ file[TargetOf[o]] = Post(o)

Settleable(o, i) ==
    CASE accepted[o][i].action = "ABORT"    -> TRUE
      [] accepted[o][i].action = "ADOPT"    -> Adoptable(o, i)
      [] accepted[o][i].action = "ROLLBACK" ->
            <<o, i, "VERIFIED">> \in rollbacks /\ rec[o].status \in OpenFate \cup {"INTENT", "DONE"}
      [] OTHER                              -> FALSE

(* The record is settled once, on the revision the decision was made for.  *)
RecordSettlement(o, i) ==
    /\ rec[o].status # "NONE" /\ ~IsSettled(o)
    /\ accepted[o][i].rev = rec[o].rev
    /\ settled' = [settled EXCEPT ![o] =
                      [action |-> accepted[o][i].action, by |-> i, seen |-> stage[TaskOf[o]]]]
    /\ rec' = [rec EXCEPT ![o] =
                  [status |-> IF accepted[o][i].action = "ADOPT" THEN "VERIFIED" ELSE @.status,
                   rev    |-> @.rev + 1,
                   pre    |-> @.pre]]

(* The coordinator may die between the two writes.                         *)
SettleRecovery(o) ==
    LET k == TaskOf[o]
    IN  /\ open[k]
        /\ TaskFree(k) /\ LifeFree(k)
        /\ \E i \in DOMAIN accepted[o] :
              LET A == Voices(k) \cup {accepted[o][i].action}
              IN  /\ Settleable(o, i)
                  /\ stage[k] \in Sources(k, A)
                  /\ RecordSettlement(o, i)
                  /\ \/ /\ stage' = [stage EXCEPT ![k] = LifecycleTarget(k, A)]
                        /\ UNCHANGED spent
                     \/ /\ spent.crashes < MaxCrashes
                        /\ spent' = [spent EXCEPT !.crashes = @ + 1]
                        /\ UNCHANGED stage
        /\ UNCHANGED <<file, accepted, rollbacks, open, intact, asked, claims, locks, procs, history>>

(* _finish_settlement: the microtask goes where the settlements want it.   *)
FinishSettlement(k) ==
    /\ open[k]
    /\ TaskFree(k) /\ LifeFree(k)
    /\ Voices(k) # {}
    /\ stage[k] \in Sources(k, Voices(k)) \ {LifecycleTarget(k, Voices(k))}
    /\ SetStage(k, LifecycleTarget(k, Voices(k)))

(* RC-6 re-arms the stage of an accepted RETRY, holding every target lock  *)
(* of the restore point so that no other TASK changes the evidence.        *)
RearmRetry(k) ==
    /\ TaskFree(k) /\ LifeFree(k)
    /\ TargetsFree(k)
    /\ \E o \in OpsOf(k) : Current(o, "RETRY") /\ Unowned(o)
    /\ ~DestructiveDisposition(k)
    /\ stage[k] \in {"UNKNOWN_AFTER_DISCONNECT", "RECOVERY_REQUIRED", "FAILED_VERIFICATION"}
    /\ SetStage(k, "ACTIVE")

-----------------------------------------------------------------------------
(* The tracked rollback of an accepted ROLLBACK.                           *)

(* Only a stage that has executed and is not verified is rolled back.      *)
Restorable(k) ==
    /\ stage[k] \notin PreExecution \cup {"VERIFIED"}
    /\ \A o \in OpsOf(k) : settled[o].seen \notin PreExecution

Undoable(o, i) ==
    /\ accepted[o][i].action = "ROLLBACK"
    /\ Fresh(o, i) /\ ~Aborted(o)
    /\ \A e \in RollbackEnd : <<o, i, e>> \notin rollbacks
    /\ Restorable(TaskOf[o])

(* RC-6 puts the stage at the manual boundary before bytes may change; a   *)
(* rollback asked for directly does not.                                   *)
RollbackPreflight(o) ==
    LET k == TaskOf[o]
    IN  /\ TaskFree(k) /\ LifeFree(k)
        /\ \E i \in DOMAIN accepted[o] : Undoable(o, i)
        /\ SetStage(k, "RECOVERY_REQUIRED")

(* The session owns all targets of the restore point, the operation's own  *)
(* claim taken over, until it has restored and proved them all or is       *)
(* closed with some of them restored; afterwards it owns none.             *)
Restore(o) ==
    LET k == TaskOf[o]
    IN  /\ TaskFree(k) /\ TargetsFree(k)
        /\ Unowned(o)
        /\ \E i \in DOMAIN accepted[o], e \in RollbackEnd, S \in SUBSET Manifest(k) :
              /\ Undoable(o, i)
              /\ e = "VERIFIED" => S = Manifest(k)
              /\ rollbacks' = rollbacks \cup {<<o, i, e>>}
              /\ file' = [t \in Targets |-> IF t \in S THEN InitialBytes[t] ELSE file[t]]
              /\ author' = [t \in Targets |->
                               IF t \in S /\ (file[t] # InitialBytes[t] \/ author[t] = o)
                               THEN None ELSE author[t]]
        /\ active' = [t \in Targets |-> IF t \in Manifest(k) THEN NoClaim ELSE active[t]]
        /\ generation' = [t \in Targets |->
                             IF t \in Manifest(k) THEN generation[t] + 1 ELSE generation[t]]
        /\ UNCHANGED <<rec, accepted, settled, stage, open, intact, asked, released,
                       locks, procs, writes, spent>>
====
