---- MODULE Lifecycle ----
(***************************************************************************)
(* Every writer of the control plane that runs concurrently with the       *)
(* mutation executor: the microtask state machine and its recovery gates,  *)
(* the operation lifecycle API, the closeout of a TASK, and the outside    *)
(* world (an editor changing a target, a restore point losing its          *)
(* integrity); recovery is in RecoveryOutcome.                             *)
(***************************************************************************)
EXTENDS RecoveryOutcome

-----------------------------------------------------------------------------
(* The microtask state machine (WA-2.2) and its gates.                     *)

(* What a transition may do under the mutation lock alone.                 *)
Moves ==
    {<<"ACTIVE", "DONE">>, <<"ACTIVE", "UNKNOWN_AFTER_DISCONNECT">>,
     <<"DONE", "FAILED_VERIFICATION">>, <<"DONE", "UNKNOWN_AFTER_DISCONNECT">>,
     <<"UNKNOWN_AFTER_DISCONNECT", "RECOVERY_REQUIRED">>}

StageMove(k) ==
    /\ open[k] /\ LifeFree(k)
    /\ \E s \in MicrotaskStatus : <<stage[k], s>> \in Moves /\ SetStage(k, s)

(* ACTIVE is asked for: the restore point is verified before any lock is   *)
(* taken.  A request that passed may be delayed and still arrive later.    *)
AskActivation(k) ==
    /\ open[k] /\ intact[k]
    /\ stage[k] \in Startable
    /\ asked' = asked \cup {<<k, stage[k]>>}
    /\ UNCHANGED <<file, rec, accepted, settled, rollbacks, stage, open, intact, claims, locks, procs, history, spent>>

(* The same request meeting a broken restore point blocks the microtask.   *)
BlockPreparation(k) ==
    /\ open[k] /\ ~intact[k]
    /\ stage[k] \in Startable
    /\ LifeFree(k)
    /\ SetStage(k, "BLOCKED_PREPARE")

(* The locked compare-and-set of a request decided on the present status.  *)
Activate(k) ==
    /\ open[k]
    /\ TaskFree(k) /\ LifeFree(k)
    /\ <<k, stage[k]>> \in asked
    /\ ~DestructiveDisposition(k)
    /\ SetStage(k, "ACTIVE")

(* Something is still to be carried out for an operation that is not       *)
(* aborted: a fresh resolution, or a settled rollback that nothing has     *)
(* followed.  A rollback that ended and is not settled is no obstacle to   *)
(* rely on: any outcome recorded after it, a rejected one too, hides it.   *)
OpenRecovery(o) ==
    \/ \E i \in DOMAIN accepted[o] : Fresh(o, i)
    \/ "ROLLBACK" \in Voice(o)

(* Mutant: the fate of an operation is not looked at. *)
VerifiableByRecovery(k) == \A o \in OpsOf(k) : ~Aborted(o) /\ ~OpenRecovery(o)

(* verification_refusal: an open fate counts only while it is unsettled.   *)
Verifiable(k) ==
    \A o \in OpsOf(k) :
        /\ rec[o].status \in OpenFate => IsSettled(o)
        /\ ~Aborted(o) /\ ~OpenRecovery(o)

Verify(k) ==
    /\ open[k]
    /\ TaskFree(k) /\ LifeFree(k)
    /\ stage[k] = "DONE"
    /\ Verifiable(k)
    /\ SetStage(k, "VERIFIED")

-----------------------------------------------------------------------------
(* Operation lifecycle requests of an external agent.                      *)

Allowed ==
    {<<"INTENT", "STARTED">>, <<"INTENT", "FAILED">>, <<"INTENT", "UNKNOWN">>,
     <<"STARTED", "DONE">>, <<"STARTED", "FAILED">>, <<"STARTED", "UNKNOWN">>,
     <<"DONE", "VERIFIED">>, <<"DONE", "FAILED">>}

(* Mutant: the revision is lost on every step. *)
TransitionCountsDown(o, s) ==
    /\ open[TaskOf[o]]
    /\ <<rec[o].status, s>> \in Allowed
    /\ s = "DONE" => file[TargetOf[o]] = Post(o)
    /\ rec' = [rec EXCEPT ![o] = [status |-> s, rev |-> @.rev - 1, pre |-> @.pre]]

(* One lifecycle step of a record; DONE needs the exact post-state.        *)
Transition(o, s) ==
    /\ open[TaskOf[o]]
    /\ <<rec[o].status, s>> \in Allowed
    /\ s = "DONE" => file[TargetOf[o]] = Post(o)
    /\ rec' = [rec EXCEPT ![o] = [status |-> s, rev |-> @.rev + 1, pre |-> @.pre]]

ApiTransition(o) ==
    /\ o \in Driven
    /\ TaskFree(TaskOf[o])
    /\ \E s \in OperationStatus : Transition(o, s)
    /\ UNCHANGED <<file, accepted, settled, rollbacks, stage, open, intact, asked, claims, locks, procs, history, spent>>

-----------------------------------------------------------------------------
(* Closeout: the gate is evaluated and the TASK moved under both locks.    *)

(* An accepted ABORT, once settled, closes an operation of any status; any *)
(* other operation must have a terminal one and nothing left to recover.   *)
Concluded(o) ==
    IF Aborted(o) THEN IsSettled(o)
    ELSE rec[o].status \in {"NONE", "VERIFIED", "FAILED"} /\ ~OpenRecovery(o)

(* Mutant: closeout without the ACTIVE_CLAIM blocker. *)
ClosableWhileOwning(k) == stage[k] = "VERIFIED" /\ \A o \in OpsOf(k) : Concluded(o)

Closable(k) ==
    /\ stage[k] = "VERIFIED"
    /\ \A o \in OpsOf(k) : Concluded(o) /\ ~Own(o)

CloseTask(k) ==
    /\ open[k]
    /\ TaskFree(k) /\ LifeFree(k)
    /\ Closable(k)
    /\ open' = [open EXCEPT ![k] = FALSE]
    /\ UNCHANGED <<file, rec, accepted, settled, rollbacks, stage, intact, asked, claims, locks, procs, history, spent>>

-----------------------------------------------------------------------------
(* The outside world: it takes no lock.                                    *)

ForeignEdit(t) ==
    /\ spent.edits < MaxForeignEdits
    /\ \E b \in ForeignBytes \ {file[t]} : file' = [file EXCEPT ![t] = b]
    /\ author' = [author EXCEPT ![t] = None]
    /\ spent' = [spent EXCEPT !.edits = @ + 1]
    /\ UNCHANGED <<rec, accepted, settled, rollbacks, stage, open, intact, asked, claims, locks, procs, writes>>

RestorePointBreaks(k) ==
    /\ k \in Breakable
    /\ intact[k]
    /\ intact' = [intact EXCEPT ![k] = FALSE]
    /\ UNCHANGED <<file, rec, accepted, settled, rollbacks, stage, open, asked, claims, locks, procs, history, spent>>
====
