---- MODULE Resolver ----
(***************************************************************************)
(* RC-2: reconciliation evidence, the deterministic decision on it, and    *)
(* the accepted resolutions (ADOPT, RETRY, ROLLBACK, ABORT) bound to the   *)
(* exact evidence and operation revision they were decided on.             *)
(***************************************************************************)
EXTENDS ControlPlane

(* Restore-point bytes are the pre-state.  What a target is expected to    *)
(* become is exact for the operation's own one (its contract) and for an   *)
(* entry that is to be deleted; any other entry is described in free text, *)
(* so a change of it cannot be classified.                                 *)
Known(o, t)    == t = TargetOf[o] \/ t \in Deletions
Expected(o, t) == IF t = TargetOf[o] THEN Post(o) ELSE Absent

Classification(o, t) ==
    CASE file[t] = InitialBytes[t]                         -> "PRE_STATE"
      [] file[t] # InitialBytes[t] /\ Known(o, t)
           /\ file[t] = Expected(o, t)                     -> "EXPECTED_POST_STATE"
      [] file[t] # InitialBytes[t] /\ Known(o, t)
           /\ file[t] # Expected(o, t)                     -> "DRIFT"
      [] file[t] # InitialBytes[t] /\ ~Known(o, t)         -> "CHANGED_UNCLASSIFIED"

ExpectedPostComplete(o) == \A t \in Manifest(TaskOf[o]) : Known(o, t)

(* The decision: what the evidence alone allows, MANUAL_REVIEW otherwise.  *)
Decision(o) ==
    LET seen   == {Classification(o, t) : t \in Manifest(TaskOf[o])}
        status == rec[o].status
    IN  CASE /\ intact[TaskOf[o]]
             /\ seen = {"EXPECTED_POST_STATE"}
             /\ ExpectedPostComplete(o)
             /\ status # "INTENT"                          -> "ADOPT"
          [] /\ intact[TaskOf[o]]
             /\ seen = {"PRE_STATE", "EXPECTED_POST_STATE"}
             /\ status \notin {"INTENT", "VERIFIED"}       -> "ROLLBACK"
          [] /\ intact[TaskOf[o]]
             /\ seen = {"PRE_STATE"}
             /\ \/ status = "INTENT"
                \/ /\ status \in {"STARTED", "UNKNOWN", "FAILED"}
                   /\ ExpectedPostComplete(o)
                   /\ InitialBytes[TargetOf[o]] # Post(o)  -> "RETRY"
          [] OTHER                                         -> "MANUAL_REVIEW"

(* Mutant: a basis of an older operation revision still counts as fresh.   *)
FreshAtAnyRevision(o, i) ==
    /\ open[TaskOf[o]]
    /\ accepted[o][i].view = View(TaskOf[o])
    /\ accepted[o][i].intact = intact[TaskOf[o]]

(* The basis of a resolution is still the current evidence. *)
Fresh(o, i) ==
    /\ open[TaskOf[o]]
    /\ accepted[o][i].rev = rec[o].rev
    /\ accepted[o][i].view = View(TaskOf[o])
    /\ accepted[o][i].intact = intact[TaskOf[o]]

Aborted(o) == \E i \in DOMAIN accepted[o] : accepted[o][i].action = "ABORT"

(* The latest fresh accepted resolution of o is an `a`. *)
Current(o, a) ==
    \E i \in DOMAIN accepted[o] :
        /\ accepted[o][i].action = a
        /\ Fresh(o, i)
        /\ \A j \in DOMAIN accepted[o] : j > i => ~Fresh(o, j)

AnyFresh(o, a) == \E i \in DOMAIN accepted[o] : accepted[o][i].action = a /\ Fresh(o, i)

-----------------------------------------------------------------------------
(* One recovery disposition per microtask (RC-6, microtask_gate).          *)

IsSettled(o) == settled[o] # Unsettled

(* What may still be accepted for an operation that is settled.            *)
Admits(a) ==
    CASE a = "ADOPT"    -> {"ABORT"}
      [] a = "ROLLBACK" -> {"ABORT", "RETRY"}
      [] OTHER          -> {}

(* A rolled back operation that may be executed again: its settlement has  *)
(* no say any more.                                                        *)
Overtaken(o) ==
    /\ settled[o].action = "ROLLBACK"
    /\ \E i \in DOMAIN accepted[o] : i > settled[o].by /\ accepted[o][i].action = "RETRY"

(* What a settlement says of its operation now: a late ABORT speaks for it. *)
Voice(o) ==
    CASE ~IsSettled(o)                              -> {}
      [] IsSettled(o) /\ Aborted(o)                 -> {"ABORT"}
      [] IsSettled(o) /\ ~Aborted(o) /\ Overtaken(o) -> {}
      [] OTHER                                      -> {settled[o].action}

Voices(k) == UNION {Voice(o) : o \in OpsOf(k)}

(* An accepted ABORT, a settled ROLLBACK that still speaks, or a ROLLBACK  *)
(* that is authority now, of any operation, speaks for the whole microtask. *)
DestructiveDisposition(k) ==
    \E o \in OpsOf(k) : Aborted(o) \/ "ROLLBACK" \in Voice(o) \/ Current(o, "ROLLBACK")

(* The status a set of settlements asks for: the conservative one wins; a  *)
(* VERIFIED microtask absorbs what undoes nothing.                         *)
LifecycleTarget(k, A) ==
    IF stage[k] = "VERIFIED" /\ "ROLLBACK" \notin A THEN "VERIFIED"
    ELSE IF A \cap {"ABORT", "ROLLBACK"} # {} THEN "RECOVERY_REQUIRED" ELSE "DONE"

(* The statuses a settlement may find: the one it asks for, or a source.   *)
Sources(k, A) ==
    CASE LifecycleTarget(k, A) = "VERIFIED" -> {"VERIFIED"}
      [] LifecycleTarget(k, A) = "DONE"     ->
            {"ACTIVE", "DONE", "UNKNOWN_AFTER_DISCONNECT", "RECOVERY_REQUIRED"}
      [] OTHER                              ->
            {"ACTIVE", "DONE", "UNKNOWN_AFTER_DISCONNECT", "RECOVERY_REQUIRED", "FAILED_VERIFICATION"}
              \cup (IF A = {"ABORT"} THEN PreExecution ELSE {})

-----------------------------------------------------------------------------
(* ResolverService.apply, an accepted outcome: under the TASK lock, on the *)
(* current basis, never after an ABORT, one record per logical identity.   *)
(* A REJECTED or STALE outcome grants nothing and is only history.         *)
Resolve(o, a) ==
    LET k     == TaskOf[o]
        basis == [action |-> a, rev |-> rec[o].rev, view |-> View(k), intact |-> intact[k]]
    IN  /\ rec[o].status # "NONE"
        /\ open[k]
        /\ TaskFree(k)
        /\ ~Aborted(o)
        /\ IsSettled(o) => a \in Admits(settled[o].action)
        /\ a # "ABORT" => Decision(o) = a
        /\ \A i \in DOMAIN accepted[o] : accepted[o][i] # basis
        /\ Len(accepted[o]) < MaxResolutions[o]
        /\ accepted' = [accepted EXCEPT ![o] = Append(@, basis)]
        /\ UNCHANGED <<file, rec, settled, rollbacks, stage, open, intact, asked, claims, locks, procs, history, spent>>
====
