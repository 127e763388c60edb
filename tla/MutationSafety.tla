---- MODULE MutationSafety ----
(***************************************************************************)
(* What the control plane promises about physical mutation, as invariants, *)
(* action properties and liveness of MutationExecution.                    *)
(***************************************************************************)
EXTENDS MutationExecution

(* A physical write happens only under authority that cannot move while it *)
(* lasts: whoever is between the boundary's compare-and-set and its end    *)
(* works alone on that TASK and that target, still holds the claim it was  *)
(* granted, and its TASK is open, ACTIVE and carries no accepted ABORT of  *)
(* any operation (mutation_boundary, target_claim_service.py; F-C and      *)
(* WA-014 in microtask_gate.py).                                           *)
Exclusive(w) ==
    \A v \in Workers \ {w} :
        pc[v] \in InBoundary =>
            /\ TaskOf[call[v].op] # TaskOf[call[w].op]
            /\ TargetOf[call[v].op] # TargetOf[call[w].op]

AuthorityHolds ==
    \A w \in Workers :
        pc[w] \in InBoundary =>
            LET o == call[w].op
                k == TaskOf[o]
            IN  /\ Exclusive(w)
                /\ Own(o) /\ active[TargetOf[o]].gen = call[w].claim
                /\ open[k] /\ stage[k] = "ACTIVE"
                /\ \A p \in OpsOf(k) : ~Aborted(p)

(* No effect without a durable trace, and nobody else may own a target     *)
(* whose bytes may or may not be this operation's: an operation that has   *)
(* written is past INTENT, and while its fate is open it keeps the target  *)
(* until an accepted ABORT or ADOPT has spoken, or a tracked rollback has  *)
(* taken the target over and ended: verified, with the effect gone, or     *)
(* closed before that (release, target_claim_service.py; _acquire_all and  *)
(* close, rollback_service.py).                                            *)
Spoken(o)    == \E i \in DOMAIN accepted[o] : accepted[o][i].action \in {"ABORT", "ADOPT"}
Undone(o)    == author[TargetOf[o]] # o /\ \E i \in DOMAIN accepted[o] : <<o, i, "VERIFIED">> \in rollbacks
Abandoned(o) == \E i \in DOMAIN accepted[o] : <<o, i, "CLOSED">> \in rollbacks

EffectAccounted ==
    \A o \in Ops :
        writes[o] > 0 =>
            /\ rec[o].status \notin {"NONE", "INTENT"}
            /\ rec[o].status \in OpenFate /\ ~Spoken(o) /\ ~Undone(o) /\ ~Abandoned(o) => Own(o)

(* A VERIFIED microtask has a written operation of open fate only where    *)
(* the gate looks no further (microtask_gate.py:463): its effect was       *)
(* undone, that was settled, and a RETRY of it was accepted afterwards.    *)
(* None of any other kind can appear later (verification_refusal, F-B).    *)
VerifiedStageSettled ==
    \A o \in Ops :
        /\ stage[TaskOf[o]] = "VERIFIED"
        /\ writes[o] > 0
        /\ rec[o].status \in OpenFate
        => Overtaken(o)

(* A completed TASK leaves nothing behind: none of its operations owns a   *)
(* target, and whatever one of them has written is VERIFIED, given up as   *)
(* FAILED, or was settled and closed by an accepted ABORT                  *)
(* (closeout_blockers; a late delivery must find the door closed).         *)
ClosedTaskOwnsNothing ==
    \A o \in Ops :
        ~open[TaskOf[o]] =>
            /\ ~Own(o)
            /\ writes[o] > 0 =>
                  rec[o].status \in {"VERIFIED", "FAILED"} \/ (Aborted(o) /\ IsSettled(o))

(* A claim basis (operation, revision) that was released never owns the    *)
(* target again (SAME_BASIS_ALREADY_RELEASED, RC-3).                       *)
ReleasedBasisNeverReowned ==
    \A t \in Targets : <<active[t].op, active[t].rev>> \notin released

-----------------------------------------------------------------------------
(* An operation writes a second time only on an accepted RETRY of its      *)
(* present revision, decided on the evidence that its first effect is not  *)
(* there (at-most-once without a decision: _drive, _authoritative_retry).  *)
RepeatIsDecided(o) ==
    writes'[o] > writes[o] /\ writes[o] > 0 =>
        \E i \in DOMAIN accepted[o] :
            /\ accepted[o][i].action = "RETRY"
            /\ accepted[o][i].rev = rec[o].rev
            /\ accepted[o][i].view[TargetOf[o]] = InitialBytes[TargetOf[o]]

NoBlindRepeat == [][\A o \in Ops : RepeatIsDecided(o)]_vars

(* No lost update between tracked mutations: bytes another operation put   *)
(* there are replaced only by an operation that observed exactly those     *)
(* bytes as its contract's pre-state (the pre-state comparison of _cas,    *)
(* held until the end of the window by the boundary's locks).              *)
ReplacesWhatItSaw(o) ==
    writes'[o] > writes[o] =>
        file[TargetOf[o]] = rec[o].pre \/ author[TargetOf[o]] = None

NoLostUpdate == [][\A o \in Ops : ReplacesWhatItSaw(o)]_vars

-----------------------------------------------------------------------------
(* Every delivery of a request ends: no cycle of refusals, no wait for a   *)
(* lock that does not end.                                                 *)
RequestsTerminate == \A w \in Workers : pc[w] # "idle" ~> pc[w] = "idle"

(* A boundary gives its locks back whichever way it ends.                  *)
LocksReturned ==
    /\ \A k \in Tasks : ~(TaskFree(k) /\ LifeFree(k)) ~> TaskFree(k) /\ LifeFree(k)
    /\ \A t \in Targets : ~TargetFree(t) ~> TargetFree(t)

-----------------------------------------------------------------------------
(* What a client sees of all this: the fate of an operation, not how many  *)
(* workers, deliveries and decisions it took.                              *)
FateOf(status) ==
    CASE status = "NONE"     -> "none"
      [] status = "INTENT"   -> "declared"
      [] status \in OpenFate -> "begun"
      [] status = "DONE"     -> "made"
      [] status = "VERIFIED" -> "verified"
      [] status = "FAILED"   -> "failed"

Promise == INSTANCE MutationPromise WITH
    Origin    <- InitialBytes,
    Goal      <- [o \in Ops |-> Post(o)],
    content   <- file,
    holder    <- [t \in Targets |-> active[t].op],
    fate      <- [o \in Ops |-> FateOf(rec[o].status)],
    seen      <- [o \in Ops |-> rec[o].pre],
    untracked <- {t \in Targets : author[t] = None},
    decided   <- {o \in Ops : Spoken(o)},
    halted    <- {k \in Tasks : \E o \in OpsOf(k) : Aborted(o)},
    closed    <- {k \in Tasks : ~open[k]}

(* Every behaviour of the workers, the agents and the outside world is one *)
(* of targets changed by their single owner, from declared to announced    *)
(* bytes (mutation_executor.py, target_claim_service.py).                  *)
ImplementsPromise == Promise!Spec
====
