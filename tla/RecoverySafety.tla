---- MODULE RecoverySafety ----
(***************************************************************************)
(* What recovery of one microtask must get right, whoever else works on it *)
(* and wherever a recover call dies.                                       *)
(***************************************************************************)
EXTENDS RecoverySystem

(* A settled ABORT or ROLLBACK keeps the stage at the manual boundary: no  *)
(* ADOPT or RETRY of a sibling, no agent report and no repeated recover    *)
(* moves it on while that settlement speaks for its operation              *)
(* (settlement_lifecycle_target, "one recovery disposition per microtask").*)
NeverLifted ==
    [][Voices \cap Destructive # {} /\ stage = "RECOVERY_REQUIRED"
          => stage' = "RECOVERY_REQUIRED"]_vars

(* A ROLLBACK of the operation is settled, and a RETRY was accepted later  *)
(* than that ROLLBACK.                                                     *)
RetriedAfterRollback(o) ==
    /\ settled[o].action = "ROLLBACK"
    /\ \E i \in DOMAIN accepted[o] : i > settled[o].by /\ Action(o, i) = "RETRY"

(* When a stage is verified no operation of it is aborted and no session   *)
(* is open, and one whose fate is open or whose rollback is settled is     *)
(* passed over only because a RETRY of it was accepted later than that     *)
(* ROLLBACK.  No more is promised: the gate does not ask whether the RETRY *)
(* ran to its end (OpenFateNeverVerified), and it may miss a rollback that *)
(* ended without being settled (verification_refusal).                     *)
VerificationRespectsRecovery ==
    [][stage # "VERIFIED" /\ stage' = "VERIFIED" =>
          \A o \in Ops :
              /\ ~Aborted(o) /\ OpenSessions(o) = {}
              /\ op[o].status \in OpenFate \/ settled[o].action = "ROLLBACK"
                    => RetriedAfterRollback(o)]_vars

(* What never executed is never restored: whoever asks for the rollback,   *)
(* and although an aborted stage looks like one that failed, bytes change  *)
(* only for a stage that was ACTIVE once and is not verified               *)
(* (rollback_refusal, Repair #4B).                                         *)
NeverExecutedNeverRestored ==
    [][\A o \in Ops : \A i \in 1..MaxResolutions :
          session[o][i] # "RESTORED" /\ session'[o][i] = "RESTORED"
              => executed /\ stage # "VERIFIED"]_vars

(* A settlement is final in both directions: after it no rollback of that  *)
(* operation restores anything, and its own record never changes           *)
(* (_settle_recovery_locked, _no_open_rollback_locked).                    *)
NoRestoreAfterSettlement ==
    [][\A o \in Ops : IsSettled(o) =>
          /\ settled'[o] = settled[o]
          /\ \A i \in 1..MaxResolutions :
                session'[o][i] = "RESTORED" => session[o][i] = "RESTORED"]_vars

(* A settled ABORT or ROLLBACK that died after its first write.            *)
HalfDone(o) ==
    /\ SettlementSpeaks(o) /\ settled[o].action \in Destructive
    /\ ~Contradicted(o) /\ ~Completed(o)

(* It can always be completed: whatever happened since the crash, the step *)
(* recover asks for is the one that finishes it and the stage it finds is  *)
(* one the settlement may leave, or a preparation has to end first         *)
(* (_finish_settlement, _settlement_rule).                                 *)
HalfDoneCompletable ==
    \A o \in Ops :
        HalfDone(o) /\ OpenSessions(o) = {} /\ stage # "PREPARING"
            => Recovery(o) = "FINISH" /\ Finishable

-----------------------------------------------------------------------------
(* What the code says of itself and does not keep.                         *)

(* "Refused while any operation of the microtask has an open mutation      *)
(* fate" (microtask_gate.py:447).                                          *)
OpenFateNeverVerified ==
    [][stage # "VERIFIED" /\ stage' = "VERIFIED" => \A o \in Ops : op[o].status \notin OpenFate]_vars

(* "ABORT never changes the operation status, so it settles an operation   *)
(* in any status; an accepted ABORT ... is no longer an endless            *)
(* FAIL_CLOSED loop" (operation_store.py:945).                             *)
AbortSettles == \A o \in Ops : Aborted(o) ~> IsSettled(o)
====
