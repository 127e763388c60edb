---- MODULE RecoverySystem ----
(***************************************************************************)
(* Everything else that writes the facts recover decides on, and the       *)
(* specification.                                                          *)
(***************************************************************************)
EXTENDS RecoveryCoordination

-----------------------------------------------------------------------------
(* The microtask: preparation and the state machine with its gates.        *)

SetStage(s) ==
    /\ stage' = s
    /\ UNCHANGED <<file, claim, op, settled, accepted, session, recent, process>>

(* A preparation that runs or was interrupted ends; one that was blocked   *)
(* is asked for again.                                                     *)
PreparationEnds ==
    /\ Free /\ stage = "PREPARING"
    /\ \E s \in {"READY", "BLOCKED_PREPARE"} : SetStage(s)
    /\ UNCHANGED <<executed, spent>>

PrepareAgain ==
    /\ Free /\ stage = "BLOCKED_PREPARE"
    /\ spent.preparations < MaxPreparations
    /\ SetStage("PREPARING")
    /\ spent' = [spent EXCEPT !.preparations = @ + 1]
    /\ UNCHANGED executed

Activate ==
    /\ Free /\ stage \in {"READY", "FAILED_VERIFICATION"}
    /\ ~Disposed
    /\ SetStage("ACTIVE")
    /\ executed' = TRUE
    /\ UNCHANGED spent

Moves ==
    {<<"ACTIVE", "DONE">>, <<"ACTIVE", "UNKNOWN_AFTER_DISCONNECT">>,
     <<"DONE", "FAILED_VERIFICATION">>, <<"DONE", "UNKNOWN_AFTER_DISCONNECT">>,
     <<"UNKNOWN_AFTER_DISCONNECT", "RECOVERY_REQUIRED">>}

StageMove ==
    /\ Free
    /\ \E s \in Reported : <<stage, s>> \in Moves /\ SetStage(s)
    /\ UNCHANGED <<executed, spent>>

(* Only advice is left: a stale resolution, or a rollback that ended and   *)
(* is not settled, which any request rejected after it hides.              *)
Stale(o) ==
    /\ OpenSessions(o) = {} /\ ~SettlementSpeaks(o)
    /\ Authority(o) # 0 /\ ~InForce(o, Authority(o))

(* Mutant: any settlement is taken for an accepted effect. *)
AnySettlement(o) == OpenSessions(o) = {} /\ IsSettled(o) /\ Authority(o) = settled[o].by

(* Nothing but the release of an accepted effect is left.                  *)
AcceptedEffect(o) ==
    /\ OpenSessions(o) = {}
    /\ IsSettled(o) /\ Authority(o) = settled[o].by
    /\ EffectiveTarget(Voices) = "DONE"

(* verification_refusal: an open fate counts only while it is unsettled.   *)
Verifiable ==
    \A o \in Ops :
        /\ op[o].status \in OpenFate => IsSettled(o)
        /\ Recovery(o) = "NONE" \/ Stale(o) \/ AcceptedEffect(o)

Verify ==
    /\ Free /\ stage = "DONE"
    /\ Verifiable
    /\ SetStage("VERIFIED")
    /\ UNCHANGED <<executed, spent>>

-----------------------------------------------------------------------------
(* Operations and their resolutions.                                       *)

Resolve(o, a) ==
    LET basis == [action |-> a, rev |-> op[o].rev, view |-> file]
    IN  /\ Free
        /\ ~Aborted(o) /\ AdmittedNow(o, a)
        /\ a # "ABORT" => Decision(o) = a
        /\ \A i \in DOMAIN accepted[o] : accepted[o][i] # basis
        /\ Len(accepted[o]) < IF o \in Once THEN 1 ELSE MaxResolutions
        /\ accepted' = [accepted EXCEPT ![o] = Append(@, basis)]
        /\ Touch(o)
        /\ UNCHANGED <<file, claim, stage, op, settled, session, process, executed, spent>>

(* A declared operation, or a STARTED one re-armed by a fresh RETRY.       *)
Eligible(o) ==
    LET fresh == {i \in DOMAIN accepted[o] : Fresh(o, i)}
    IN  /\ ~Aborted(o)
        /\ \/ op[o].status = "INTENT"
           \/ op[o].status = "STARTED" /\ Action(o, Latest(fresh)) = "RETRY"

(* The executor: STARTED is durable first; the effect may be missing, the  *)
(* receipt as well; with the receipt the claim is released.                *)
Execute(o) ==
    LET t     == TargetOf[o]
        start == IF op[o].status = "INTENT" THEN 1 ELSE 0
    IN  /\ Free /\ stage = "ACTIVE" /\ ~Disposed
        /\ Eligible(o)
        /\ ~SessionOwns /\ claim[t] \in {None, o}
        /\ AtPre(t)
        /\ \/ /\ file' = [file EXCEPT ![t] = Payload[o]]
              /\ op' = [op EXCEPT ![o] = [status |-> "DONE", rev |-> @.rev + start + 1]]
              /\ claim' = [claim EXCEPT ![t] = None]
           \/ /\ file' \in {file, [file EXCEPT ![t] = Payload[o]]}
              /\ op' = [op EXCEPT ![o] = [status |-> "STARTED", rev |-> @.rev + start]]
              /\ claim' = [claim EXCEPT ![t] = o]
        /\ Touch(o)
        /\ UNCHANGED <<stage, settled, accepted, session, process, executed, spent>>

Allowed ==
    {<<"INTENT", "STARTED">>, <<"INTENT", "FAILED">>, <<"INTENT", "UNKNOWN">>,
     <<"STARTED", "DONE">>, <<"STARTED", "FAILED">>, <<"STARTED", "UNKNOWN">>,
     <<"DONE", "VERIFIED">>, <<"DONE", "FAILED">>}

ApiTransition(o) ==
    /\ Free
    /\ \E s \in OperationStatus :
          /\ <<o, s>> \in Driven
          /\ <<op[o].status, s>> \in Allowed
          /\ s = "DONE" => file[TargetOf[o]] = Payload[o]
          /\ op' = [op EXCEPT ![o] = [status |-> s, rev |-> @.rev + 1]]
    /\ Touch(o)
    /\ UNCHANGED <<file, claim, stage, settled, accepted, session, process, executed, spent>>

OpRelease(o) ==
    /\ Free /\ Releasable(o)
    /\ EndClaim(o)
    /\ UNCHANGED <<file, stage, op, settled, accepted, session, recent, process, executed, spent>>

ForeignEdit(t, bytes) ==
    /\ spent.edits < MaxForeignEdits
    /\ file[t] # bytes
    /\ file' = [file EXCEPT ![t] = bytes]
    /\ spent' = [spent EXCEPT !.edits = @ + 1]
    /\ UNCHANGED <<facts, recent, process, executed>>

-----------------------------------------------------------------------------
Act(c) ==
    \/ Settle(c) \/ SettleLifecycle(c) \/ SettleRelease(c)
    \/ FinishSettlement(c) \/ RearmRetry(c)
    \/ PrepareRollback(c) \/ CloseRollback(c) \/ StagePreflight(c) \/ ApplyRollback(c)
    \/ Refuse(c)

Next ==
    \/ \E c \in Coordinators : Look(c) \/ Act(c) \/ Crash(c)
    \/ PreparationEnds \/ PrepareAgain \/ Activate \/ StageMove \/ Verify
    \/ \E o \in Ops :
          \/ \E a \in Actions : Resolve(o, a)
          \/ Execute(o) \/ ApiTransition(o) \/ OpRelease(o) \/ (o \in Direct /\ RollbackRequest(o))
    \/ \E e \in Edits : ForeignEdit(e[1], e[2])

Spec == Init /\ [][Next]_vars

(* recover is called again as long as it asks for a step, and a call that  *)
(* runs goes on; a preparation ends or is reconciled.                      *)
FairSpec ==
    /\ Spec
    /\ \A c \in Coordinators : WF_vars(Look(c)) /\ WF_vars(Act(c))
    /\ WF_vars(PreparationEnds)
====
