---- MODULE Settlement ----
(***************************************************************************)
(* RC-6, the facts: what recover reads of one microtask before it takes a  *)
(* step.  Operations share the microtask; each may carry accepted          *)
(* resolutions, one settlement that is never rewritten, and a tracked      *)
(* rollback.  Authority, the aggregated disposition of the microtask and   *)
(* the next safe step are functions of these durable facts alone.          *)
(***************************************************************************)
EXTENDS Integers, Sequences, FiniteSets

CONSTANTS
    Ops,             \* operations of the microtask
    Targets,         \* targets of its restore point
    TargetOf,        \* the target of each operation
    Payload,         \* what an operation makes of its target
    Bytes, Absent,
    InitialBytes,    \* the restore point
    Deletions,       \* entries whose expected change is a deletion
    Edits,           \* bound: <<t, b>>, an outside editor may write b to t
    Coordinators,    \* recover calls that may run at the same time
    None,
    Begun,           \* the microtask is ACTIVE from the start
    Driven,          \* bound: <<o, s>>, an agent may record s of o through the API
    Direct,          \* bound: operations whose rollback is also asked for directly
    Reported,        \* bound: microtask steps an agent asks for
    MaxResolutions,  \* bound: accepted resolutions of one operation
    Once,            \* bound: operations that get a single one
    MaxForeignEdits, MaxCrashes,
    MaxPreparations  \* bound: preparations asked for again

ASSUME SettlementAssumption ==
    /\ TargetOf \in [Ops -> Targets]
    /\ Payload \in [Ops -> Bytes]
    /\ Absent \in Bytes
    /\ InitialBytes \in [Targets -> Bytes]
    /\ \A o \in Ops : Payload[o] # InitialBytes[TargetOf[o]]
    /\ Deletions \subseteq Targets
    /\ Edits \subseteq Targets \X Bytes
    /\ None \notin Ops \cup Coordinators
    /\ Begun \in BOOLEAN
    /\ MaxResolutions \in Nat \ {0}
    /\ MaxForeignEdits \in Nat /\ MaxCrashes \in Nat /\ MaxPreparations \in Nat
    /\ Once \subseteq Ops

VARIABLES
    file,      \* bytes of each target
    claim,     \* the operation that owns each target
    stage,     \* status of the microtask
    op,        \* operation record: status and revision
    settled,   \* operation record: its recovery settlement
    accepted,  \* accepted resolutions of each operation, oldest first
    session,   \* the rollback session of each accepted resolution
    recent,    \* pairs <<q, o>>: the last activity of o is later than that of q
    lock,      \* who is inside a TASK-locked section that spans several writes
    pc, job,   \* where each recover call is and the step it decided on
    executed,  \* history: the microtask has been ACTIVE
    spent      \* outside edits, crashes and preparations used so far

facts   == <<claim, stage, op, settled, accepted, session>>
process == <<lock, pc, job>>
vars    == <<file, facts, recent, process, executed, spent>>

OperationStatus == {"INTENT", "STARTED", "UNKNOWN", "DONE", "VERIFIED", "FAILED"}
OpenFate        == {"STARTED", "UNKNOWN"}
PreExecution    == {"PREPARING", "READY", "BLOCKED_PREPARE"}
RecoveryMicro   == {"UNKNOWN_AFTER_DISCONNECT", "RECOVERY_REQUIRED", "FAILED_VERIFICATION"}
MicrotaskStatus == PreExecution \cup RecoveryMicro \cup {"ACTIVE", "DONE", "VERIFIED"}
Destructive     == {"ABORT", "ROLLBACK"}
Actions         == Destructive \cup {"ADOPT", "RETRY"}
Unsettled       == [action |-> "NONE", by |-> 0, seen |-> "NONE"]
NoSessions      == [i \in 1..MaxResolutions |-> "NONE"]
SessionState    == {"NONE", "PREPARED", "RESTORED", "VERIFIED", "CLOSED"}
NoJob           == [step |-> "NONE", op |-> None, by |-> 0]
Steps           == {"SETTLE", "FINISH", "REARM", "PREPARE", "APPLY", "CLOSE", "SETTLE_ROLLBACK"}

TypeOK ==
    /\ file \in [Targets -> Bytes]
    /\ claim \in [Targets -> Ops \cup {None}]
    /\ stage \in MicrotaskStatus
    /\ op \in [Ops -> [status : OperationStatus, rev : Nat]]
    /\ settled \in [Ops -> [action : Actions \cup {"NONE"}, by : Nat, seen : MicrotaskStatus \cup {"NONE"}]]
    /\ \A o \in Ops : settled[o].by <= Len(accepted[o])
    /\ accepted \in [Ops -> Seq([action : Actions, rev : Nat, view : [Targets -> Bytes]])]
    /\ session \in [Ops -> [1..MaxResolutions -> SessionState]]
    /\ recent \subseteq Ops \X Ops
    /\ lock \in Coordinators \cup {None}
    /\ pc \in [Coordinators -> {"idle", "act", "lifecycle", "release", "rc4"}]
    /\ job \in [Coordinators -> [step : Steps \cup {"NONE"}, op : Ops \cup {None}, by : Nat]]
    /\ executed \in BOOLEAN
    /\ spent \in [edits : Nat, crashes : Nat, preparations : Nat]

Init ==
    /\ file = InitialBytes
    /\ claim = [t \in Targets |-> None]
    /\ stage = IF Begun THEN "ACTIVE" ELSE "PREPARING"
    /\ op = [o \in Ops |-> [status |-> "INTENT", rev |-> 1]]
    /\ settled = [o \in Ops |-> Unsettled]
    /\ accepted = [o \in Ops |-> <<>>]
    /\ session = [o \in Ops |-> NoSessions]
    /\ recent = {}
    /\ lock = None
    /\ pc = [c \in Coordinators |-> "idle"]
    /\ job = [c \in Coordinators |-> NoJob]
    /\ executed = Begun
    /\ spent = [edits |-> 0, crashes |-> 0, preparations |-> 0]

-----------------------------------------------------------------------------
(* Evidence and decision (RC-1).                                           *)

ExpectedPost(o, t) == IF t = TargetOf[o] THEN Payload[o] ELSE Absent
Known(o, t)        == t = TargetOf[o] \/ t \in Deletions
AtPre(t)           == file[t] = InitialBytes[t]
AtPost(o, t)       == Known(o, t) /\ ~AtPre(t) /\ file[t] = ExpectedPost(o, t)
PostComplete(o)    == \A t \in Targets : Known(o, t)

Decision(o) ==
    LET pre    == {t \in Targets : AtPre(t)}
        post   == {t \in Targets : AtPost(o, t)}
        status == op[o].status
    IN  CASE post = Targets /\ PostComplete(o) /\ status # "INTENT"              -> "ADOPT"
          [] pre \cup post = Targets /\ pre # {} /\ post # {}
               /\ status \notin {"INTENT", "VERIFIED"}                           -> "ROLLBACK"
          [] pre = Targets /\ \/ status = "INTENT"
                              \/ status \in OpenFate \cup {"FAILED"}
                                   /\ PostComplete(o)                            -> "RETRY"
          [] OTHER                                                               -> "MANUAL_REVIEW"

-----------------------------------------------------------------------------
(* Authority (RC-2).                                                       *)

Fresh(o, i)  == accepted[o][i].rev = op[o].rev /\ accepted[o][i].view = file
Aborted(o)   == \E i \in DOMAIN accepted[o] : accepted[o][i].action = "ABORT"
Latest(S)    == IF S = {} THEN 0 ELSE CHOOSE i \in S : \A j \in S : j <= i
Action(o, i) == IF i = 0 THEN "NONE" ELSE accepted[o][i].action
IsSettled(o) == settled[o] # Unsettled

(* What may still be carried out for an operation that is settled.         *)
Admits(a) ==
    CASE a = "ADOPT" -> {"ABORT"} [] a = "ABORT" -> {} [] a = "ROLLBACK" -> {"ABORT", "RETRY"}

(* Mutant: a settled operation may be resolved like any other. *)
AdmittedAnyway(o, a) == TRUE

AdmittedNow(o, a) == IsSettled(o) => a \in Admits(settled[o].action)

(* The authoritative resolution: an accepted ABORT; after a settlement the *)
(* settlement's own or a later one it admits; else the latest, fresh ones  *)
(* first.                                                                  *)
Speaking(o) ==
    IF IsSettled(o)
    THEN {i \in DOMAIN accepted[o] :
             \/ i = settled[o].by
             \/ i > settled[o].by /\ Action(o, i) \in Admits(settled[o].action)}
    ELSE DOMAIN accepted[o]

Authority(o) ==
    LET aborts == {i \in DOMAIN accepted[o] : Action(o, i) = "ABORT"}
        fresh  == {i \in Speaking(o) : Fresh(o, i)}
    IN  IF aborts # {} THEN Latest(aborts)
        ELSE IF fresh # {} THEN Latest(fresh) ELSE Latest(Speaking(o))

InForce(o, i) == i # 0 /\ i \in Speaking(o) /\ (Fresh(o, i) \/ Action(o, i) = "ABORT")

-----------------------------------------------------------------------------
(* One disposition per microtask (microtask_gate).                         *)

LateAbort(o) == IsSettled(o) /\ Aborted(o) /\ Authority(o) # settled[o].by

(* What the settlement of o still says. *)
Voice(o) ==
    CASE ~IsSettled(o)                                  -> {}
      [] IsSettled(o) /\ Authority(o) = settled[o].by   -> {settled[o].action}
      [] LateAbort(o)                                   -> {"ABORT"}
      [] OTHER                                          -> {}

Voices == UNION {Voice(o) : o \in Ops}

(* Mutant: an adopted operation decides for its siblings. *)
TargetOfAdopt(A) ==
    CASE "ADOPT" \in A             -> "DONE"
      [] A = {}                    -> "NONE"
      [] OTHER                     -> "RECOVERY_REQUIRED"

(* The conservative disposition wins, whatever the order.                  *)
LifecycleTarget(A) ==
    CASE A \cap Destructive # {}   -> "RECOVERY_REQUIRED"
      [] A = {}                    -> "NONE"
      [] A = {"ADOPT"}             -> "DONE"

EffectiveTarget(A) ==
    IF stage = "VERIFIED" /\ A # {} /\ "ROLLBACK" \notin A THEN "VERIFIED" ELSE LifecycleTarget(A)

Satisfied(s) == stage = s \/ (s = "DONE" /\ stage = "VERIFIED")

(* Mutant: one set of sources for both targets. *)
AllowedFromDone(s, A) ==
    IF s = "VERIFIED" THEN {} ELSE {"ACTIVE", "UNKNOWN_AFTER_DISCONNECT", "RECOVERY_REQUIRED", "DONE"}

(* Sources from which a settlement may move the microtask.                 *)
AllowedFrom(s, A) ==
    CASE s = "VERIFIED" -> {}
      [] s = "DONE"     -> {"ACTIVE", "UNKNOWN_AFTER_DISCONNECT", "RECOVERY_REQUIRED", "DONE"}
      [] OTHER          -> RecoveryMicro \cup {"ACTIVE", "DONE"}
                             \cup (IF A = {"ABORT"} THEN {"READY", "BLOCKED_PREPARE"} ELSE {})

OpenSessions(o) == {i \in 1..MaxResolutions : session[o][i] \in {"PREPARED", "RESTORED"}}

(* What forbids execution and activation.                                  *)
Disposed ==
    \E o \in Ops :
        \/ Voice(o) \cap Destructive # {}
        \/ Action(o, Authority(o)) \in Destructive /\ InForce(o, Authority(o))
        \/ OpenSessions(o) # {}

(* Mutant: RECOVERY_REQUIRED is proof of execution. *)
RestorableByStatus == stage \in RecoveryMicro \cup {"ACTIVE", "DONE"}

(* A stage is rolled back only if it has executed and is not verified: a   *)
(* settlement remembers the status it was decided on.                      *)
Restorable ==
    /\ stage \in RecoveryMicro \cup {"ACTIVE", "DONE"}
    /\ \A o \in Ops : settled[o].seen \notin PreExecution
====
