---- MODULE ControlPlane ----
(***************************************************************************)
(* The durable state of the Web Alarm control plane (src/web_alarm) that   *)
(* every service shares, the three kinds of inter-process lock that guard  *)
(* it, and the in-memory state of the workers that execute mutations.      *)
(*                                                                         *)
(* One TASK owns one microtask (its "stage") and the operations declared   *)
(* for it; a target is one canonical physical file.  Two TASKs may name    *)
(* the same target: only the target lock and the claim file then stand     *)
(* between them.                                                           *)
(***************************************************************************)
EXTENDS Integers, Sequences, FiniteSets

CONSTANTS
    Tasks, Ops, Targets, Workers,
    TaskOf,          \* the TASK each operation belongs to
    TargetOf,        \* the physical target each operation names
    Kind,            \* CREATE, WRITE or DELETE
    Payload,         \* the bytes a CREATE or a WRITE puts there
    Bytes,           \* every content a target may have, Absent included
    Absent,          \* the file does not exist
    InitialBytes,    \* content when the restore points were captured
    ForeignBytes,    \* what an editor outside the control plane may write
    None,            \* no owner, no operation
    Breakable,       \* bound: TASKs whose restore point may lose its integrity
    Driven,          \* bound: operations an agent drives through the API as well
    Deletions,       \* targets whose restore point entry expects a deletion
    MaxResolutions,  \* bound: accepted resolutions of each operation
    MaxForeignEdits, \* bound: edits by outside editors
    MaxCrashes       \* bound: worker process deaths

ASSUME ConstantsAssumption ==
    /\ TaskOf \in [Ops -> Tasks]
    /\ TargetOf \in [Ops -> Targets]
    /\ Kind \in [Ops -> {"CREATE", "WRITE", "DELETE"}]
    /\ Payload \in [Ops -> Bytes \ {Absent}]
    /\ Absent \in Bytes
    /\ InitialBytes \in [Targets -> Bytes]
    /\ ForeignBytes \subseteq Bytes
    /\ None \notin Ops
    /\ None \notin Workers
    /\ Breakable \subseteq Tasks
    /\ Driven \subseteq Ops
    /\ Deletions \subseteq Targets
    /\ MaxResolutions \in [Ops -> Nat]
    /\ MaxForeignEdits \in Nat
    /\ MaxCrashes \in Nat

VARIABLES
    file,        \* bytes of each target
    rec,         \* operation records: status, revision, observed pre-state
    accepted,    \* accepted resolutions of each operation, oldest first
    settled,     \* operation records: the recovery settlement, written once
    rollbacks,   \* tracked rollbacks that ended: <<operation, resolution, how>>
    active,      \* the active claim of each target, or NoClaim
    released,    \* <<operation, revision>> pairs whose claim ended RELEASED
    generation,  \* next claim generation of each target
    stage,       \* lifecycle status of each TASK's microtask
    open,        \* the TASK is active (not completed)
    intact,      \* the microtask's restore point verifies
    asked,       \* activation requests past their (unlocked) snapshot check
    taskLock, lifeLock, targetLock,   \* holder of each lock, or None
    pc, call,    \* where each worker is, and what it read on the way
    writes,      \* history: physical writes each operation has made
    author,      \* history: the operation whose bytes the target holds, or None
    spent        \* outside edits and crashes used so far

records == <<file, rec, accepted, settled, rollbacks, stage, open, intact, asked>>
claims  == <<active, released, generation>>
locks   == <<taskLock, lifeLock, targetLock>>
procs   == <<pc, call>>
history == <<writes, author>>
vars    == <<records, claims, locks, procs, history, spent>>

OperationStatus ==
    {"NONE", "INTENT", "STARTED", "DONE", "VERIFIED", "FAILED", "UNKNOWN"}
MicrotaskStatus ==
    {"READY", "ACTIVE", "DONE", "VERIFIED", "FAILED_VERIFICATION",
     "UNKNOWN_AFTER_DISCONNECT", "RECOVERY_REQUIRED", "BLOCKED_PREPARE"}
Startable == {"READY", "FAILED_VERIFICATION"}    \* where ACTIVE may be asked for
PreExecution == {"READY", "BLOCKED_PREPARE"}     \* statuses that were never ACTIVE
ResolutionAction == {"ADOPT", "RETRY", "ROLLBACK", "ABORT"}
RollbackEnd == {"VERIFIED", "CLOSED"}    \* everything restored and proved, or given up

OpenFate  == {"STARTED", "UNKNOWN"}      \* the mutation may have happened
Completed == {"DONE", "VERIFIED"}

OpsOf(k)     == {o \in Ops : TaskOf[o] = k}
Manifest(k)  == {TargetOf[o] : o \in OpsOf(k)}   \* targets of its restore point
Post(o)      == IF Kind[o] = "DELETE" THEN Absent ELSE Payload[o]
View(k)      == [t \in Manifest(k) |-> file[t]]

Unsettled == [action |-> "NONE", by |-> 0, seen |-> "NONE"]
NoClaim == [op |-> None, rev |-> 0, gen |-> 0]
NoCall  == [op |-> None, rev |-> 0, status |-> "NONE", retry |-> FALSE, claim |-> 0]

TaskFree(k)   == taskLock[k] = None
LifeFree(k)   == lifeLock[k] = None
TargetFree(t) == targetLock[t] = None

Labels == {"idle", "drive", "admit", "acquire", "boundary", "start", "write",
           "prove", "refused", "release"}
InBoundary == {"start", "write", "prove"}

Record   == [status : OperationStatus, rev : Nat, pre : Bytes]
Evidence == UNION {[Manifest(k) -> Bytes] : k \in Tasks}
Basis    == [action : ResolutionAction, rev : Nat, view : Evidence, intact : BOOLEAN]
Outcome  == [action : ResolutionAction \cup {"NONE"}, by : Nat,
             seen : MicrotaskStatus \cup {"NONE"}]
Claim    == [op : Ops \cup {None}, rev : Nat, gen : Nat]
Call     == [op : Ops \cup {None}, rev : Nat, status : OperationStatus,
             retry : BOOLEAN, claim : Nat]

RecordsOK ==
    /\ file \in [Targets -> Bytes]
    /\ rec \in [Ops -> Record]
    /\ accepted \in [Ops -> Seq(Basis)]
    /\ settled \in [Ops -> Outcome]
    /\ rollbacks \subseteq Ops \X Nat \X RollbackEnd
    /\ stage \in [Tasks -> MicrotaskStatus]
    /\ open \in [Tasks -> BOOLEAN]
    /\ intact \in [Tasks -> BOOLEAN]
    /\ asked \subseteq Tasks \X Startable

ClaimsOK ==
    /\ active \in [Targets -> Claim]
    /\ released \subseteq Ops \X Nat
    /\ generation \in [Targets -> Nat]

LocksOK ==
    /\ taskLock \in [Tasks -> Workers \cup {None}]
    /\ lifeLock \in [Tasks -> Workers \cup {None}]
    /\ targetLock \in [Targets -> Workers \cup {None}]

(* A worker that is not idle is working on an operation. *)
ProcsOK ==
    /\ pc \in [Workers -> Labels]
    /\ call \in [Workers -> Call]
    /\ \A w \in Workers : pc[w] # "idle" => call[w].op \in Ops

HistoryOK ==
    /\ writes \in [Ops -> Nat]
    /\ author \in [Targets -> Ops \cup {None}]
    /\ spent \in [edits : Nat, crashes : Nat]

TypeOK == RecordsOK /\ ClaimsOK /\ LocksOK /\ ProcsOK /\ HistoryOK

(* Every restore point is captured and verified, nothing is declared yet.  *)
Init ==
    /\ file = InitialBytes
    /\ rec = [o \in Ops |-> [status |-> "NONE", rev |-> 0, pre |-> Absent]]
    /\ accepted = [o \in Ops |-> <<>>]
    /\ settled = [o \in Ops |-> Unsettled]
    /\ rollbacks = {}
    /\ active = [t \in Targets |-> NoClaim]
    /\ released = {}
    /\ generation = [t \in Targets |-> 1]
    /\ stage = [k \in Tasks |-> "READY"]
    /\ open = [k \in Tasks |-> TRUE]
    /\ intact = [k \in Tasks |-> TRUE]
    /\ taskLock = [k \in Tasks |-> None]
    /\ lifeLock = [k \in Tasks |-> None]
    /\ targetLock = [t \in Targets |-> None]
    /\ pc = [w \in Workers |-> "idle"]
    /\ call = [w \in Workers |-> NoCall]
    /\ asked = {}
    /\ writes = [o \in Ops |-> 0]
    /\ author = [t \in Targets |-> None]
    /\ spent = [edits |-> 0, crashes |-> 0]
====
