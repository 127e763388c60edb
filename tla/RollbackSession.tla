---- MODULE RollbackSession ----
(***************************************************************************)
(* RC-4: a tracked rollback of a microtask's restore point.  A session is  *)
(* one durable record per accepted ROLLBACK resolution; prepare, apply and *)
(* close work on it under the TASK lock, apply and close under the locks   *)
(* of the targets as well, and may die after every single write.           *)
(*                                                                         *)
(* Beside the sessions run what they must be safe against: operations of   *)
(* any TASK that claim and change the same physical targets, sessions of   *)
(* another TASK, an accepted ABORT, damage to the restore point, and an    *)
(* editor that takes no lock.                                              *)
(***************************************************************************)
EXTENDS Integers, FiniteSets, FiniteSetsExt

CONSTANTS
    N,               \* targets are numbered in the order of their hashes
    Tasks, Sessions, Ops,
    Manifest,        \* targets of each TASK's restore point
    SourceOf,        \* the operation each session rolls back
    TaskOf,          \* the TASK of each operation
    TargetOf,        \* the target of each operation
    Payload,         \* what an operation makes of its target
    Bytes, Absent,
    InitialBytes,    \* content when the restore points were captured
    ForeignBytes,    \* what an outside editor may write
    None,
    Abortable,       \* bound: operations whose recovery may be aborted
    Driven,          \* bound: operations an agent also drives through the API
    Breakable,       \* bound: TASKs whose restore point may break
    FailingWrites,   \* bound: targets on which a restoring write may fail
    MaxForeignEdits, MaxCrashes,
    MaxTimeouts      \* bound: lock waits that expire

Targets == 1..N
Outside == "outside"

ASSUME RollbackAssumption ==
    /\ N \in Nat
    /\ Manifest \in [Tasks -> SUBSET Targets]
    /\ SourceOf \in [Sessions -> Ops]
    /\ TaskOf \in [Ops -> Tasks]
    /\ TargetOf \in [Ops -> Targets]
    /\ Payload \in [Ops -> Bytes]
    /\ Absent \in Bytes
    /\ InitialBytes \in [Targets -> Bytes]
    /\ ForeignBytes \subseteq Bytes
    /\ None \notin Ops \cup Sessions
    /\ Ops \cap Sessions = {}
    /\ Outside \notin Ops \cup Sessions \cup {None}
    /\ MaxForeignEdits \in Nat
    /\ MaxCrashes \in Nat
    /\ MaxTimeouts \in Nat

VARIABLES
    file,       \* bytes of each target
    claim,      \* active claim of each target: its owner and the bytes it is bound to
    fate,       \* what is recorded of each operation: INTENT, STARTED or DONE
    aborted,    \* operations with an accepted ABORT
    broken,     \* TASKs whose restore point no longer verifies
    basis,      \* evidence each ROLLBACK was accepted on, or NoBasis
    status,     \* session record: status
    part,       \* session record: status of each target
    kept,       \* session record: preserved bytes of each target
    known,      \* session record: it names its claims
    freed,      \* session record: claims_released
    pc, call,   \* where a session's call is, and which call it is
    plan,       \* the call read a valid restore plan before it took target locks
    taskLock, targetLock,
    author,     \* history: who last wrote each target
    raced,      \* history: targets edited outside since a session last compared them
    spent       \* outside edits, crashes and lock timeouts used so far

world   == <<file, claim, author, raced>>
facts   == <<fate, aborted, broken, basis>>
record  == <<status, part, kept, known, freed>>
process == <<pc, call, plan, taskLock, targetLock>>
vars    == <<world, facts, record, process, spent>>

SessionStatus ==
    {"NONE", "PREPARED", "PRESERVED", "PRESERVATION_FAILED", "AUTHORIZED",
     "APPLYING", "VERIFIED", "PARTIAL", "FAILED", "CLOSED"}
TargetStatus ==
    {"PENDING", "PRESERVED", "APPLYING", "RESTORED", "NOOP", "DRIFTED", "FAILED"}
Labels ==
    {"idle", "preserve", "lock", "settle", "acquire", "restore", "write",
     "confirm", "prove", "conclude", "release"}

OpTask(r)  == TaskOf[SourceOf[r]]
Items(r)   == Manifest[OpTask(r)]
View(k)    == [t \in Manifest[k] |-> file[t]]
Done(s)    == s \in {"VERIFIED", "CLOSED", "PRESERVATION_FAILED", "PARTIAL", "FAILED"}
With(r, p) == {t \in Items(r) : part[r][t] = p}
Owned(r)   == {t \in Items(r) : claim[t].owner = r}
Free(k)    == taskLock[k] = None
NoClaim    == [owner |-> None, basis |-> Absent]
NoBasis    == [fate |-> "NONE", view |-> <<>>]

(* NOOP where the preserved bytes are the restore state already.           *)
PlannedNoop(r, t) == kept[r][t] = InitialBytes[t]

TypeOK ==
    /\ file \in [Targets -> Bytes]
    /\ claim \in [Targets -> [owner : Ops \cup Sessions \cup {None}, basis : Bytes]]
    /\ fate \in [Ops -> {"INTENT", "STARTED", "DONE"}]
    /\ aborted \subseteq Ops
    /\ broken \subseteq Tasks
    /\ status \in [Sessions -> SessionStatus]
    /\ part \in [Sessions -> [Targets -> TargetStatus]]
    /\ kept \in [Sessions -> [Targets -> Bytes]]
    /\ known \in [Sessions -> BOOLEAN]
    /\ freed \in [Sessions -> BOOLEAN]
    /\ pc \in [Sessions -> Labels]
    /\ call \in [Sessions -> {"apply", "close", "finish"}]
    /\ plan \in [Sessions -> BOOLEAN]
    /\ taskLock \in [Tasks -> Sessions \cup {None}]
    /\ targetLock \in [Targets -> Sessions \cup {None}]
    /\ author \in [Targets -> Ops \cup Sessions \cup {None, Outside}]
    /\ raced \subseteq Targets
    /\ spent \in [edits : Nat, crashes : Nat, timeouts : Nat]

Init ==
    /\ file = InitialBytes
    /\ claim = [t \in Targets |-> NoClaim]
    /\ fate = [o \in Ops |-> "INTENT"]
    /\ aborted = {} /\ broken = {}
    /\ basis = [r \in Sessions |-> NoBasis]
    /\ status = [r \in Sessions |-> "NONE"]
    /\ part = [r \in Sessions |-> [t \in Targets |-> "PENDING"]]
    /\ kept = [r \in Sessions |-> [t \in Targets |-> Absent]]
    /\ known = [r \in Sessions |-> FALSE]
    /\ freed = [r \in Sessions |-> FALSE]
    /\ pc = [r \in Sessions |-> "idle"]
    /\ call = [r \in Sessions |-> "apply"]
    /\ plan = [r \in Sessions |-> TRUE]
    /\ taskLock = [k \in Tasks |-> None]
    /\ targetLock = [t \in Targets |-> None]
    /\ author = [t \in Targets |-> None]
    /\ raced = {}
    /\ spent = [edits |-> 0, crashes |-> 0, timeouts |-> 0]

-----------------------------------------------------------------------------
(* Authority of a session.                                                 *)

(* The accepted ROLLBACK is still decided on the present evidence.         *)
Fresh(r) ==
    /\ basis[r] # NoBasis
    /\ basis[r].fate = fate[SourceOf[r]]
    /\ basis[r].view = View(OpTask(r))
    /\ OpTask(r) \notin broken

(* The session may still restore or must still give something back.        *)
OpenSession(r) ==
    /\ status[r] \notin {"NONE", "CLOSED", "PRESERVATION_FAILED"}
    /\ status[r] = "VERIFIED" => ~freed[r]

(* What forbids normal mutation in a TASK (disposition_actions).           *)
Disposed(k) ==
    \/ \E o \in aborted : TaskOf[o] = k
    \/ \E r \in Sessions : OpTask(r) = k /\ (Fresh(r) \/ OpenSession(r))

(* RC-1 decides ROLLBACK on an exact mixture of restore and post-states;   *)
(* the other entries of the manifest announce a deletion.                  *)
ExpectedPost(o, t) == IF t = TargetOf[o] THEN Payload[o] ELSE Absent

Mixed(o) ==
    LET k == TaskOf[o]
    IN  /\ \A t \in Manifest[k] : file[t] \in {InitialBytes[t], ExpectedPost(o, t)}
        /\ \E t \in Manifest[k] : file[t] = InitialBytes[t]
        /\ \E t \in Manifest[k] : file[t] # InitialBytes[t]

(* The Resolver accepts a ROLLBACK: one per logical identity.              *)
Accept(r) ==
    LET o    == SourceOf[r]
        seen == [fate |-> fate[o], view |-> View(TaskOf[o])]
    IN  /\ Free(TaskOf[o])
        /\ basis[r] = NoBasis
        /\ o \notin aborted /\ TaskOf[o] \notin broken
        /\ fate[o] # "INTENT"
        /\ Mixed(o)
        /\ \A q \in Sessions : SourceOf[q] = o => basis[q] # seen
        /\ basis' = [basis EXCEPT ![r] = seen]
        /\ UNCHANGED <<world, fate, aborted, broken, record, process, spent>>

-----------------------------------------------------------------------------
(* A call takes its TASK lock and gives back whatever it holds.            *)

Enter(r, l) ==
    /\ taskLock' = [taskLock EXCEPT ![OpTask(r)] = r]
    /\ pc' = [pc EXCEPT ![r] = l]

Unlock(r) == [t \in Targets |-> IF targetLock[t] = r THEN None ELSE targetLock[t]]

Leave(r) ==
    /\ pc' = [pc EXCEPT ![r] = "idle"]
    /\ taskLock' = [taskLock EXCEPT ![OpTask(r)] = None]
    /\ targetLock' = Unlock(r)
    /\ UNCHANGED <<call, plan>>

Goto(r, l) ==
    /\ pc' = [pc EXCEPT ![r] = l]
    /\ UNCHANGED <<call, plan, taskLock, targetLock>>

Idle(r) == pc[r] = "idle" /\ Free(OpTask(r))

SetStatus(r, s)  == status' = [status EXCEPT ![r] = s]
SetPart(r, t, p) == part' = [part EXCEPT ![r][t] = p]

-----------------------------------------------------------------------------
(* prepare: preserve the present bytes of every target, one durable step   *)
(* each, before anything destructive.                                      *)

Prepare(r) ==
    /\ Idle(r)
    /\ \/ /\ status[r] = "NONE"
          /\ SourceOf[r] \notin aborted
          /\ Fresh(r)
       \/ status[r] = "PREPARED"
    /\ SetStatus(r, "PREPARED")
    /\ Enter(r, "preserve")
    /\ UNCHANGED <<world, facts, part, kept, known, freed, call, plan, targetLock, spent>>

Preserve(r) ==
    /\ pc[r] = "preserve"
    /\ With(r, "PENDING") # {}
    /\ LET t == Min(With(r, "PENDING"))
       IN  /\ kept' = [kept EXCEPT ![r][t] = file[t]]
           /\ SetPart(r, t, "PRESERVED")
    /\ UNCHANGED <<world, facts, status, known, freed, process, spent>>

(* A target that changes while it is read, or that cannot be stored.       *)
PreserveFails(r) ==
    /\ pc[r] = "preserve"
    /\ With(r, "PENDING") # {}
    /\ SetStatus(r, "PRESERVATION_FAILED")
    /\ Leave(r)
    /\ UNCHANGED <<world, facts, part, kept, known, freed, spent>>

Preserved(r) ==
    /\ pc[r] = "preserve"
    /\ With(r, "PENDING") = {}
    /\ SetStatus(r, "PRESERVED")
    /\ Leave(r)
    /\ UNCHANGED <<world, facts, part, kept, known, freed, spent>>

-----------------------------------------------------------------------------
(* apply and close begin: the TASK lock, then every target in hash order.  *)

Call(r, c) ==
    /\ Enter(r, "lock")
    /\ call' = [call EXCEPT ![r] = c]
    /\ plan' = [plan EXCEPT ![r] = OpTask(r) \notin broken]
    /\ UNCHANGED <<world, facts, record, targetLock, spent>>

Apply(r) ==
    /\ Idle(r)
    /\ status[r] \notin {"NONE", "PREPARED"}
    /\ ~Done(status[r])
    /\ Call(r, "apply")

(* Either call completes the interrupted release of a VERIFIED session.    *)
FinishRelease(r) ==
    /\ Idle(r)
    /\ status[r] = "VERIFIED" /\ ~freed[r]
    /\ Call(r, "finish")

Close(r) ==
    /\ Idle(r)
    /\ status[r] \notin {"NONE", "CLOSED", "VERIFIED", "PRESERVATION_FAILED"}
    /\ With(r, "APPLYING") = {}
    /\ Call(r, "close")

(* Mutant: every TASK takes its targets in an order of its own. *)
OwnOrder(r, S) == IF OpTask(r) = CHOOSE k \in Tasks : TRUE THEN Min(S) ELSE Max(S)

FirstTarget(r, S) == Min(S)

(* apply locks every target; a release only those whose claim it names.    *)
ToLock(r) ==
    {t \in Items(r) : (call[r] = "apply" \/ known[r]) /\ targetLock[t] # r}

AfterLocks(r) == IF call[r] = "apply" THEN "settle" ELSE "release"

TakeLock(r) ==
    /\ pc[r] = "lock"
    /\ ToLock(r) # {}
    /\ LET t == FirstTarget(r, ToLock(r))
       IN  /\ targetLock[t] = None
           /\ targetLock' = [targetLock EXCEPT ![t] = r]
    /\ UNCHANGED <<world, facts, record, pc, call, plan, taskLock, spent>>

Locked(r) ==
    /\ pc[r] = "lock"
    /\ ToLock(r) = {}
    /\ Goto(r, AfterLocks(r))
    /\ UNCHANGED <<world, facts, record, spent>>

LockTimeout(r) ==
    /\ pc[r] = "lock"
    /\ ToLock(r) # {}
    /\ targetLock[FirstTarget(r, ToLock(r))] # None
    /\ spent.timeouts < MaxTimeouts
    /\ spent' = [spent EXCEPT !.timeouts = @ + 1]
    /\ Leave(r)
    /\ UNCHANGED <<world, facts, record>>
====
