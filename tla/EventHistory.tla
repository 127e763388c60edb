---- MODULE EventHistory ----
(***************************************************************************)
(* R-MT and R-OP: the history of a TASK beside its authoritative records.  *)
(* A microtask step is a write-ahead intent, the status write and a commit *)
(* event; an operation is its record and then its OPERATION_INTENT event.  *)
(* Steppers run transition, recover writes the status as well, and every   *)
(* append may fail or be cut off by a death.                               *)
(***************************************************************************)
EXTENDS Integers, Sequences, FiniteSets

CONSTANTS
    Steppers,       \* transition calls that may run at the same time
    Ops,            \* operations of the TASK
    None,
    MaxSteps,       \* bound: recorded transition intents
    MaxRecoveries,  \* bound: status writes by recover
    MaxFaults       \* bound: deaths and failed appends

ASSUME HistoryAssumption ==
    /\ None \notin Steppers
    /\ MaxSteps \in Nat /\ MaxRecoveries \in Nat /\ MaxFaults \in Nat

VARIABLES
    micro,       \* microtask record: status and updated_at
    intents,     \* journal: transition intents and the events that close them
    reaffirmed,  \* a later re-verification is recorded
    torn,        \* the log ends in an unterminated line
    record,      \* operation record: status and revision
    log,         \* events of an operation: OPERATION_INTENT, and any later one
    lock,        \* mutation lock
    pc, want,    \* where a transition call is and what it was asked for
    landed,      \* history: intents whose status write happened
    spent        \* recovery writes and faults so far

journal == <<intents, reaffirmed, torn>>
audit   == <<record, log>>
process == <<lock, pc, want>>
vars    == <<micro, journal, audit, process, landed, spent>>

RecoveryMicro == {"UNKNOWN_AFTER_DISCONNECT", "RECOVERY_REQUIRED", "FAILED_VERIFICATION"}
Stages   == RecoveryMicro \cup {"BACKUP_VERIFIED", "READY", "BLOCKED_PREPARE", "ACTIVE", "DONE", "VERIFIED"}
Statuses == {"ABSENT", "INTENT", "STARTED", "DONE", "FAILED"}
Closures == {"COMMIT", "ABANDON"}
NoStep   == [from |-> "NONE", to |-> "NONE"]

TypeOK ==
    /\ micro \in [status : Stages, stamp : Nat]
    /\ intents \in Seq([from : Stages, to : Stages, basis : Nat, closed : SUBSET Closures])
    /\ reaffirmed \in BOOLEAN /\ torn \in BOOLEAN
    /\ record \in [Ops -> [status : Statuses, rev : Nat]]
    /\ log \in [Ops -> [intents : Nat, progress : BOOLEAN]]
    /\ lock \in Steppers \cup {None}
    /\ pc \in [Steppers -> {"idle", "entry", "check", "intent", "write", "commit"}]
    /\ want \in [Steppers -> [from : Stages, to : Stages] \cup {NoStep}]
    /\ landed \subseteq DOMAIN intents
    /\ spent \in [recoveries : Nat, faults : Nat]

(* A prepared stage, or one verified before there was a journal.           *)
Init ==
    /\ micro \in [status : {"BACKUP_VERIFIED", "VERIFIED"}, stamp : {0}]
    /\ intents = <<>>
    /\ reaffirmed = FALSE /\ torn = FALSE
    /\ record = [o \in Ops |-> [status |-> "ABSENT", rev |-> 0]]
    /\ log = [o \in Ops |-> [intents |-> 0, progress |-> FALSE]]
    /\ lock = None
    /\ pc = [c \in Steppers |-> "idle"]
    /\ want = [c \in Steppers |-> NoStep]
    /\ landed = {}
    /\ spent = [recoveries |-> 0, faults |-> 0]

Fault == spent.faults < MaxFaults /\ spent' = [spent EXCEPT !.faults = @ + 1]

-----------------------------------------------------------------------------
(* microtask_journal: the record decides what became of an open intent.    *)

Open == {i \in DOMAIN intents : intents[i].closed = {}}

Outcome(i) ==
    CASE micro.status = intents[i].to                                      -> "COMMIT"
      [] micro.status = intents[i].from /\ micro.stamp = intents[i].basis  -> "ABANDON"
      [] OTHER                                                             -> "UNKNOWN"

Contradictory ==
    \/ Cardinality(Open) > 1
    \/ \E i \in DOMAIN intents : intents[i].closed = Closures
    \/ \E i \in Open : Outcome(i) = "UNKNOWN"

Proven ==
    \/ reaffirmed
    \/ \E i \in DOMAIN intents : intents[i].to = "VERIFIED" /\ "COMMIT" \in intents[i].closed

(* resolve_microtask_intents_locked: possible, and what it leaves.         *)
Resolvable == lock = None /\ ~torn /\ ~Contradictory
Closed(i, how) == [intents EXCEPT ![i].closed = @ \cup {how}]

(* Mutant: a step that never happened is left open.                        *)
OnlyCommitted == [i \in DOMAIN intents |->
                    IF i \in Open /\ Outcome(i) = "COMMIT"
                    THEN [intents[i] EXCEPT !.closed = {Outcome(i)}] ELSE intents[i]]

Resolved == [i \in DOMAIN intents |->
                IF i \in Open THEN [intents[i] EXCEPT !.closed = {Outcome(i)}] ELSE intents[i]]

-----------------------------------------------------------------------------
(* transition.                                                             *)

Allowed ==
    {<<"BACKUP_VERIFIED", "READY">>, <<"READY", "ACTIVE">>, <<"FAILED_VERIFICATION", "ACTIVE">>,
     <<"ACTIVE", "DONE">>, <<"ACTIVE", "UNKNOWN_AFTER_DISCONNECT">>,
     <<"DONE", "VERIFIED">>, <<"DONE", "FAILED_VERIFICATION">>, <<"DONE", "UNKNOWN_AFTER_DISCONNECT">>,
     <<"UNKNOWN_AFTER_DISCONNECT", "RECOVERY_REQUIRED">>}

At(c, l)   == pc[c] = l
Goto(c, l) == pc' = [pc EXCEPT ![c] = l] /\ UNCHANGED want

Ends(c) ==
    /\ pc' = [pc EXCEPT ![c] = "idle"]
    /\ want' = [want EXCEPT ![c] = NoStep]

Leaves(c) == Ends(c) /\ lock' = None

(* The status every check is about is read first, without a lock.          *)
Read(c) ==
    /\ At(c, "idle")
    /\ ~torn
    /\ \E s \in Stages :
          /\ <<micro.status, s>> \in Allowed
          /\ want' = [want EXCEPT ![c] = [from |-> micro.status, to |-> s]]
    /\ pc' = [pc EXCEPT ![c] = "entry"]
    /\ UNCHANGED <<micro, journal, audit, lock, landed, spent>>

Enter(c) ==
    /\ At(c, "entry") /\ Resolvable
    /\ intents' = Resolved
    /\ Goto(c, "check")
    /\ UNCHANGED <<micro, reaffirmed, torn, audit, lock, landed, spent>>

(* A restore point that fails its check blocks the stage, unjournaled, if  *)
(* the status is still the one that was read.                              *)
BlockRestorePoint(c) ==
    /\ At(c, "check") /\ lock = None
    /\ want[c].to \in {"READY", "ACTIVE"}
    /\ micro' = IF micro.status = want[c].from
                THEN [status |-> "BLOCKED_PREPARE", stamp |-> micro.stamp + 1] ELSE micro
    /\ Ends(c)
    /\ UNCHANGED <<journal, audit, lock, landed, spent>>

(* Mutant: under the lock the journal is taken as the entry left it.       *)
AsEntered == intents

AtLock == Resolved

(* Mutant: the status is written before anything is recorded of it.        *)
StatusFirst == "write"

FirstWrite == "intent"

Begin(c) ==
    /\ At(c, "check") /\ Resolvable
    /\ micro.status = want[c].from
    /\ Len(intents) < MaxSteps
    /\ intents' = AtLock
    /\ lock' = c
    /\ Goto(c, FirstWrite)
    /\ UNCHANGED <<micro, reaffirmed, torn, audit, landed, spent>>

(* Gates, an unreadable or contradictory history, a status that moved on.  *)
Refused(c) ==
    /\ pc[c] \in {"entry", "check"} /\ lock = None
    /\ Ends(c)
    /\ UNCHANGED <<micro, journal, audit, lock, landed, spent>>

WriteIntent(c) ==
    /\ At(c, "intent")
    /\ intents' = Append(intents, [from |-> want[c].from, to |-> want[c].to,
                                   basis |-> micro.stamp, closed |-> {}])
    /\ Goto(c, "write")
    /\ UNCHANGED <<micro, reaffirmed, torn, audit, lock, landed, spent>>

IntentFails(c) ==
    /\ At(c, "intent") /\ Fault
    /\ Leaves(c)
    /\ UNCHANGED <<micro, journal, audit, landed>>

WriteStatus(c) ==
    /\ At(c, "write")
    /\ micro' = [status |-> want[c].to, stamp |-> micro.stamp + 1]
    /\ landed' = landed \cup {Len(intents)}
    /\ Goto(c, "commit")
    /\ UNCHANGED <<journal, audit, lock, spent>>

(* The write is refused or fails: an audited abandon, if it can be written.*)
WriteFails(c) ==
    /\ At(c, "write") /\ Fault
    /\ intents' \in {intents, Closed(Len(intents), "ABANDON")}
    /\ Leaves(c)
    /\ UNCHANGED <<micro, reaffirmed, torn, audit, landed>>

WriteCommit(c) ==
    /\ At(c, "commit")
    /\ intents' = Closed(Len(intents), "COMMIT")
    /\ Leaves(c)
    /\ UNCHANGED <<micro, reaffirmed, torn, audit, landed, spent>>

(* The step is persistent and reported as such without its event.          *)
CommitFails(c) ==
    /\ At(c, "commit") /\ Fault
    /\ Leaves(c)
    /\ UNCHANGED <<micro, journal, audit, landed>>

(* A death inside an append may leave the line without its delimiter.      *)
Crash(c) ==
    /\ lock = c /\ Fault
    /\ torn' \in BOOLEAN
    /\ Leaves(c)
    /\ UNCHANGED <<micro, intents, reaffirmed, audit, landed>>

-----------------------------------------------------------------------------
(* The other writers: RC-6 and reaffirm.                                   *)

(* Mutant: a recovery write leaves the journal to a later step.            *)
LeftOpen == intents

ClosedFirst == Resolved

RecoveryTargets ==
    {<<s, "RECOVERY_REQUIRED">> : s \in RecoveryMicro \cup {"ACTIVE", "DONE", "READY", "BLOCKED_PREPARE"}}
    \cup {<<s, "DONE">> : s \in {"ACTIVE", "UNKNOWN_AFTER_DISCONNECT", "RECOVERY_REQUIRED"}}
    \cup {<<s, "ACTIVE">> : s \in RecoveryMicro}

RecoveryWrite ==
    /\ Resolvable
    /\ spent.recoveries < MaxRecoveries
    /\ \E s \in Stages \ {micro.status} :
          /\ <<micro.status, s>> \in RecoveryTargets
          /\ micro' = [status |-> s, stamp |-> micro.stamp + 1]
    /\ intents' = ClosedFirst
    /\ spent' = [spent EXCEPT !.recoveries = @ + 1]
    /\ UNCHANGED <<reaffirmed, torn, audit, process, landed>>

Pending(o) ==
    /\ log[o].intents = 0 /\ ~log[o].progress
    /\ record[o] = [status |-> "INTENT", rev |-> 1]

(* Mutant: only recover restores a lost intent event.                      *)
LeftOut(o) == log[o]

Rebuilt(o) == IF Pending(o) THEN [log[o] EXCEPT !.intents = @ + 1] ELSE log[o]

ReconcileHistory ==
    /\ Resolvable
    /\ Open # {} \/ \E o \in Ops : Pending(o)
    /\ intents' = Resolved
    /\ log' = [o \in Ops |-> Rebuilt(o)]
    /\ UNCHANGED <<micro, reaffirmed, torn, record, process, landed, spent>>

Reaffirm ==
    /\ Resolvable
    /\ micro.status = "VERIFIED"
    /\ intents' = Resolved
    /\ ~(Proven \/ \E i \in Open : intents[i].to = "VERIFIED")
    /\ reaffirmed' = TRUE
    /\ UNCHANGED <<micro, torn, audit, process, landed, spent>>

-----------------------------------------------------------------------------
(* Operations: the record is durable before its event, under the TASK lock.*)

Appended(o, entry) ==
    \/ log' = [log EXCEPT ![o] = entry] /\ UNCHANGED <<torn, spent>>
    \/ log' = [log EXCEPT ![o] = Rebuilt(o)] /\ Fault /\ torn' \in BOOLEAN

OpBegin(o) ==
    /\ ~torn
    /\ record[o].status = "ABSENT"
    /\ record' = [record EXCEPT ![o] = [status |-> "INTENT", rev |-> 1]]
    /\ \/ log' = [log EXCEPT ![o].intents = @ + 1] /\ UNCHANGED <<torn, spent>>
       \/ UNCHANGED log /\ Fault /\ torn' \in BOOLEAN
    /\ UNCHANGED <<micro, intents, reaffirmed, process, landed>>

(* The call that restores a lost intent event executes nothing.            *)
OpRestore(o) ==
    /\ ~torn /\ Pending(o)
    /\ log' = [log EXCEPT ![o] = Rebuilt(o)]
    /\ UNCHANGED <<micro, journal, record, process, landed, spent>>

OpMoves ==
    {<<"INTENT", "STARTED">>, <<"INTENT", "FAILED">>, <<"STARTED", "DONE">>,
     <<"STARTED", "FAILED">>, <<"DONE", "FAILED">>}

Movable(o, s) == ~torn /\ (Pending(o) => s # "STARTED")

Readable(o) == log[o].intents > 0 \/ Pending(o)

OpTransition(o) ==
    /\ Readable(o)
    /\ \E s \in Statuses :
          /\ <<record[o].status, s>> \in OpMoves
          /\ Movable(o, s)
          /\ record' = [record EXCEPT ![o] = [status |-> s, rev |-> @.rev + 1]]
          /\ Appended(o, [Rebuilt(o) EXCEPT !.progress = TRUE])
    /\ UNCHANGED <<micro, intents, reaffirmed, process, landed>>

-----------------------------------------------------------------------------
Goes(c) ==
    \/ Enter(c) \/ Begin(c) \/ Refused(c)
    \/ WriteIntent(c) \/ WriteStatus(c) \/ WriteCommit(c)

Next ==
    \/ \E c \in Steppers :
          \/ Read(c) \/ Goes(c) \/ BlockRestorePoint(c)
          \/ IntentFails(c) \/ WriteFails(c) \/ CommitFails(c) \/ Crash(c)
    \/ RecoveryWrite \/ ReconcileHistory \/ Reaffirm
    \/ \E o \in Ops : OpBegin(o) \/ OpRestore(o) \/ OpTransition(o)

Spec == Init /\ [][Next]_vars

(* A call that runs goes on, and recover is called while it reports an     *)
(* interrupted journal entry.                                              *)
FairSpec ==
    /\ Spec
    /\ \A c \in Steppers : WF_vars(Goes(c))
    /\ WF_vars(ReconcileHistory)
====
