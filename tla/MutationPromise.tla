---- MODULE MutationPromise ----
(***************************************************************************)
(* What tracked mutation promises to everybody who shares the targets: an  *)
(* operation changes its target only while it has it alone, from the bytes *)
(* it declared to the bytes it announced; it says DONE only of announced   *)
(* bytes that are there; it keeps the target while its fate is undecided,  *)
(* unless all that its TASK has done is taken back; a TASK that is halted  *)
(* changes nothing, one that is closed has nothing.  Workers, locks,       *)
(* revisions, rollback sessions and retries are not visible here.          *)
(***************************************************************************)
CONSTANTS Tasks, Ops, Targets, TaskOf, TargetOf, Bytes, None, Origin, Goal

VARIABLES
    content,    \* bytes of each target
    holder,     \* the operation that has each target, or None
    fate,       \* none, declared, begun, made, verified or failed
    seen,       \* the bytes an operation declared to replace
    untracked,  \* targets whose bytes no operation put there
    decided,    \* operations with an accepted ABORT or ADOPT
    halted,     \* TASKs with an accepted ABORT
    closed      \* completed TASKs

vars == <<content, holder, fate, seen, untracked, decided, halted, closed>>

Live(o)  == TaskOf[o] \notin closed
There(o) == content[TargetOf[o]]
Reach(o) == {TargetOf[p] : p \in {q \in Ops : TaskOf[q] = TaskOf[o]}}

Init ==
    /\ content = Origin
    /\ holder = [t \in Targets |-> None]
    /\ fate = [o \in Ops |-> "none"]
    /\ seen \in [Ops -> Bytes]
    /\ untracked = Targets
    /\ decided = {} /\ halted = {} /\ closed = {}

Becomes(o, f) ==
    /\ fate' = [fate EXCEPT ![o] = f]
    /\ UNCHANGED <<content, holder, untracked, decided, halted, closed>>

Declare(o) ==
    /\ Live(o) /\ fate[o] = "none"
    /\ seen' = [seen EXCEPT ![o] = There(o)]
    /\ Becomes(o, "declared")

Begin(o)  == Live(o) /\ fate[o] \in {"declared", "begun"} /\ Becomes(o, "begun") /\ UNCHANGED seen
Made(o)   == Live(o) /\ fate[o] = "begun" /\ There(o) = Goal[o] /\ Becomes(o, "made") /\ UNCHANGED seen
Verify(o) == Live(o) /\ fate[o] = "made" /\ Becomes(o, "verified") /\ UNCHANGED seen
Adopt(o)  == /\ Live(o) /\ o \in decided /\ fate[o] \in {"begun", "made"} /\ There(o) = Goal[o]
             /\ Becomes(o, "verified") /\ UNCHANGED seen
Fail(o)   == Live(o) /\ fate[o] \in {"declared", "begun", "made"} /\ Becomes(o, "failed") /\ UNCHANGED seen

Take(o) ==
    /\ Live(o) /\ fate[o] \in {"declared", "begun", "failed"}
    /\ holder[TargetOf[o]] = None
    /\ There(o) = seen[o]
    /\ holder' = [holder EXCEPT ![TargetOf[o]] = o]
    /\ UNCHANGED <<content, fate, seen, untracked, decided, halted, closed>>

Change(o) ==
    /\ Live(o) /\ TaskOf[o] \notin halted
    /\ holder[TargetOf[o]] = o
    /\ fate[o] = "begun"
    /\ There(o) = seen[o] \/ TargetOf[o] \in untracked
    /\ content' = [content EXCEPT ![TargetOf[o]] = Goal[o]]
    /\ untracked' = untracked \ {TargetOf[o]}
    /\ UNCHANGED <<holder, fate, seen, decided, halted, closed>>

GiveBack(o) ==
    /\ holder[TargetOf[o]] = o
    /\ fate[o] = "begun" => o \in decided
    /\ holder' = [holder EXCEPT ![TargetOf[o]] = None]
    /\ UNCHANGED <<content, fate, seen, untracked, decided, halted, closed>>

(* What the TASK's targets were is put back, on some of them or on all; it *)
(* is nobody's afterwards.  Only an operation that has begun is undone, on *)
(* a target that holds its own bytes or the original ones, and never over  *)
(* another owner.                                                          *)
Undo(o) ==
    /\ Live(o) /\ fate[o] \in {"begun", "made", "failed"}
    /\ \A t \in Reach(o) : holder[t] \in {None, o}
    /\ There(o) \in {Origin[TargetOf[o]], Goal[o]}
    /\ \E S \in SUBSET Reach(o) :
          /\ content' = [t \in Targets |-> IF t \in S THEN Origin[t] ELSE content[t]]
          /\ untracked' \in {untracked \cup U : U \in SUBSET S}
    /\ holder' = [t \in Targets |-> IF t \in Reach(o) THEN None ELSE holder[t]]
    /\ UNCHANGED <<fate, seen, decided, halted, closed>>

Decide(o) ==
    /\ Live(o) /\ fate[o] # "none"
    /\ decided' = decided \cup {o}
    /\ halted' \in {halted, halted \cup {TaskOf[o]}}
    /\ UNCHANGED <<content, holder, fate, seen, untracked, closed>>

Close(k) ==
    /\ \A o \in Ops :
          TaskOf[o] = k =>
              /\ holder[TargetOf[o]] # o
              /\ fate[o] \in {"none", "verified", "failed"} \/ o \in decided
    /\ closed' = closed \cup {k}
    /\ UNCHANGED <<content, holder, fate, seen, untracked, decided, halted>>

Tamper(t) ==
    /\ \E b \in Bytes : content' = [content EXCEPT ![t] = b]
    /\ untracked' = untracked \cup {t}
    /\ UNCHANGED <<holder, fate, seen, decided, halted, closed>>

Next ==
    \/ \E o \in Ops :
          \/ Declare(o) \/ Begin(o) \/ Made(o) \/ Verify(o) \/ Adopt(o) \/ Fail(o)
          \/ Take(o) \/ Change(o) \/ GiveBack(o) \/ Undo(o) \/ Decide(o)
    \/ \E k \in Tasks : Close(k)
    \/ \E t \in Targets : Tamper(t)

Spec == Init /\ [][Next]_vars
====
