---- MODULE MutationExecution ----
(***************************************************************************)
(* WA4-E: the executor of one tracked mutation, run by several worker      *)
(* processes at once, against every concurrent writer of the control       *)
(* plane.  A worker takes one request (an operation id) through            *)
(*                                                                         *)
(*   begin -> [drive] -> admit -> acquire -> boundary -> start -> write    *)
(*         -> prove -> release                                             *)
(*                                                                         *)
(* and holds the TASK, mutation and target lock from start to prove only.  *)
(* Anything it learned before that is re-checked at the boundary.          *)
(***************************************************************************)
EXTENDS Lifecycle

Goto(w, l) ==
    /\ pc' = [pc EXCEPT ![w] = l]
    /\ UNCHANGED call

Idle(w) ==
    /\ pc' = [pc EXCEPT ![w] = "idle"]
    /\ call' = [call EXCEPT ![w] = NoCall]

(* Mutant: an AUTHORIZED outcome used as authority without its locks.      *)
TakeLocksNotKept(w, o) == UNCHANGED locks

TakeLocks(w, o) ==
    /\ taskLock' = [taskLock EXCEPT ![TaskOf[o]] = w]
    /\ lifeLock' = [lifeLock EXCEPT ![TaskOf[o]] = w]
    /\ targetLock' = [targetLock EXCEPT ![TargetOf[o]] = w]

(* A worker's locks end with its boundary, or with its process.            *)
DropLocks(w) ==
    /\ taskLock' = [k \in Tasks |-> IF taskLock[k] = w THEN None ELSE taskLock[k]]
    /\ lifeLock' = [k \in Tasks |-> IF lifeLock[k] = w THEN None ELSE lifeLock[k]]
    /\ targetLock' = [t \in Targets |-> IF targetLock[t] = w THEN None ELSE targetLock[t]]

BoundaryFree(o) == TaskFree(TaskOf[o]) /\ LifeFree(TaskOf[o]) /\ TargetFree(TargetOf[o])

-----------------------------------------------------------------------------
(* OperationStore.begin                                                    *)

Snapshot(o, r, s) == [op |-> o, rev |-> r, status |-> s, retry |-> FALSE, claim |-> 0]

(* A new INTENT binds the bytes observed now as the contract's pre-state.  *)
NewIntent(w, o) ==
    LET k == TaskOf[o]
        t == TargetOf[o]
    IN  /\ pc[w] = "idle"
        /\ open[k] /\ TaskFree(k) /\ LifeFree(k)
        /\ rec[o].status = "NONE"
        /\ Kind[o] = "CREATE" => file[t] = Absent
        /\ Kind[o] = "DELETE" => file[t] # Absent
        /\ rec' = [rec EXCEPT ![o] = [status |-> "INTENT", rev |-> 1, pre |-> file[t]]]
        /\ call' = [call EXCEPT ![w] = Snapshot(o, 1, "INTENT")]
        /\ pc' = [pc EXCEPT ![w] = "admit"]
        /\ UNCHANGED <<file, accepted, settled, rollbacks, stage, open, intact, asked, claims, locks, history, spent>>

(* A replayed operation id continues from the record's status.  FAILED and *)
(* UNKNOWN end there: nothing is executed.                                 *)
Continuation(s) ==
    CASE s = "INTENT"       -> "admit"
      [] s = "STARTED"      -> "drive"
      [] s \in Completed    -> "release"

ReplayIntent(w, o) ==
    LET k == TaskOf[o]
    IN  /\ pc[w] = "idle"
        /\ open[k] /\ TaskFree(k) /\ LifeFree(k)
        /\ rec[o].status \in {"INTENT", "STARTED"} \cup Completed
        /\ call' = [call EXCEPT ![w] = Snapshot(o, rec[o].rev, rec[o].status)]
        /\ pc' = [pc EXCEPT ![w] = Continuation(rec[o].status)]
        /\ UNCHANGED <<records, claims, locks, history, spent>>

-----------------------------------------------------------------------------
(* MutationExecutor, between begin and the boundary                        *)

(* A STARTED operation continues only on an authoritative RETRY.           *)
Drive(w) ==
    LET o == call[w].op
    IN  /\ pc[w] = "drive"
        /\ IF ~Aborted(o) /\ Current(o, "RETRY")
           THEN /\ call' = [call EXCEPT ![w].retry = TRUE]
                /\ pc' = [pc EXCEPT ![w] = "admit"]
           ELSE Idle(w)
        /\ UNCHANGED <<records, claims, locks, history, spent>>

(* Payload and restore point are read under the TASK and mutation locks.   *)
Admit(w) ==
    LET k == TaskOf[call[w].op]
    IN  /\ pc[w] = "admit"
        /\ TaskFree(k) /\ LifeFree(k)
        /\ IF intact[k] THEN Goto(w, "acquire") ELSE Idle(w)
        /\ UNCHANGED <<records, claims, locks, history, spent>>

(* The claim of the revision read at begin: known, granted or refused.     *)
Acquire(w) ==
    LET o == call[w].op
        r == call[w].rev
        t == TargetOf[o]
    IN  /\ pc[w] = "acquire"
        /\ TaskFree(TaskOf[o]) /\ TargetFree(t)
        /\ \/ /\ KnownClaim(o, r)
              /\ call' = [call EXCEPT ![w].claim = active[t].gen]
              /\ pc' = [pc EXCEPT ![w] = "boundary"]
              /\ UNCHANGED claims
           \/ /\ Grantable(o, r)
              /\ Grant(o, r)
              /\ call' = [call EXCEPT ![w].claim = generation[t]]
              /\ pc' = [pc EXCEPT ![w] = "boundary"]
           \/ /\ ~KnownClaim(o, r) /\ ~Grantable(o, r)
              /\ Goto(w, "refused")
              /\ UNCHANGED claims
        /\ UNCHANGED <<records, locks, history, spent>>

-----------------------------------------------------------------------------
(* The mutation boundary                                                   *)

EnterBoundary(w) ==
    LET o == call[w].op
    IN  /\ pc[w] = "boundary"
        /\ BoundaryFree(o)
        /\ Authorized(o, call[w].rev, call[w].claim)
        /\ TakeLocks(w, o)
        /\ Goto(w, "start")
        /\ UNCHANGED <<records, claims, history, spent>>

RefuseBoundary(w) ==
    LET o == call[w].op
    IN  /\ pc[w] = "boundary"
        /\ BoundaryFree(o)
        /\ ~Authorized(o, call[w].rev, call[w].claim)
        /\ Goto(w, "refused")
        /\ UNCHANGED <<records, claims, locks, history, spent>>

(* The operation and its restore point are re-proved under the locks, then *)
(* STARTED is persisted; a RETRY finds it persisted already.               *)
Start(w) ==
    LET o == call[w].op
    IN  /\ pc[w] = "start"
        /\ IF /\ rec[o].rev = call[w].rev /\ rec[o].status = call[w].status
              /\ intact[TaskOf[o]]
           THEN /\ IF call[w].retry THEN UNCHANGED rec ELSE Transition(o, "STARTED")
                /\ Goto(w, "write")
                /\ UNCHANGED locks
           ELSE /\ Idle(w) /\ DropLocks(w)
                /\ UNCHANGED rec
        /\ UNCHANGED <<file, accepted, settled, rollbacks, stage, open, intact, asked, claims, history, spent>>

(* A write of a file that was absent is an exclusive create.               *)
Writable(o) ==
    /\ Kind[o] = "CREATE" \/ (Kind[o] = "WRITE" /\ rec[o].pre = Absent) => file[TargetOf[o]] = Absent
    /\ Kind[o] = "DELETE" => file[TargetOf[o]] # Absent

Apply(w) ==
    LET o == call[w].op
        t == TargetOf[o]
    IN  /\ pc[w] = "write"
        /\ Writable(o)
        /\ file' = [file EXCEPT ![t] = Post(o)]
        /\ writes' = [writes EXCEPT ![o] = @ + 1]
        /\ author' = [author EXCEPT ![t] = o]
        /\ Goto(w, "prove")
        /\ UNCHANGED <<rec, accepted, settled, rollbacks, stage, open, intact, asked, claims, locks, spent>>

(* Mutant: the failed write leaves without leaving the boundary. *)
ApplyFailsInside(w) ==
    /\ pc[w] = "write"
    /\ Idle(w)
    /\ UNCHANGED <<records, claims, locks, history, spent>>

(* A write that raises leaves the operation STARTED and its claim held.    *)
ApplyFails(w) ==
    /\ pc[w] = "write"
    /\ Idle(w) /\ DropLocks(w)
    /\ UNCHANGED <<records, claims, history, spent>>

(* The receipt is what the server observes; a mismatch leaves STARTED.     *)
Prove(w) ==
    LET o == call[w].op
    IN  /\ pc[w] = "prove"
        /\ IF file[TargetOf[o]] = Post(o)
           THEN Transition(o, "DONE") /\ Goto(w, "release")
           ELSE UNCHANGED rec /\ Idle(w)
        /\ DropLocks(w)
        /\ UNCHANGED <<file, accepted, settled, rollbacks, stage, open, intact, asked, claims, history, spent>>

-----------------------------------------------------------------------------
(* After the boundary                                                      *)

(* Mutant: a refused delivery asks for ownership again. *)
SettleByAsking(w) ==
    /\ pc[w] = "refused"
    /\ IF rec[call[w].op].status \in Completed THEN Goto(w, "release") ELSE Goto(w, "acquire")
    /\ UNCHANGED <<records, claims, locks, history, spent>>

(* A refused delivery may find that another delivery has executed it.      *)
Settle(w) ==
    /\ pc[w] = "refused"
    /\ IF rec[call[w].op].status \in Completed THEN Goto(w, "release") ELSE Idle(w)
    /\ UNCHANGED <<records, claims, locks, history, spent>>

Release(w) ==
    LET o == call[w].op
    IN  /\ pc[w] = "release"
        /\ TaskFree(TaskOf[o]) /\ TargetFree(TargetOf[o])
        /\ EndClaim(o)
        /\ Idle(w)
        /\ UNCHANGED <<records, locks, history, spent>>

(* A lock held by another worker is waited for, but not for ever.          *)
Blocked(w) ==
    LET o == call[w].op
    IN  \/ pc[w] \in {"admit", "boundary"} /\ ~(TaskFree(TaskOf[o]) /\ LifeFree(TaskOf[o]))
        \/ pc[w] \in {"acquire", "release"} /\ ~TaskFree(TaskOf[o])
        \/ pc[w] \in {"acquire", "boundary", "release"} /\ ~TargetFree(TargetOf[o])

LockTimeout(w) ==
    /\ Blocked(w)
    /\ IF pc[w] = "boundary" THEN Goto(w, "refused") ELSE Idle(w)
    /\ UNCHANGED <<records, claims, locks, history, spent>>

(* The process dies, or a storage error ends the request where it stands:  *)
(* what is durable stays, the operating system drops the locks.            *)
Crash(w) ==
    /\ pc[w] # "idle"
    /\ spent.crashes < MaxCrashes
    /\ spent' = [spent EXCEPT !.crashes = @ + 1]
    /\ Idle(w) /\ DropLocks(w)
    /\ UNCHANGED <<records, claims, history>>

-----------------------------------------------------------------------------
Step(w) ==
    \/ Drive(w) \/ Admit(w) \/ Acquire(w) \/ EnterBoundary(w) \/ RefuseBoundary(w)
    \/ Start(w) \/ Apply(w) \/ ApplyFails(w) \/ Prove(w)
    \/ Settle(w) \/ Release(w) \/ LockTimeout(w)

Request(w) == \E o \in Ops : NewIntent(w, o) \/ ReplayIntent(w, o)

Agent ==
    \/ \E o \in Ops : ApiAcquire(o) \/ ApiRelease(o) \/ ApiTransition(o)
    \/ \E o \in Ops, a \in ResolutionAction : Resolve(o, a)

Recovery ==
    \/ \E o \in Ops : SettleRecovery(o) \/ RollbackPreflight(o) \/ Restore(o)
    \/ \E k \in Tasks : FinishSettlement(k) \/ RearmRetry(k)

Stage(k) ==
    \/ StageMove(k) \/ AskActivation(k) \/ BlockPreparation(k) \/ Activate(k)
    \/ Verify(k) \/ CloseTask(k)

World ==
    \/ \E t \in Targets : ForeignEdit(t)
    \/ \E k \in Tasks : RestorePointBreaks(k)

Next ==
    \/ \E w \in Workers : Request(w) \/ Step(w) \/ Crash(w)
    \/ Agent
    \/ Recovery
    \/ \E k \in Tasks : Stage(k)
    \/ World

Spec == Init /\ [][Next]_vars

(* A worker process keeps running: no step of its waits except for a lock, *)
(* and a lock wait ends by itself.                                         *)
FairSpec == Spec /\ \A w \in Workers : WF_vars(Step(w))
====
