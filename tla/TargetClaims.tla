---- MODULE TargetClaims ----
(***************************************************************************)
(* RC-3: persistent ownership of a physical target (acquire, release) and  *)
(* the compare-and-set that grants mutation authority at the boundary.     *)
(***************************************************************************)
EXTENDS Resolver

Own(o) == active[TargetOf[o]].op = o

(* Why an operation may hold or use ownership: a declared one on its       *)
(* intent, any other only as a fresh, un-aborted RETRY re-arm.             *)
Eligible(o) ==
    /\ rec[o].status \notin Completed \cup {"NONE"}
    /\ ~Aborted(o)
    /\ rec[o].status = "INTENT" \/ Current(o, "RETRY")

(* The outcome of acquire(o, revision), read under TASK and target lock.   *)
KnownClaim(o, r)      == Own(o) /\ active[TargetOf[o]].rev = r

(* Mutant: a released basis may be owned again.                            *)
NeverAlreadyReleased(o, r) == FALSE
AlreadyReleased(o, r) == ~Own(o) /\ <<o, r>> \in released

Grantable(o, r) ==
    /\ ~KnownClaim(o, r)
    /\ ~AlreadyReleased(o, r)
    /\ r = rec[o].rev
    /\ Own(o) \/ active[TargetOf[o]] = NoClaim
    /\ Eligible(o)
    /\ file[TargetOf[o]] = rec[o].pre

(* A new claim; an older one of the same operation is superseded by it.    *)
Grant(o, r) ==
    LET t == TargetOf[o]
    IN  /\ active' = [active EXCEPT ![t] = [op |-> o, rev |-> r, gen |-> generation[t]]]
        /\ generation' = [generation EXCEPT ![t] = @ + 1]
        /\ UNCHANGED released

(* Mutant: any current decision gives the claim up.                        *)
ReleasableOnDecision(o) ==
    /\ Own(o)
    /\ rec[o].status \in OpenFate => \E a \in ResolutionAction : AnyFresh(o, a)

(* An open fate keeps its claim until a fresh ADOPT or an ABORT closes it. *)
Releasable(o) ==
    /\ Own(o)
    /\ rec[o].status \in OpenFate => Aborted(o) \/ AnyFresh(o, "ADOPT")

EndClaim(o) ==
    IF Releasable(o)
    THEN /\ released' = released \cup {<<o, active[TargetOf[o]].rev>>}
         /\ active' = [active EXCEPT ![TargetOf[o]] = NoClaim]
         /\ UNCHANGED generation
    ELSE UNCHANGED claims

(* Mutant: a recovery disposition of another operation is not looked at.   *)
ExecutionAdmittedByStage(k) == open[k] /\ stage[k] = "ACTIVE"

(* The execution gate (microtask_gate.execution_refusal is None).          *)
ExecutionAdmitted(k) ==
    /\ open[k]
    /\ stage[k] = "ACTIVE"
    /\ ~DestructiveDisposition(k)

(* The boundary CAS of _cas for a caller that read revision r and holds    *)
(* the claim of generation g.                                              *)
Authorized(o, r, g) ==
    /\ Own(o)
    /\ active[TargetOf[o]].gen = g
    /\ r = rec[o].rev
    /\ active[TargetOf[o]].rev = rec[o].rev
    /\ Eligible(o)
    /\ ExecutionAdmitted(TaskOf[o])
    /\ file[TargetOf[o]] = rec[o].pre

-----------------------------------------------------------------------------
(* The HTTP control plane calls the same service for external agents.      *)

ApiAcquire(o) ==
    /\ TaskFree(TaskOf[o]) /\ TargetFree(TargetOf[o])
    /\ rec[o].status # "NONE"
    /\ Grantable(o, rec[o].rev)
    /\ Grant(o, rec[o].rev)
    /\ UNCHANGED <<records, locks, procs, history, spent>>

ApiRelease(o) ==
    /\ TaskFree(TaskOf[o]) /\ TargetFree(TargetOf[o])
    /\ Releasable(o)
    /\ EndClaim(o)
    /\ UNCHANGED <<records, locks, procs, history, spent>>
====
