---- MODULE RollbackSafety ----
(***************************************************************************)
(* What a tracked rollback must get right, and the abstract promise that   *)
(* RollbackApply implements.                                               *)
(***************************************************************************)
EXTENDS RollbackApply

(* Ownership is all or nothing whenever bytes may change: from the first   *)
(* compare-and-set of an apply until its result, the session owns every    *)
(* target, NOOP ones included, also after a crash halfway through acquire  *)
(* or through close (_acquire_all, the CLAIM_LOST check of _apply_locked). *)
AllOrNothing ==
    \A r \in Sessions :
        pc[r] \in {"restore", "write", "confirm"} => Items(r) = Owned(r)

(* VERIFIED is true while it is protected: as long as a verified session   *)
(* still owns a target, its bytes are the restore state, unless an outside *)
(* editor came after the final proof (_finalize releases only after the    *)
(* VERIFIED record is durable; tests F, I and K of the rollback suite).    *)
VerifiedStands ==
    \A r \in Sessions :
        status[r] = "VERIFIED" =>
            \A t \in Owned(r) : file[t] = InitialBytes[t] \/ t \in raced

(* No byte is lost: whatever a session overwrites or deletes is what it    *)
(* preserved of that target, also when an interrupted write is resumed; an *)
(* outside edit between compare-and-set and write is the only exception    *)
(* ("never repeat blindly", _apply_locked step 1 and step 4).              *)
NothingUnpreservedLost ==
    [][\A r \in Sessions : \A t \in Targets :
          file'[t] # file[t] /\ author'[t] = r =>
              /\ part[r][t] = "APPLYING"
              /\ file[t] = kept[r][t] \/ t \in raced]_vars

(* Ownership ends by its owner's hand: a target a session owns is given up *)
(* only by that session's release, and another claim is taken over only by *)
(* a rollback of the very operation that holds it (TARGET_CONFLICT).       *)
OwnershipEndsByOwner ==
    [][\A t \in Targets :
          LET before == claim[t].owner
              after  == claim'[t].owner
          IN  before # after =>
                  /\ before \in Sessions => pc[before] = "release" /\ after = None
                  /\ before \in Ops /\ after \in Sessions => before = SourceOf[after]]_vars

(* A session that started to restore ends: crashes, a second session over  *)
(* the same targets and lock waits do not leave it unfinished for ever.    *)
RestoresEnd ==
    \A r \in Sessions : status[r] \in {"AUTHORIZED", "APPLYING"} ~> Done(status[r])

(* A session that ended says what happened to every target and keeps no    *)
(* ownership: "CLOSED (claims released after a non-verified outcome)"      *)
(* (rollback_store.py:11).                                                 *)
ClosedOwnsNothing ==
    \A r \in Sessions : status[r] = "CLOSED" => Owned(r) = {}

-----------------------------------------------------------------------------
(* The promise: ownership counts from the durable AUTHORIZED on.           *)

Outcome(r) ==
    CASE status[r] \in {"NONE", "PREPARED", "PRESERVED"}                       -> "open"
      [] status[r] \in {"AUTHORIZED", "APPLYING"}                              -> "owning"
      [] status[r] = "VERIFIED"                                                -> "verified"
      [] status[r] \in {"PARTIAL", "FAILED", "CLOSED", "PRESERVATION_FAILED"}  -> "ended"

Holder(t) ==
    IF claim[t].owner \in Sessions /\ known[claim[t].owner] THEN claim[t].owner ELSE None

Promise == INSTANCE RestorePromise WITH
    Goal     <- InitialBytes,
    Wants    <- [r \in Sessions |-> Items(r)],
    content  <- file,
    holder   <- [t \in Targets |-> Holder(t)],
    outcome  <- [r \in Sessions |-> Outcome(r)],
    tampered <- {t \in Targets : author[t] = Outside}

(* Every behaviour of the stored, locked, interruptible session is one of  *)
(* the abstract exclusive restore.                                         *)
ImplementsPromise == Promise!Spec
====
