---- MODULE Preparation ----
(***************************************************************************)
(* How a microtask gets its restore point: prepare captures every target   *)
(* into a stage directory, publishes it by one rename and then records     *)
(* BACKUP_VERIFIED; a death anywhere is resolved by recover from what is   *)
(* on disk (W1: nothing published, W2: published).  Beside it run          *)
(* transitions that verify the restore point, the mutations of an ACTIVE   *)
(* microtask and an editor.                                                *)
(***************************************************************************)
EXTENDS Integers

CONSTANTS
    Callers,       \* requests and recover calls that may run at the same time
    Cli,           \* callers that use the command line, which states no basis
    Targets,
    Bytes,
    Absent,        \* the content of a target that does not exist
    InitialBytes,  \* what each target holds at first
    ForeignBytes,  \* what an editor may write
    Payload,       \* what the microtask's own mutations leave (Absent: a delete)
    None,
    MaxEdits,      \* bound: writes by the editor
    MaxFaults      \* bound: deaths, failed captures and damaged snapshots

ASSUME PreparationAssumption ==
    /\ None \notin Callers
    /\ Cli \subseteq Callers
    /\ InitialBytes \in [Targets -> Bytes] /\ ForeignBytes \subseteq Bytes
    /\ Payload \in Bytes \ ForeignBytes /\ Absent \in Bytes
    /\ \A t \in Targets : InitialBytes[t] # Payload
    /\ MaxEdits \in Nat /\ MaxFaults \in Nat

VARIABLES
    stage,      \* status of the microtask
    file,       \* the targets in the workspace
    staged,     \* entries of the unpublished stage directory
    point,      \* entries of the published restore point
    seals,      \* of the restore point: manifest status, snapshots undamaged
    lock,       \* preparation lock
    life,       \* mutation lock, while it is held for more than one write
    pc, job,    \* where a caller is, and what it does
    basis,      \* status a caller decided on
    read,       \* target and bytes a caller has read and not yet confirmed
    spent       \* edits and faults so far

disk    == <<staged, point, seals>>
process == <<lock, life, pc, job, basis, read>>
vars    == <<stage, file, disk, process, spent>>

Prepared == {"BACKUP_VERIFIED", "READY", "ACTIVE", "DONE", "FAILED_VERIFICATION", "VERIFIED"}
Stages   == Prepared \cup {"PLANNED", "PREPARING", "BLOCKED_PREPARE"}

(* A directory: whether it exists, and the bytes of the entries in it.     *)
NoDir == [there |-> FALSE, entries |-> {}, bytes |-> InitialBytes]
EmptyDir == [there |-> TRUE, entries |-> {}, bytes |-> InitialBytes]
Captured(d, t, b) ==
    [there |-> TRUE, entries |-> d.entries \cup {t}, bytes |-> [d.bytes EXCEPT ![t] = b]]
Dirs == [there : BOOLEAN, entries : SUBSET Targets, bytes : [Targets -> Bytes]]

(* Where a caller is while it holds the preparation lock.                  *)
Capturing == {"claim", "read", "recheck", "publish", "failed", "unprepare"}
Published == {"commit", "verify", "complete"}
Held      == Capturing \cup Published \cup {"enter", "examine", "discard", "after"}
Places    == Held \cup {"idle", "wait", "move", "block", "blocking"}

TypeOK ==
    /\ stage \in Stages
    /\ file \in [Targets -> Bytes]
    /\ staged \in Dirs /\ point \in Dirs
    /\ seals \in [verified : BOOLEAN, intact : BOOLEAN]
    /\ lock \in Callers \cup {None} /\ life \in Callers \cup {None}
    /\ pc \in [Callers -> Places]
    /\ job \in [Callers -> {"prepare", "recover", "transition"}]
    /\ basis \in [Callers -> Stages]
    /\ read \in [Callers -> SUBSET (Targets \X Bytes)]
    /\ spent \in [edits : Nat, faults : Nat]

Init ==
    /\ stage = "PLANNED"
    /\ file = InitialBytes
    /\ staged = NoDir /\ point = NoDir
    /\ seals = [verified |-> FALSE, intact |-> TRUE]
    /\ lock = None /\ life = None
    /\ pc = [c \in Callers |-> "idle"]
    /\ job = [c \in Callers |-> "prepare"]
    /\ basis = [c \in Callers |-> "PLANNED"]
    /\ read = [c \in Callers |-> {}]
    /\ spent = [edits |-> 0, faults |-> 0]

-----------------------------------------------------------------------------
Goto(c, place) == pc' = [pc EXCEPT ![c] = place]

(* The call returns, and gives back the preparation lock if it had it.     *)
End(c) ==
    /\ Goto(c, "idle")
    /\ lock' = IF lock = c THEN None ELSE lock

(* verify_restore_point: the manifest says VERIFIED, every snapshot is the *)
(* bytes that were captured.                                               *)
Verifies == point.there /\ seals.verified /\ seals.intact

Fault == spent.faults < MaxFaults /\ spent' = [spent EXCEPT !.faults = @ + 1]

(* A single status write, under the mutation lock of the TASK.  Every one  *)
(* may fail: the status is no longer the expected one, the disk refuses,   *)
(* or other writers of the TASK keep the lock too long; what the code does *)
(* then is the alternative beside the write.                               *)
WriteStage(s) ==
    /\ life = None
    /\ stage' = s

-----------------------------------------------------------------------------
(* A call begins.  What it decides on is read without a lock.              *)

(* state_machine.prepare_microtask, or the command line.                   *)
AskPrepare(c) ==
    /\ pc[c] = "idle"
    /\ c \notin Cli => stage \in {"PLANNED", "BLOCKED_PREPARE"}
    /\ job' = [job EXCEPT ![c] = "prepare"]
    /\ basis' = [basis EXCEPT ![c] = stage]
    /\ Goto(c, "wait")
    /\ UNCHANGED <<stage, file, disk, lock, life, read, spent>>

(* recover meets a microtask that is PREPARING.                            *)
AskRecover(c) ==
    /\ pc[c] = "idle"
    /\ stage = "PREPARING"
    /\ job' = [job EXCEPT ![c] = "recover"]
    /\ basis' = [basis EXCEPT ![c] = stage]
    /\ Goto(c, "wait")
    /\ UNCHANGED <<stage, file, disk, lock, life, read, spent>>

(* Transitions, and those that verify the restore point first.             *)
Moves == {<<"BACKUP_VERIFIED", "READY">>, <<"READY", "ACTIVE">>, <<"ACTIVE", "DONE">>,
          <<"DONE", "VERIFIED">>, <<"DONE", "FAILED_VERIFICATION">>,
          <<"FAILED_VERIFICATION", "ACTIVE">>}

NeedsPoint(m) == m[2] \in {"READY", "ACTIVE"}

AskTransition(c) ==
    /\ pc[c] = "idle"
    /\ \E m \in Moves :
          /\ m[1] = stage
          /\ Goto(c, IF NeedsPoint(m) /\ ~Verifies THEN "block" ELSE "move")
    /\ job' = [job EXCEPT ![c] = "transition"]
    /\ basis' = [basis EXCEPT ![c] = stage]
    /\ UNCHANGED <<stage, file, disk, lock, life, read, spent>>

(* The compare-and-set of a transition (_commit, _admit_active).           *)
Move(c) ==
    /\ pc[c] = "move"
    /\ \/ /\ stage = basis[c]
          /\ \E m \in Moves : m[1] = stage /\ WriteStage(m[2])
       \/ UNCHANGED stage
    /\ End(c)
    /\ UNCHANGED <<file, disk, life, job, basis, read, spent>>

-----------------------------------------------------------------------------
(* The preparation lock, held from here to the end of the call.            *)

TakeLock(c) ==
    /\ pc[c] = "wait"
    /\ lock = None
    /\ lock' = c
    /\ Goto(c, IF job[c] = "recover" THEN "examine" ELSE "enter")
    /\ UNCHANGED <<stage, file, disk, life, job, basis, read, spent>>

(* Mutant: recover goes on when the preparation lock is not free.          *)
LockTimesOutUnheeded(c) ==
    /\ pc[c] = "wait"
    /\ lock # None
    /\ Goto(c, IF job[c] = "recover" THEN "examine" ELSE "idle")
    /\ UNCHANGED <<stage, file, disk, lock, life, job, basis, read, spent>>

(* "already running", PREPARATION_IN_PROGRESS.                             *)
LockTimesOut(c) ==
    /\ pc[c] = "wait"
    /\ lock # None
    /\ Goto(c, "idle")
    /\ UNCHANGED <<stage, file, disk, lock, life, job, basis, read, spent>>

-----------------------------------------------------------------------------
(* prepare (_prepare_locked).                                              *)

(* A published restore point is never overwritten; leftover stages are     *)
(* discarded and a new one is made.                                        *)
Enter(c) ==
    /\ pc[c] = "enter"
    /\ IF point.there
       THEN End(c) /\ UNCHANGED staged
       ELSE staged' = EmptyDir /\ Goto(c, "claim") /\ UNCHANGED lock
    /\ UNCHANGED <<stage, file, point, seals, life, job, basis, read, spent>>

(* PREPARING from the status the request was decided on; the command line  *)
(* states none and goes on when the write fails.                           *)
Claim(c) ==
    /\ pc[c] = "claim"
    /\ \/ /\ c \notin Cli => stage = basis[c]
          /\ WriteStage("PREPARING")
          /\ Goto(c, "read")
          /\ UNCHANGED <<staged, lock>>
       \/ /\ c \in Cli
          /\ Goto(c, "read")
          /\ UNCHANGED <<stage, staged, lock>>
       \/ /\ c \notin Cli
          /\ staged' = NoDir
          /\ End(c)
          /\ UNCHANGED stage
    /\ UNCHANGED <<file, point, seals, life, job, basis, read, spent>>

(* One target: read, copied, and read again, if there is a file.           *)
Read(c) ==
    /\ pc[c] = "read"
    /\ \E t \in Targets \ staged.entries : read' = [read EXCEPT ![c] = {<<t, file[t]>>}]
    /\ Goto(c, "recheck")
    /\ UNCHANGED <<stage, file, disk, lock, life, job, basis, spent>>

Recheck(c) ==
    /\ pc[c] = "recheck"
    /\ \E e \in read[c] :
          IF e[2] \in {Absent, file[e[1]]}
          THEN /\ staged' = Captured(staged, e[1], e[2])
               /\ Goto(c, IF staged'.entries = Targets THEN "publish" ELSE "read")
          ELSE Goto(c, "failed") /\ UNCHANGED staged
    /\ read' = [read EXCEPT ![c] = {}]
    /\ UNCHANGED <<stage, file, point, seals, lock, life, job, basis, spent>>

(* Any other error before publication.                                     *)
CaptureFails(c) ==
    /\ pc[c] \in {"read", "publish"}
    /\ Fault
    /\ Goto(c, "failed")
    /\ UNCHANGED <<stage, file, disk, lock, life, job, basis, read>>

Abandon(c) ==
    /\ pc[c] = "failed"
    /\ staged' = NoDir
    /\ Goto(c, "unprepare")
    /\ UNCHANGED <<stage, file, point, seals, lock, life, job, basis, read, spent>>

(* _best_effort_microtask_status: never over a newer status.               *)
Unprepare(c) ==
    /\ pc[c] = "unprepare"
    /\ \/ /\ stage \in {"PLANNED", "BLOCKED_PREPARE", "PREPARING"}
          /\ WriteStage("BLOCKED_PREPARE")
       \/ UNCHANGED stage
    /\ End(c)
    /\ UNCHANGED <<file, disk, life, job, basis, read, spent>>

(* Mutant: the status is recorded before the restore point is published.   *)
PublishRecorded(c) ==
    /\ pc[c] = "publish"
    /\ IF stage = "PREPARING"
       THEN WriteStage("BACKUP_VERIFIED") /\ UNCHANGED <<disk, pc>>
       ELSE /\ point' = staged
            /\ seals' = [verified |-> TRUE, intact |-> TRUE]
            /\ staged' = NoDir
            /\ Goto(c, "verify")
            /\ UNCHANGED stage
    /\ UNCHANGED <<file, lock, life, job, basis, read, spent>>

(* The manifest is VERIFIED and the stage becomes the restore point in one *)
(* rename.                                                                 *)
Publish(c) ==
    /\ pc[c] = "publish"
    /\ point' = staged
    /\ seals' = [verified |-> TRUE, intact |-> TRUE]
    /\ staged' = NoDir
    /\ Goto(c, "commit")
    /\ UNCHANGED <<stage, file, lock, life, job, basis, read, spent>>

Commit(c) ==
    /\ pc[c] = "commit"
    /\ \/ /\ c \notin Cli => stage = "PREPARING"
          /\ WriteStage("BACKUP_VERIFIED")
          /\ Goto(c, "verify")
       \/ /\ Goto(c, "after")
          /\ UNCHANGED stage
    /\ UNCHANGED <<file, disk, lock, life, job, basis, read, spent>>

Verify(c) ==
    /\ pc[c] = "verify"
    /\ IF Verifies THEN End(c) ELSE Goto(c, "after") /\ UNCHANGED lock
    /\ UNCHANGED <<stage, file, disk, life, job, basis, read, spent>>

(* A failure after publication blocks only a microtask that is still       *)
(* BACKUP_VERIFIED; one that is PREPARING stays so (W2).                   *)
AfterPublication(c) ==
    /\ pc[c] = "after"
    /\ IF stage = "BACKUP_VERIFIED"
       THEN Goto(c, "block") /\ basis' = [basis EXCEPT ![c] = stage] /\ UNCHANGED lock
       ELSE End(c) /\ UNCHANGED basis
    /\ UNCHANGED <<stage, file, disk, life, job, read, spent>>

-----------------------------------------------------------------------------
(* _block_restore_point: manifest, then status, under the mutation lock,   *)
(* while the status is the one the verification was decided on.  A write   *)
(* that fails is passed over.                                              *)

BlockManifest(c) ==
    /\ pc[c] = "block"
    /\ \/ /\ life = None /\ stage = basis[c]
          /\ seals' \in {[seals EXCEPT !.verified = FALSE], seals}
          /\ life' = c
          /\ Goto(c, "blocking")
          /\ UNCHANGED lock
       \/ /\ End(c)
          /\ UNCHANGED <<seals, life>>
    /\ UNCHANGED <<stage, file, staged, point, job, basis, read, spent>>

BlockStage(c) ==
    /\ pc[c] = "blocking"
    /\ stage' \in {"BLOCKED_PREPARE", stage}
    /\ life' = None
    /\ End(c)
    /\ UNCHANGED <<file, disk, job, basis, read, spent>>

-----------------------------------------------------------------------------
(* reconcile_interrupted_preparation.                                      *)

Examine(c) ==
    /\ pc[c] = "examine"
    /\ IF stage = "PREPARING"
       THEN /\ staged' = NoDir
            /\ Goto(c, IF ~point.there THEN "discard" ELSE IF Verifies THEN "complete" ELSE "block")
            /\ basis' = [basis EXCEPT ![c] = stage]
            /\ UNCHANGED lock
       ELSE End(c) /\ UNCHANGED <<staged, basis>>
    /\ UNCHANGED <<stage, file, point, seals, life, job, read, spent>>

(* W2 is completed, W1 is to be prepared again.                            *)
Reconcile(c) ==
    /\ \/ /\ stage = "PREPARING"
          /\ \/ pc[c] = "complete" /\ WriteStage("BACKUP_VERIFIED")
             \/ pc[c] = "discard" /\ WriteStage("BLOCKED_PREPARE")
       \/ pc[c] \in {"complete", "discard"} /\ UNCHANGED stage
    /\ End(c)
    /\ UNCHANGED <<file, disk, life, job, basis, read, spent>>

-----------------------------------------------------------------------------
(* The surroundings: a tracked mutation, an editor, a damaged snapshot, a  *)
(* death, after which the operating system drops the locks.                *)

Mutate(t) ==
    /\ stage = "ACTIVE"
    /\ life = None
    /\ file' = [file EXCEPT ![t] = Payload]
    /\ UNCHANGED <<stage, disk, process, spent>>

ForeignEdit(t) ==
    /\ spent.edits < MaxEdits
    /\ \E b \in ForeignBytes : file' = [file EXCEPT ![t] = b]
    /\ spent' = [spent EXCEPT !.edits = @ + 1]
    /\ UNCHANGED <<stage, disk, process>>

Damage ==
    /\ point.there
    /\ Fault
    /\ seals' = [seals EXCEPT !.intact = FALSE]
    /\ UNCHANGED <<stage, file, staged, point, process>>

Die(c) ==
    /\ pc[c] # "idle"
    /\ Fault
    /\ End(c)
    /\ life' = IF life = c THEN None ELSE life
    /\ read' = [read EXCEPT ![c] = {}]
    /\ UNCHANGED <<stage, file, disk, job, basis>>

Call(c) ==
    \/ AskPrepare(c) \/ AskRecover(c) \/ AskTransition(c) \/ Move(c)
    \/ TakeLock(c) \/ LockTimesOut(c)
    \/ Enter(c) \/ Claim(c) \/ Read(c) \/ Recheck(c) \/ CaptureFails(c)
    \/ Abandon(c) \/ Unprepare(c) \/ Publish(c) \/ Commit(c) \/ Verify(c)
    \/ AfterPublication(c) \/ BlockManifest(c) \/ BlockStage(c)
    \/ Examine(c) \/ Reconcile(c) \/ Die(c)

Next ==
    \/ \E c \in Callers : Call(c)
    \/ \E t \in Targets : Mutate(t) \/ ForeignEdit(t)
    \/ Damage

Spec == Init /\ [][Next]_vars

-----------------------------------------------------------------------------
(* A microtask that is past its preparation has a restore point, and it    *)
(* holds what each target was before anything the microtask wrote: never   *)
(* recaptured later, never lost by a death, a repeat or a reconciliation   *)
(* (prepare_microtask, "the captured original pre-state is kept").         *)
OriginalKept ==
    stage \in Prepared =>
        /\ point.there
        /\ point.entries = Targets
        /\ \A t \in Targets : point.bytes[t] # Payload

(* A running preparation is never taken for an interrupted one: while a    *)
(* server request captures, its stage directory is there and the microtask *)
(* is PREPARING, whatever recover, a repeat or a transition does beside it *)
(* ("a running preparation is never touched").                             *)
RunningUntouched ==
    \A c \in Callers :
        pc[c] \in {"read", "recheck", "publish"} =>
            /\ staged.there
            /\ c \notin Cli => stage = "PREPARING"
====
