---- MODULE PreparationProofs ----
(***************************************************************************)
(* A restore point keeps the original, and a running preparation is left   *)
(* alone, for any number of callers, targets, edits and faults.            *)
(***************************************************************************)
EXTENDS Preparation, TLAPS

Running == {"claim", "read", "recheck", "publish"}

(* Locks: who is in the preparation section holds its lock, and who holds  *)
(* the mutation lock over two writes is blocking what it decided on.       *)
Locks ==
    /\ \A c \in Callers : pc[c] \in Held => lock = c
    /\ \A c \in Callers : life = c => pc[c] = "blocking"
    /\ \A c \in Callers : pc[c] = "blocking" => life = c /\ stage = basis[c]

(* What a caller decided on, at the places that act on it. *)
Bases ==
    \A c \in Callers :
        /\ pc[c] = "move" => basis[c] \in Prepared
        /\ pc[c] \in {"block", "blocking"} =>
              basis[c] \in Prepared \/ (basis[c] = "PREPARING" /\ lock = c)

(* The directories, as the lock holder sees them. *)
Directories ==
    \A c \in Callers :
        /\ pc[c] \in Capturing => ~point.there
        /\ pc[c] \in Running => staged.there
        /\ pc[c] = "publish" => staged.entries = Targets
        /\ pc[c] \in Published => point.there

(* Nothing the microtask wrote is in a stage or in the restore point: it   *)
(* writes only after publication, and nothing is captured after that.      *)
Originals ==
    /\ \A t \in staged.entries : staged.bytes[t] # Payload
    /\ \A c \in Callers : \A e \in read[c] : e[2] # Payload
    /\ point.there => point.entries = Targets /\ \A t \in Targets : point.bytes[t] # Payload
    /\ \A t \in Targets : file[t] = Payload => point.there
    /\ stage \in Prepared => point.there

IInv ==
    /\ TypeOK
    /\ Locks
    /\ Bases
    /\ Directories
    /\ Originals
    /\ RunningUntouched

-----------------------------------------------------------------------------

(* The two directories a call starts from. *)
LEMMA DirTypes ==
    /\ NoDir \in Dirs /\ EmptyDir \in Dirs
    /\ ~NoDir.there /\ NoDir.entries = {} /\ EmptyDir.there /\ EmptyDir.entries = {}
  BY PreparationAssumption DEF NoDir, EmptyDir, Dirs

(* A captured entry keeps the stage directory well typed. *)
LEMMA EntryType ==
    ASSUME NEW d \in Dirs, NEW t \in Targets, NEW b \in Bytes
    PROVE  Captured(d, t, b) \in Dirs
  BY DEF Captured, Dirs

(* Every step keeps the state well typed. *)
THEOREM TypeStep == TypeOK /\ [Next]_vars => TypeOK'
<1> SUFFICES ASSUME TypeOK, [Next]_vars PROVE TypeOK'
  OBVIOUS
<1> USE PreparationAssumption
    DEF TypeOK, disk, Held, Capturing, Published, Places, Goto, End, WriteStage, Stages, Prepared
<1>1. ASSUME NEW c \in Callers, AskPrepare(c) PROVE TypeOK'
  BY <1>1 DEF AskPrepare
<1>2. ASSUME NEW c \in Callers, AskRecover(c) PROVE TypeOK'
  BY <1>2 DEF AskRecover
<1>3. ASSUME NEW c \in Callers, AskTransition(c) PROVE TypeOK'
  BY <1>3 DEF AskTransition
<1>4. ASSUME NEW c \in Callers, Move(c) PROVE TypeOK'
  BY <1>4 DEF Move, Moves
<1>5. ASSUME NEW c \in Callers, TakeLock(c) PROVE TypeOK'
  BY <1>5 DEF TakeLock
<1>6. ASSUME NEW c \in Callers, LockTimesOut(c) PROVE TypeOK'
  BY <1>6 DEF LockTimesOut
<1>7. ASSUME NEW c \in Callers, Enter(c) PROVE TypeOK'
  BY <1>7, DirTypes DEF Enter
<1>8. ASSUME NEW c \in Callers, Claim(c) PROVE TypeOK'
  BY <1>8, DirTypes DEF Claim
<1>9. ASSUME NEW c \in Callers, Read(c) PROVE TypeOK'
  BY <1>9 DEF Read
<1>10. ASSUME NEW c \in Callers, Recheck(c) PROVE TypeOK'
  <2>1. PICK e \in read[c] : IF e[2] \in {Absent, file[e[1]]}
          THEN /\ staged' = Captured(staged, e[1], e[2])
               /\ Goto(c, IF staged'.entries = Targets THEN "publish" ELSE "read")
          ELSE Goto(c, "failed") /\ UNCHANGED staged
    BY <1>10 DEF Recheck
  <2>2. e[1] \in Targets /\ e[2] \in Bytes
    OBVIOUS
  <2>3. staged' \in Dirs
    BY <2>1, <2>2, EntryType
  <2>4. pc' \in [Callers -> Places]
    BY <2>1
  <2> QED
    BY <1>10, <2>3, <2>4 DEF Recheck
<1>11. ASSUME NEW c \in Callers, CaptureFails(c) PROVE TypeOK'
  BY <1>11 DEF CaptureFails, Fault
<1>12. ASSUME NEW c \in Callers, Abandon(c) PROVE TypeOK'
  BY <1>12, DirTypes DEF Abandon
<1>13. ASSUME NEW c \in Callers, Unprepare(c) PROVE TypeOK'
  BY <1>13 DEF Unprepare
<1>14. ASSUME NEW c \in Callers, Publish(c) PROVE TypeOK'
  BY <1>14, DirTypes DEF Publish
<1>15. ASSUME NEW c \in Callers, Commit(c) PROVE TypeOK'
  BY <1>15 DEF Commit
<1>16. ASSUME NEW c \in Callers, Verify(c) PROVE TypeOK'
  BY <1>16 DEF Verify
<1>17. ASSUME NEW c \in Callers, AfterPublication(c) PROVE TypeOK'
  BY <1>17 DEF AfterPublication
<1>18. ASSUME NEW c \in Callers, BlockManifest(c) PROVE TypeOK'
  BY <1>18 DEF BlockManifest
<1>19. ASSUME NEW c \in Callers, BlockStage(c) PROVE TypeOK'
  BY <1>19 DEF BlockStage
<1>20. ASSUME NEW c \in Callers, Examine(c) PROVE TypeOK'
  BY <1>20, DirTypes DEF Examine
<1>21. ASSUME NEW c \in Callers, Reconcile(c) PROVE TypeOK'
  BY <1>21 DEF Reconcile
<1>22. ASSUME NEW c \in Callers, Die(c) PROVE TypeOK'
  BY <1>22 DEF Die, Fault
<1>23. ASSUME NEW t \in Targets, Mutate(t) PROVE TypeOK'
  BY <1>23 DEF Mutate, process
<1>24. ASSUME NEW t \in Targets, ForeignEdit(t) PROVE TypeOK'
  BY <1>24 DEF ForeignEdit, process
<1>25. CASE Damage
  <2>1. seals' \in [verified : BOOLEAN, intact : BOOLEAN]
    BY <1>25 DEF Damage
  <2>2. spent' \in [edits : Nat, faults : Nat]
    BY <1>25 DEF Damage, Fault
  <2> QED
    BY <1>25, <2>1, <2>2 DEF Damage, process
<1>26. CASE UNCHANGED vars
  BY <1>26 DEF vars, process
<1> QED
  BY <1>1, <1>2, <1>3, <1>4, <1>5, <1>6, <1>7, <1>8, <1>9, <1>10, <1>11, <1>12, <1>13,
     <1>14, <1>15, <1>16, <1>17, <1>18, <1>19, <1>20, <1>21, <1>22, <1>23, <1>24, <1>25, <1>26
  DEF Next, Call

(* Nothing has happened yet: there is no restore point and no payload. *)
THEOREM InitInv == Init => IInv
<1> SUFFICES ASSUME Init PROVE IInv
  OBVIOUS
<1> USE PreparationAssumption DEF Init, NoDir
<1>1. TypeOK
  BY DEF TypeOK, Dirs, Stages, Prepared, Places
<1>2. Locks /\ Bases /\ Directories /\ RunningUntouched
  BY DEF Locks, Bases, Directories, RunningUntouched, Held, Capturing, Published, Running
<1>3. Originals
  BY DEF Originals, Prepared
<1> QED
  BY <1>1, <1>2, <1>3 DEF IInv
-----------------------------------------------------------------------------

(* One step keeps the two locks with those who hold them. *)
THEOREM LocksStep == IInv /\ TypeOK' /\ [Next]_vars => Locks'
<1> SUFFICES ASSUME IInv, TypeOK', [Next]_vars PROVE Locks'
  OBVIOUS
<1> USE PreparationAssumption
    DEF IInv, TypeOK, disk, Goto, End, WriteStage,
        Locks, Held, Capturing, Published
<1>1. ASSUME NEW c \in Callers, AskPrepare(c) PROVE Locks'
  BY <1>1 DEF AskPrepare
<1>2. ASSUME NEW c \in Callers, AskRecover(c) PROVE Locks'
  BY <1>2 DEF AskRecover
<1>3. ASSUME NEW c \in Callers, AskTransition(c) PROVE Locks'
  BY <1>3 DEF AskTransition, Moves
<1>4. ASSUME NEW c \in Callers, Move(c) PROVE Locks'
  BY <1>4 DEF Move, Moves
<1>5. ASSUME NEW c \in Callers, TakeLock(c) PROVE Locks'
  BY <1>5 DEF TakeLock
<1>6. ASSUME NEW c \in Callers, LockTimesOut(c) PROVE Locks'
  BY <1>6 DEF LockTimesOut
<1>7. ASSUME NEW c \in Callers, Enter(c) PROVE Locks'
  BY <1>7 DEF Enter
<1>8. ASSUME NEW c \in Callers, Claim(c) PROVE Locks'
  BY <1>8 DEF Claim
<1>9. ASSUME NEW c \in Callers, Read(c) PROVE Locks'
  BY <1>9 DEF Read
<1>10. ASSUME NEW c \in Callers, Recheck(c) PROVE Locks'
  BY <1>10 DEF Recheck, Captured
<1>11. ASSUME NEW c \in Callers, CaptureFails(c) PROVE Locks'
  BY <1>11 DEF CaptureFails, Fault
<1>12. ASSUME NEW c \in Callers, Abandon(c) PROVE Locks'
  BY <1>12 DEF Abandon
<1>13. ASSUME NEW c \in Callers, Unprepare(c) PROVE Locks'
  BY <1>13 DEF Unprepare
<1>14. ASSUME NEW c \in Callers, Publish(c) PROVE Locks'
  BY <1>14 DEF Publish
<1>15. ASSUME NEW c \in Callers, Commit(c) PROVE Locks'
  BY <1>15 DEF Commit
<1>16. ASSUME NEW c \in Callers, Verify(c) PROVE Locks'
  BY <1>16 DEF Verify
<1>17. ASSUME NEW c \in Callers, AfterPublication(c) PROVE Locks'
  BY <1>17 DEF AfterPublication
<1>18. ASSUME NEW c \in Callers, BlockManifest(c) PROVE Locks'
  BY <1>18 DEF BlockManifest
<1>19. ASSUME NEW c \in Callers, BlockStage(c) PROVE Locks'
  BY <1>19 DEF BlockStage
<1>20. ASSUME NEW c \in Callers, Examine(c) PROVE Locks'
  BY <1>20 DEF Examine
<1>21. ASSUME NEW c \in Callers, Reconcile(c) PROVE Locks'
  BY <1>21 DEF Reconcile
<1>22. ASSUME NEW c \in Callers, Die(c) PROVE Locks'
  BY <1>22 DEF Die, Fault
<1>23. ASSUME NEW t \in Targets, Mutate(t) PROVE Locks'
  BY <1>23 DEF Mutate, process
<1>24. ASSUME NEW t \in Targets, ForeignEdit(t) PROVE Locks'
  BY <1>24 DEF ForeignEdit, process
<1>25. CASE Damage
  BY <1>25 DEF Damage, Fault, process
<1>26. CASE UNCHANGED vars
  BY <1>26 DEF vars, process
<1> QED
  BY <1>1, <1>2, <1>3, <1>4, <1>5, <1>6, <1>7, <1>8, <1>9, <1>10, <1>11, <1>12, <1>13,
     <1>14, <1>15, <1>16, <1>17, <1>18, <1>19, <1>20, <1>21, <1>22, <1>23, <1>24, <1>25, <1>26
  DEF Next, Call

(* One step keeps what a caller decided on. *)
THEOREM BasesStep == IInv /\ TypeOK' /\ [Next]_vars => Bases'
<1> SUFFICES ASSUME IInv, TypeOK', [Next]_vars PROVE Bases'
  OBVIOUS
<1> USE PreparationAssumption
    DEF IInv, TypeOK, disk, Goto, End, WriteStage,
        Locks, Bases, Prepared, Held, Capturing, Published
<1>1. ASSUME NEW c \in Callers, AskPrepare(c) PROVE Bases'
  BY <1>1 DEF AskPrepare
<1>2. ASSUME NEW c \in Callers, AskRecover(c) PROVE Bases'
  BY <1>2 DEF AskRecover
<1>3. ASSUME NEW c \in Callers, AskTransition(c) PROVE Bases'
  BY <1>3 DEF AskTransition, Moves
<1>4. ASSUME NEW c \in Callers, Move(c) PROVE Bases'
  BY <1>4 DEF Move, Moves
<1>5. ASSUME NEW c \in Callers, TakeLock(c) PROVE Bases'
  BY <1>5 DEF TakeLock
<1>6. ASSUME NEW c \in Callers, LockTimesOut(c) PROVE Bases'
  BY <1>6 DEF LockTimesOut
<1>7. ASSUME NEW c \in Callers, Enter(c) PROVE Bases'
  BY <1>7 DEF Enter
<1>8. ASSUME NEW c \in Callers, Claim(c) PROVE Bases'
  BY <1>8 DEF Claim
<1>9. ASSUME NEW c \in Callers, Read(c) PROVE Bases'
  BY <1>9 DEF Read
<1>10. ASSUME NEW c \in Callers, Recheck(c) PROVE Bases'
  BY <1>10 DEF Recheck, Captured
<1>11. ASSUME NEW c \in Callers, CaptureFails(c) PROVE Bases'
  BY <1>11 DEF CaptureFails, Fault
<1>12. ASSUME NEW c \in Callers, Abandon(c) PROVE Bases'
  BY <1>12 DEF Abandon
<1>13. ASSUME NEW c \in Callers, Unprepare(c) PROVE Bases'
  BY <1>13 DEF Unprepare
<1>14. ASSUME NEW c \in Callers, Publish(c) PROVE Bases'
  BY <1>14 DEF Publish
<1>15. ASSUME NEW c \in Callers, Commit(c) PROVE Bases'
  BY <1>15 DEF Commit
<1>16. ASSUME NEW c \in Callers, Verify(c) PROVE Bases'
  BY <1>16 DEF Verify
<1>17. ASSUME NEW c \in Callers, AfterPublication(c) PROVE Bases'
  BY <1>17 DEF AfterPublication
<1>18. ASSUME NEW c \in Callers, BlockManifest(c) PROVE Bases'
  BY <1>18 DEF BlockManifest
<1>19. ASSUME NEW c \in Callers, BlockStage(c) PROVE Bases'
  BY <1>19 DEF BlockStage
<1>20. ASSUME NEW c \in Callers, Examine(c) PROVE Bases'
  BY <1>20 DEF Examine
<1>21. ASSUME NEW c \in Callers, Reconcile(c) PROVE Bases'
  BY <1>21 DEF Reconcile
<1>22. ASSUME NEW c \in Callers, Die(c) PROVE Bases'
  BY <1>22 DEF Die, Fault
<1>23. ASSUME NEW t \in Targets, Mutate(t) PROVE Bases'
  BY <1>23 DEF Mutate, process
<1>24. ASSUME NEW t \in Targets, ForeignEdit(t) PROVE Bases'
  BY <1>24 DEF ForeignEdit, process
<1>25. CASE Damage
  BY <1>25 DEF Damage, Fault, process
<1>26. CASE UNCHANGED vars
  BY <1>26 DEF vars, process
<1> QED
  BY <1>1, <1>2, <1>3, <1>4, <1>5, <1>6, <1>7, <1>8, <1>9, <1>10, <1>11, <1>12, <1>13,
     <1>14, <1>15, <1>16, <1>17, <1>18, <1>19, <1>20, <1>21, <1>22, <1>23, <1>24, <1>25, <1>26
  DEF Next, Call

(* One step keeps the directories as their owner left them. *)
THEOREM DirectoriesStep == IInv /\ TypeOK' /\ [Next]_vars => Directories'
<1> SUFFICES ASSUME IInv, TypeOK', [Next]_vars PROVE Directories'
  OBVIOUS
<1> USE PreparationAssumption
    DEF IInv, TypeOK, disk, Goto, End, WriteStage,
        Locks, Directories, Running, Held, Capturing, Published
<1>1. ASSUME NEW c \in Callers, AskPrepare(c) PROVE Directories'
  BY <1>1 DEF AskPrepare
<1>2. ASSUME NEW c \in Callers, AskRecover(c) PROVE Directories'
  BY <1>2 DEF AskRecover
<1>3. ASSUME NEW c \in Callers, AskTransition(c) PROVE Directories'
  BY <1>3 DEF AskTransition, Moves
<1>4. ASSUME NEW c \in Callers, Move(c) PROVE Directories'
  BY <1>4 DEF Move, Moves
<1>5. ASSUME NEW c \in Callers, TakeLock(c) PROVE Directories'
  BY <1>5 DEF TakeLock
<1>6. ASSUME NEW c \in Callers, LockTimesOut(c) PROVE Directories'
  BY <1>6 DEF LockTimesOut
<1>7. ASSUME NEW c \in Callers, Enter(c) PROVE Directories'
  BY <1>7, DirTypes DEF Enter
<1>8. ASSUME NEW c \in Callers, Claim(c) PROVE Directories'
  BY <1>8, DirTypes DEF Claim
<1>9. ASSUME NEW c \in Callers, Read(c) PROVE Directories'
  BY <1>9 DEF Read
<1>10. ASSUME NEW c \in Callers, Recheck(c) PROVE Directories'
  BY <1>10 DEF Recheck, Captured
<1>11. ASSUME NEW c \in Callers, CaptureFails(c) PROVE Directories'
  BY <1>11 DEF CaptureFails, Fault
<1>12. ASSUME NEW c \in Callers, Abandon(c) PROVE Directories'
  BY <1>12, DirTypes DEF Abandon
<1>13. ASSUME NEW c \in Callers, Unprepare(c) PROVE Directories'
  BY <1>13 DEF Unprepare
<1>14. ASSUME NEW c \in Callers, Publish(c) PROVE Directories'
  BY <1>14, DirTypes DEF Publish
<1>15. ASSUME NEW c \in Callers, Commit(c) PROVE Directories'
  BY <1>15 DEF Commit
<1>16. ASSUME NEW c \in Callers, Verify(c) PROVE Directories'
  BY <1>16 DEF Verify
<1>17. ASSUME NEW c \in Callers, AfterPublication(c) PROVE Directories'
  BY <1>17 DEF AfterPublication
<1>18. ASSUME NEW c \in Callers, BlockManifest(c) PROVE Directories'
  BY <1>18 DEF BlockManifest
<1>19. ASSUME NEW c \in Callers, BlockStage(c) PROVE Directories'
  BY <1>19 DEF BlockStage
<1>20. ASSUME NEW c \in Callers, Examine(c) PROVE Directories'
  BY <1>20, DirTypes DEF Examine
<1>21. ASSUME NEW c \in Callers, Reconcile(c) PROVE Directories'
  BY <1>21 DEF Reconcile
<1>22. ASSUME NEW c \in Callers, Die(c) PROVE Directories'
  BY <1>22 DEF Die, Fault
<1>23. ASSUME NEW t \in Targets, Mutate(t) PROVE Directories'
  BY <1>23 DEF Mutate, process
<1>24. ASSUME NEW t \in Targets, ForeignEdit(t) PROVE Directories'
  BY <1>24 DEF ForeignEdit, process
<1>25. CASE Damage
  BY <1>25 DEF Damage, Fault, process
<1>26. CASE UNCHANGED vars
  BY <1>26 DEF vars, process
<1> QED
  BY <1>1, <1>2, <1>3, <1>4, <1>5, <1>6, <1>7, <1>8, <1>9, <1>10, <1>11, <1>12, <1>13,
     <1>14, <1>15, <1>16, <1>17, <1>18, <1>19, <1>20, <1>21, <1>22, <1>23, <1>24, <1>25, <1>26
  DEF Next, Call

(* One step keeps the originals: only what nobody wrote yet is captured. *)
THEOREM OriginalsStep == IInv /\ TypeOK' /\ [Next]_vars => Originals'
<1> SUFFICES ASSUME IInv, TypeOK', [Next]_vars PROVE Originals'
  OBVIOUS
<1> USE PreparationAssumption
    DEF IInv, TypeOK, disk, Goto, End, WriteStage,
        Locks, Bases, Directories, Originals, Prepared, Running, Held, Capturing, Published
<1>1. ASSUME NEW c \in Callers, AskPrepare(c) PROVE Originals'
  BY <1>1 DEF AskPrepare
<1>2. ASSUME NEW c \in Callers, AskRecover(c) PROVE Originals'
  BY <1>2 DEF AskRecover
<1>3. ASSUME NEW c \in Callers, AskTransition(c) PROVE Originals'
  BY <1>3 DEF AskTransition, Moves
<1>4. ASSUME NEW c \in Callers, Move(c) PROVE Originals'
  BY <1>4 DEF Move, Moves
<1>5. ASSUME NEW c \in Callers, TakeLock(c) PROVE Originals'
  BY <1>5 DEF TakeLock
<1>6. ASSUME NEW c \in Callers, LockTimesOut(c) PROVE Originals'
  BY <1>6 DEF LockTimesOut
<1>7. ASSUME NEW c \in Callers, Enter(c) PROVE Originals'
  BY <1>7, DirTypes DEF Enter
<1>8. ASSUME NEW c \in Callers, Claim(c) PROVE Originals'
  BY <1>8, DirTypes DEF Claim
<1>9. ASSUME NEW c \in Callers, Read(c) PROVE Originals'
  BY <1>9 DEF Read
<1>10. ASSUME NEW c \in Callers, Recheck(c) PROVE Originals'
  <2>1. PICK e \in read[c] : IF e[2] \in {Absent, file[e[1]]}
          THEN /\ staged' = Captured(staged, e[1], e[2])
               /\ Goto(c, IF staged'.entries = Targets THEN "publish" ELSE "read")
          ELSE Goto(c, "failed") /\ UNCHANGED staged
    BY <1>10 DEF Recheck
  <2>2. e[1] \in Targets /\ e[2] \in Bytes
    OBVIOUS
  <2>3. e[2] # Payload
    OBVIOUS
  <2>4. \A t \in staged'.entries : staged'.bytes[t] # Payload
    <3>1. CASE e[2] \in {Absent, file[e[1]]}
      BY <2>1, <2>2, <2>3, <3>1 DEF Captured, Dirs
    <3>2. CASE e[2] \notin {Absent, file[e[1]]}
      BY <2>1, <3>2
    <3> QED
      BY <3>1, <3>2
  <2> QED
    BY <1>10, <2>4 DEF Recheck
<1>11. ASSUME NEW c \in Callers, CaptureFails(c) PROVE Originals'
  BY <1>11 DEF CaptureFails, Fault
<1>12. ASSUME NEW c \in Callers, Abandon(c) PROVE Originals'
  BY <1>12, DirTypes DEF Abandon
<1>13. ASSUME NEW c \in Callers, Unprepare(c) PROVE Originals'
  BY <1>13 DEF Unprepare
<1>14. ASSUME NEW c \in Callers, Publish(c) PROVE Originals'
  BY <1>14, DirTypes DEF Publish
<1>15. ASSUME NEW c \in Callers, Commit(c) PROVE Originals'
  BY <1>15 DEF Commit
<1>16. ASSUME NEW c \in Callers, Verify(c) PROVE Originals'
  BY <1>16 DEF Verify
<1>17. ASSUME NEW c \in Callers, AfterPublication(c) PROVE Originals'
  BY <1>17 DEF AfterPublication
<1>18. ASSUME NEW c \in Callers, BlockManifest(c) PROVE Originals'
  BY <1>18 DEF BlockManifest
<1>19. ASSUME NEW c \in Callers, BlockStage(c) PROVE Originals'
  BY <1>19 DEF BlockStage
<1>20. ASSUME NEW c \in Callers, Examine(c) PROVE Originals'
  BY <1>20, DirTypes DEF Examine
<1>21. ASSUME NEW c \in Callers, Reconcile(c) PROVE Originals'
  BY <1>21 DEF Reconcile
<1>22. ASSUME NEW c \in Callers, Die(c) PROVE Originals'
  BY <1>22 DEF Die, Fault
<1>23. ASSUME NEW t \in Targets, Mutate(t) PROVE Originals'
  BY <1>23 DEF Mutate, process
<1>24. ASSUME NEW t \in Targets, ForeignEdit(t) PROVE Originals'
  BY <1>24 DEF ForeignEdit, process
<1>25. CASE Damage
  BY <1>25 DEF Damage, Fault, process
<1>26. CASE UNCHANGED vars
  BY <1>26 DEF vars, process
<1> QED
  BY <1>1, <1>2, <1>3, <1>4, <1>5, <1>6, <1>7, <1>8, <1>9, <1>10, <1>11, <1>12, <1>13,
     <1>14, <1>15, <1>16, <1>17, <1>18, <1>19, <1>20, <1>21, <1>22, <1>23, <1>24, <1>25, <1>26
  DEF Next, Call

(* One step keeps a running preparation as it is. *)
THEOREM RunningStep == IInv /\ TypeOK' /\ [Next]_vars => RunningUntouched'
<1> SUFFICES ASSUME IInv, TypeOK', [Next]_vars PROVE RunningUntouched'
  OBVIOUS
<1> USE PreparationAssumption
    DEF IInv, TypeOK, disk, Goto, End, WriteStage,
        Locks, Bases, Directories, RunningUntouched, Prepared, Running, Held, Capturing, Published
<1>1. ASSUME NEW c \in Callers, AskPrepare(c) PROVE RunningUntouched'
  BY <1>1 DEF AskPrepare
<1>2. ASSUME NEW c \in Callers, AskRecover(c) PROVE RunningUntouched'
  BY <1>2 DEF AskRecover
<1>3. ASSUME NEW c \in Callers, AskTransition(c) PROVE RunningUntouched'
  BY <1>3 DEF AskTransition, Moves
<1>4. ASSUME NEW c \in Callers, Move(c) PROVE RunningUntouched'
  BY <1>4 DEF Move, Moves
<1>5. ASSUME NEW c \in Callers, TakeLock(c) PROVE RunningUntouched'
  BY <1>5 DEF TakeLock
<1>6. ASSUME NEW c \in Callers, LockTimesOut(c) PROVE RunningUntouched'
  BY <1>6 DEF LockTimesOut
<1>7. ASSUME NEW c \in Callers, Enter(c) PROVE RunningUntouched'
  BY <1>7, DirTypes DEF Enter
<1>8. ASSUME NEW c \in Callers, Claim(c) PROVE RunningUntouched'
  BY <1>8, DirTypes DEF Claim
<1>9. ASSUME NEW c \in Callers, Read(c) PROVE RunningUntouched'
  BY <1>9 DEF Read
<1>10. ASSUME NEW c \in Callers, Recheck(c) PROVE RunningUntouched'
  BY <1>10 DEF Recheck, Captured
<1>11. ASSUME NEW c \in Callers, CaptureFails(c) PROVE RunningUntouched'
  BY <1>11 DEF CaptureFails, Fault
<1>12. ASSUME NEW c \in Callers, Abandon(c) PROVE RunningUntouched'
  BY <1>12, DirTypes DEF Abandon
<1>13. ASSUME NEW c \in Callers, Unprepare(c) PROVE RunningUntouched'
  BY <1>13 DEF Unprepare
<1>14. ASSUME NEW c \in Callers, Publish(c) PROVE RunningUntouched'
  BY <1>14, DirTypes DEF Publish
<1>15. ASSUME NEW c \in Callers, Commit(c) PROVE RunningUntouched'
  BY <1>15 DEF Commit
<1>16. ASSUME NEW c \in Callers, Verify(c) PROVE RunningUntouched'
  BY <1>16 DEF Verify
<1>17. ASSUME NEW c \in Callers, AfterPublication(c) PROVE RunningUntouched'
  BY <1>17 DEF AfterPublication
<1>18. ASSUME NEW c \in Callers, BlockManifest(c) PROVE RunningUntouched'
  BY <1>18 DEF BlockManifest
<1>19. ASSUME NEW c \in Callers, BlockStage(c) PROVE RunningUntouched'
  BY <1>19 DEF BlockStage
<1>20. ASSUME NEW c \in Callers, Examine(c) PROVE RunningUntouched'
  BY <1>20, DirTypes DEF Examine
<1>21. ASSUME NEW c \in Callers, Reconcile(c) PROVE RunningUntouched'
  BY <1>21 DEF Reconcile
<1>22. ASSUME NEW c \in Callers, Die(c) PROVE RunningUntouched'
  BY <1>22 DEF Die, Fault
<1>23. ASSUME NEW t \in Targets, Mutate(t) PROVE RunningUntouched'
  BY <1>23 DEF Mutate, process
<1>24. ASSUME NEW t \in Targets, ForeignEdit(t) PROVE RunningUntouched'
  BY <1>24 DEF ForeignEdit, process
<1>25. CASE Damage
  BY <1>25 DEF Damage, Fault, process
<1>26. CASE UNCHANGED vars
  BY <1>26 DEF vars, process
<1> QED
  BY <1>1, <1>2, <1>3, <1>4, <1>5, <1>6, <1>7, <1>8, <1>9, <1>10, <1>11, <1>12, <1>13,
     <1>14, <1>15, <1>16, <1>17, <1>18, <1>19, <1>20, <1>21, <1>22, <1>23, <1>24, <1>25, <1>26
  DEF Next, Call

-----------------------------------------------------------------------------

(* IInv is inductive. *)
THEOREM Inductive == IInv /\ [Next]_vars => IInv'
<1> SUFFICES ASSUME IInv, [Next]_vars PROVE IInv'
  OBVIOUS
<1>1. TypeOK'
  BY TypeStep DEF IInv
<1> QED
  BY <1>1, LocksStep, BasesStep, DirectoriesStep, OriginalsStep, RunningStep DEF IInv

(* What it implies: a prepared stage has the original. *)
LEMMA KeepsOriginal == IInv => OriginalKept
  BY DEF IInv, Originals, OriginalKept

(* The state of a preparation is well typed in every behaviour. *)
THEOREM PreparationTypeCorrect == Spec => []TypeOK
<1>1. IInv => TypeOK
  BY DEF IInv
<1> QED
  BY <1>1, InitInv, Inductive, PTL DEF Spec

(* A microtask past its preparation always has a complete restore point of *)
(* bytes it has not written itself, whatever died or was repeated.         *)
THEOREM OriginalAlwaysKept == Spec => []OriginalKept
<1> QED
  BY KeepsOriginal, InitInv, Inductive, PTL DEF Spec

(* No recover, repeat or transition touches a preparation that is running. *)
THEOREM RunningNeverTouched == Spec => []RunningUntouched
<1>1. IInv => RunningUntouched
  BY DEF IInv
<1> QED
  BY <1>1, InitInv, Inductive, PTL DEF Spec

(* A published restore point is never replaced, emptied or taken away.     *)
THEOREM PointStays == Spec => [][point.there => point' = point]_vars
<1>1. IInv /\ [Next]_vars => [point.there => point' = point]_vars
  <2> SUFFICES ASSUME IInv, Next, point.there PROVE point' = point
    BY DEF vars
  <2>1. ASSUME NEW c \in Callers, Publish(c) PROVE FALSE
    BY <2>1 DEF Publish, IInv, Directories, Capturing
  <2>2. ASSUME NEW c \in Callers, Call(c), ~Publish(c) PROVE point' = point
    BY <2>2 DEF Call, AskPrepare, AskRecover, AskTransition, Move, TakeLock, LockTimesOut, Enter, Claim,
       Read, Recheck, CaptureFails, Abandon, Unprepare, Commit, Verify, AfterPublication, BlockManifest,
       BlockStage, Examine, Reconcile, Die, disk
  <2>3. ASSUME NEW t \in Targets, Mutate(t) \/ ForeignEdit(t) PROVE point' = point
    BY <2>3 DEF Mutate, ForeignEdit, disk
  <2>4. CASE Damage
    BY <2>4 DEF Damage
  <2> QED
    BY <2>1, <2>2, <2>3, <2>4 DEF Next
<1> QED
  BY <1>1, InitInv, Inductive, PTL DEF Spec
====
