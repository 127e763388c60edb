---- MODULE TurnProofs ----
(***************************************************************************)
(* A turn runs once, a cancel is final, a confirmed record stays, and no   *)
(* death leaves what its readers take for damage, for any number of        *)
(* callers and faults.  Everything rests on the writer lock (what one      *)
(* session has read stays true until it leaves) and on the few streams     *)
(* a turn can have beside each of its states.                              *)
(***************************************************************************)
EXTENDS TurnSafety, SequenceTheorems, TLAPS

(* A caller inside a section holds the writer lock. *)
LockHeld == \A c \in Callers : pc[c] \in InSession => writer = c

(* A caller that has reserved the attempt and has not run it yet. *)
Begun(c) == (pc[c] \in {"append", "appending"} /\ event[c] = "started") \/ pc[c] = "run"

(* Before ATTEMPTING is durable nobody has begun. *)
Unbegun == state \in {"NONE", "ACCEPTING", "READY"} => attempts = 0 /\ \A c \in Callers : ~Begun(c)

(* One caller has begun, and it has not run yet. *)
OneBegun ==
    /\ attempts <= 1
    /\ \A c \in Callers : Begun(c) => attempts = 0
    /\ \A c, d \in Callers : Begun(c) /\ Begun(d) => c = d

(* What a caller knows of the turn at its place. *)
Standing ==
    \A c \in Callers :
        /\ pc[c] = "accepted" => state = "ACCEPTING"
        /\ pc[c] = "publish" => event[c] \in DOMAIN Fate
        /\ pc[c] \in {"answer", "close"} => ~cancelled
        /\ pc[c] \in {"append", "appending"} /\ event[c] \in DOMAIN Fate => ~cancelled
        /\ pc[c] = "appending" => pending # None /\ pending.event = event[c]

(* A cancel leaves one of two states, for good. *)
CancelledState == cancelled => state \in {"CANCELLED", "UNKNOWN"}

IInv ==
    /\ TypeOK
    /\ LockHeld
    /\ Unbegun
    /\ OneBegun
    /\ Standing
    /\ CancelledState

-----------------------------------------------------------------------------

(* Every step of a caller keeps the state of the turn well typed. *)
THEOREM TypeStep == TypeOK /\ [Next]_vars => TypeOK'
<1> SUFFICES ASSUME TypeOK, [Next]_vars PROVE TypeOK'
  OBVIOUS
<1> USE TurnAssumption DEF TypeOK, StreamTypeOK, projection, chat
<1>1. ASSUME NEW c \in Callers, Submit(c) PROVE TypeOK'
  BY <1>1 DEF Submit, Goto, States, Ended, Places, InSession
<1>2. ASSUME NEW c \in Callers, Cancel(c) PROVE TypeOK'
  BY <1>2 DEF Cancel, Goto, States, Ended, Places, InSession
<1>3. ASSUME NEW c \in Callers, Accept(c) PROVE TypeOK'
  BY <1>3 DEF Accept, Goto, States, Ended, Places, InSession
<1>4. ASSUME NEW c \in Callers, Recover(c) PROVE TypeOK'
  BY <1>4 DEF Recover, Repair, Goto, States, Ended, Places, InSession, Intents, Stages
<1>5. ASSUME NEW c \in Callers, DecideSubmit(c) PROVE TypeOK'
  BY <1>5 DEF DecideSubmit, Leave, Goto, Publication, States, Ended, Places, InSession
<1>6. ASSUME NEW c \in Callers, Accepted(c) PROVE TypeOK'
  BY <1>6 DEF Accepted, Leave, Goto, States, Ended, Places, InSession
<1>7. ASSUME NEW c \in Callers, DecideCancel(c) PROVE TypeOK'
  BY <1>7 DEF DecideCancel, Leave, StartAppend, Goto, Publication, States, Ended, Places, InSession, Events
<1>8. ASSUME NEW c \in Callers, Run(c) PROVE TypeOK'
  BY <1>8 DEF Run, Goto, States, Ended, Places, InSession, Fate, Events
<1>9. ASSUME NEW c \in Callers, BeginAppend(c) PROVE TypeOK'
  BY <1>9 DEF BeginAppend, Plan, Leave, Goto, States, Ended, Places, InSession, Intents, Stages
<1>10. ASSUME NEW c \in Callers, WriteAppend(c) PROVE TypeOK'
  BY <1>10 DEF WriteAppend, Write, States, Ended, Places, InSession, Intents, Stages
<1>11. ASSUME NEW c \in Callers, EndAppend(c) PROVE TypeOK'
  BY <1>11 DEF EndAppend, Acknowledge, Leave, Goto, Publication, States, Ended, Places, InSession
<1>12. ASSUME NEW c \in Callers, Answer(c) PROVE TypeOK'
  BY <1>12 DEF Answer, Goto, States, Ended, Places, InSession
<1>13. ASSUME NEW c \in Callers, Close(c) PROVE TypeOK'
  BY <1>13 DEF Close, Leave, Goto, States, Ended, Places, InSession, Fate, Outcome
<1>14. ASSUME NEW c \in Callers, Execute(c) PROVE TypeOK'
  BY <1>14 DEF Execute, StartAppend, Goto, States, Ended, Places, InSession, Events
<1>15. ASSUME NEW c \in Callers, Publish(c) PROVE TypeOK'
  BY <1>15 DEF Publish, StartAppend, Goto, States, Ended, Places, InSession, Events
<1>16. ASSUME NEW c \in Callers, Dies(c) PROVE TypeOK'
  BY <1>16 DEF Dies, Goto, States, Ended, Places, InSession
<1>17. ASSUME NEW c \in Callers, GivesUp(c) PROVE TypeOK'
  BY <1>17 DEF GivesUp, Goto, States, Ended, Places, InSession
<1>18. CASE UNCHANGED vars
  BY <1>18 DEF vars
<1> QED
  BY <1>1, <1>2, <1>3, <1>4, <1>5, <1>6, <1>7, <1>8, <1>9, <1>10, <1>11, <1>12, <1>13, <1>14, <1>15, <1>16, <1>17, <1>18 DEF Next, Proceeds

(* A run that nobody has asked for yet is well typed. *)
LEMMA TurnInit == Init => TypeOK
<1> SUFFICES ASSUME Init PROVE TypeOK
  OBVIOUS
<1>1. StreamTypeOK
  BY DEF Init, StreamInit, StreamTypeOK
<1>2. /\ pc \in [Callers -> Places]
      /\ event \in [Callers -> Events]
      /\ doing \in [Callers -> {"submit", "cancel"}]
  BY DEF Init, Places, Events
<1>3. /\ cancelled \in BOOLEAN
      /\ user \in BOOLEAN
      /\ assistant \in BOOLEAN
  BY Zenon DEF Init
<1>4. /\ schema \in {1, 2}
      /\ state \in States
      /\ writer \in Callers \cup {None}
      /\ attempts \in Nat
      /\ faults \in 0..MaxFaults
  BY TurnAssumption DEF Init, States
<1> QED
  BY <1>1, <1>2, <1>3, <1>4 DEF TypeOK

(* Every reachable state of a turn is well typed, for any set of callers   *)
(* and any number of faults.                                               *)
THEOREM TurnTypeCorrect == Spec => []TypeOK
  BY TurnInit, TypeStep, PTL DEF Spec

-----------------------------------------------------------------------------

(* A stutter disturbs nothing. *)
LEMMA Untouched ==
    ASSUME IInv, UNCHANGED vars
    PROVE  IInv'
  BY DEF IInv, vars, projection, chat, TypeOK, StreamTypeOK, LockHeld, Unbegun, OneBegun, Begun, Standing, CancelledState

(* Every section of submit, _execute and cancel keeps what the callers     *)
(* know of the turn, and so does a death between any two of its writes.    *)
THEOREM Inductive == IInv /\ [Next]_vars => IInv'
<1> SUFFICES ASSUME IInv, [Next]_vars PROVE IInv'
  OBVIOUS
<1>0. TypeOK'
  BY TypeStep DEF IInv
<1> USE TurnAssumption DEF IInv, TypeOK, projection, chat
<1>1. ASSUME NEW c \in Callers, Submit(c) PROVE IInv'
  <2>1. LockHeld'
    BY <1>1 DEF Submit, Goto, LockHeld, InSession
  <2>2. Unbegun'
    BY <1>1 DEF Submit, Goto, LockHeld, InSession, Unbegun, Begun, Standing
  <2>3. OneBegun'
    BY <1>1 DEF Submit, Goto, LockHeld, InSession, Unbegun, OneBegun, Begun, Standing
  <2>4. Standing'
    BY <1>1 DEF Submit, Goto, LockHeld, InSession, Standing, CancelledState
  <2>5. CancelledState'
    BY <1>1 DEF Submit, Goto, LockHeld, InSession, CancelledState, Standing
  <2> QED
    BY <1>0, <2>1, <2>2, <2>3, <2>4, <2>5
<1>2. ASSUME NEW c \in Callers, Cancel(c) PROVE IInv'
  <2>1. LockHeld'
    BY <1>2 DEF Cancel, Goto, LockHeld, InSession
  <2>2. Unbegun'
    BY <1>2 DEF Cancel, Goto, LockHeld, InSession, Unbegun, Begun, Standing
  <2>3. OneBegun'
    BY <1>2 DEF Cancel, Goto, LockHeld, InSession, Unbegun, OneBegun, Begun, Standing
  <2>4. Standing'
    BY <1>2 DEF Cancel, Goto, LockHeld, InSession, Standing, CancelledState
  <2>5. CancelledState'
    BY <1>2 DEF Cancel, Goto, LockHeld, InSession, CancelledState, Standing
  <2> QED
    BY <1>0, <2>1, <2>2, <2>3, <2>4, <2>5
<1>3. ASSUME NEW c \in Callers, Accept(c) PROVE IInv'
  <2>1. LockHeld'
    BY <1>3 DEF Accept, Goto, LockHeld, InSession
  <2>2. Unbegun'
    BY <1>3 DEF Accept, Goto, LockHeld, InSession, Unbegun, Begun, Standing
  <2>3. OneBegun'
    BY <1>3 DEF Accept, Goto, LockHeld, InSession, Unbegun, OneBegun, Begun, Standing
  <2>4. Standing'
    BY <1>3 DEF Accept, Goto, LockHeld, InSession, Standing, CancelledState
  <2>5. CancelledState'
    BY <1>3 DEF Accept, Goto, LockHeld, InSession, CancelledState, Standing
  <2> QED
    BY <1>0, <2>1, <2>2, <2>3, <2>4, <2>5
<1>4. ASSUME NEW c \in Callers, Recover(c) PROVE IInv'
  <2>1. LockHeld'
    BY <1>4 DEF Recover, Repair, Goto, LockHeld, InSession
  <2>2. Unbegun'
    BY <1>4 DEF Recover, Repair, Goto, LockHeld, InSession, Unbegun, Begun, Standing
  <2>3. OneBegun'
    BY <1>4 DEF Recover, Repair, Goto, LockHeld, InSession, Unbegun, OneBegun, Begun, Standing
  <2>4. Standing'
    BY <1>4 DEF Recover, Repair, Goto, LockHeld, InSession, Standing, CancelledState
  <2>5. CancelledState'
    BY <1>4 DEF Recover, Repair, Goto, LockHeld, InSession, CancelledState, Standing
  <2> QED
    BY <1>0, <2>1, <2>2, <2>3, <2>4, <2>5
<1>5. ASSUME NEW c \in Callers, DecideSubmit(c) PROVE IInv'
  <2>1. LockHeld'
    BY <1>5 DEF DecideSubmit, Leave, Goto, Publication, LockHeld, InSession, Unpublished
  <2>2. Unbegun'
    BY <1>5 DEF DecideSubmit, Leave, Goto, Publication, LockHeld, InSession, Unbegun, Begun, Standing, Unpublished
  <2>3. OneBegun'
    BY <1>5 DEF DecideSubmit, Leave, Goto, Publication, LockHeld, InSession, Unbegun, OneBegun, Begun, Standing, Unpublished
  <2>4. Standing'
    BY <1>5 DEF DecideSubmit, Leave, Goto, Publication, LockHeld, InSession, Standing, CancelledState, Unpublished
  <2>5. CancelledState'
    BY <1>5 DEF DecideSubmit, Leave, Goto, Publication, LockHeld, InSession, CancelledState, Standing, Unpublished
  <2> QED
    BY <1>0, <2>1, <2>2, <2>3, <2>4, <2>5
<1>6. ASSUME NEW c \in Callers, Accepted(c) PROVE IInv'
  <2>1. LockHeld'
    BY <1>6 DEF Accepted, Leave, Goto, LockHeld, InSession
  <2>2. Unbegun'
    BY <1>6 DEF Accepted, Leave, Goto, LockHeld, InSession, Unbegun, Begun, Standing
  <2>3. OneBegun'
    BY <1>6 DEF Accepted, Leave, Goto, LockHeld, InSession, Unbegun, OneBegun, Begun, Standing
  <2>4. Standing'
    BY <1>6 DEF Accepted, Leave, Goto, LockHeld, InSession, Standing, CancelledState
  <2>5. CancelledState'
    BY <1>6 DEF Accepted, Leave, Goto, LockHeld, InSession, CancelledState, Standing
  <2> QED
    BY <1>0, <2>1, <2>2, <2>3, <2>4, <2>5
<1>7. ASSUME NEW c \in Callers, DecideCancel(c) PROVE IInv'
  <2>1. LockHeld'
    BY <1>7 DEF DecideCancel, Leave, StartAppend, Goto, Publication, LockHeld, InSession, Unpublished, SettledFirst, Fate
  <2>2. Unbegun'
    BY <1>7 DEF DecideCancel, Leave, StartAppend, Goto, Publication, LockHeld, InSession, Unbegun, Begun, Standing, Unpublished, SettledFirst, Fate
  <2>3. OneBegun'
    BY <1>7 DEF DecideCancel, Leave, StartAppend, Goto, Publication, LockHeld, InSession, Unbegun, OneBegun, Begun, Standing, Unpublished, SettledFirst, Fate
  <2>4. Standing'
    BY <1>7 DEF DecideCancel, Leave, StartAppend, Goto, Publication, LockHeld, InSession, Standing, CancelledState, Unpublished, SettledFirst, Fate
  <2>5. CancelledState'
    BY <1>7 DEF DecideCancel, Leave, StartAppend, Goto, Publication, LockHeld, InSession, CancelledState, Standing, Unpublished, SettledFirst, Fate
  <2> QED
    BY <1>0, <2>1, <2>2, <2>3, <2>4, <2>5
<1>8. ASSUME NEW c \in Callers, Run(c) PROVE IInv'
  <2>1. LockHeld'
    BY <1>8 DEF Run, Goto, LockHeld, InSession, Fate
  <2>2. Unbegun'
    BY <1>8 DEF Run, Goto, LockHeld, InSession, Unbegun, Begun, Standing, Fate
  <2>3. OneBegun'
    BY <1>8 DEF Run, Goto, LockHeld, InSession, Unbegun, OneBegun, Begun, Standing, Fate
  <2>4. Standing'
    BY <1>8 DEF Run, Goto, LockHeld, InSession, Standing, CancelledState, Fate
  <2>5. CancelledState'
    BY <1>8 DEF Run, Goto, LockHeld, InSession, CancelledState, Standing, Fate
  <2> QED
    BY <1>0, <2>1, <2>2, <2>3, <2>4, <2>5
<1>9. ASSUME NEW c \in Callers, BeginAppend(c) PROVE IInv'
  <2>1. LockHeld'
    BY <1>9 DEF BeginAppend, Plan, Leave, Goto, LockHeld, InSession, Fate
  <2>2. Unbegun'
    BY <1>9 DEF BeginAppend, Plan, Leave, Goto, LockHeld, InSession, Unbegun, Begun, Standing, Fate
  <2>3. OneBegun'
    BY <1>9 DEF BeginAppend, Plan, Leave, Goto, LockHeld, InSession, Unbegun, OneBegun, Begun, Standing, Fate
  <2>4. Standing'
    BY <1>9 DEF BeginAppend, Plan, Leave, Goto, LockHeld, InSession, Standing, CancelledState, Fate, StreamTypeOK, Intents, Stages, Events
  <2>5. CancelledState'
    BY <1>9 DEF BeginAppend, Plan, Leave, Goto, LockHeld, InSession, CancelledState, Standing, Fate
  <2> QED
    BY <1>0, <2>1, <2>2, <2>3, <2>4, <2>5
<1>10. ASSUME NEW c \in Callers, WriteAppend(c) PROVE IInv'
  <2>1. LockHeld'
    BY <1>10 DEF WriteAppend, Write, LockHeld, InSession
  <2>2. Unbegun'
    BY <1>10 DEF WriteAppend, Write, LockHeld, InSession, Unbegun, Begun, Standing
  <2>3. OneBegun'
    BY <1>10 DEF WriteAppend, Write, LockHeld, InSession, Unbegun, OneBegun, Begun, Standing
  <2>4. Standing'
    BY <1>10 DEF WriteAppend, Write, LockHeld, InSession, Standing, CancelledState, StreamTypeOK, Intents, Stages, Events
  <2>5. CancelledState'
    BY <1>10 DEF WriteAppend, Write, LockHeld, InSession, CancelledState, Standing
  <2> QED
    BY <1>0, <2>1, <2>2, <2>3, <2>4, <2>5
<1>11. ASSUME NEW c \in Callers, EndAppend(c) PROVE IInv'
  <2>1. LockHeld'
    BY <1>11 DEF EndAppend, Acknowledge, Leave, Goto, Publication, LockHeld, InSession, Fate
  <2>2. Unbegun'
    BY <1>11 DEF EndAppend, Acknowledge, Leave, Goto, Publication, LockHeld, InSession, Unbegun, Begun, Standing, Fate
  <2>3. OneBegun'
    BY <1>11 DEF EndAppend, Acknowledge, Leave, Goto, Publication, LockHeld, InSession, Unbegun, OneBegun, Begun, Standing, Fate
  <2>4. Standing'
    BY <1>11 DEF EndAppend, Acknowledge, Leave, Goto, Publication, LockHeld, InSession, Standing, CancelledState, Unpublished, Fate
  <2>5. CancelledState'
    BY <1>11 DEF EndAppend, Acknowledge, Leave, Goto, Publication, LockHeld, InSession, CancelledState, Standing, Fate
  <2> QED
    BY <1>0, <2>1, <2>2, <2>3, <2>4, <2>5
<1>12. ASSUME NEW c \in Callers, Answer(c) PROVE IInv'
  <2>1. LockHeld'
    BY <1>12 DEF Answer, Goto, LockHeld, InSession
  <2>2. Unbegun'
    BY <1>12 DEF Answer, Goto, LockHeld, InSession, Unbegun, Begun, Standing
  <2>3. OneBegun'
    BY <1>12 DEF Answer, Goto, LockHeld, InSession, Unbegun, OneBegun, Begun, Standing
  <2>4. Standing'
    BY <1>12 DEF Answer, Goto, LockHeld, InSession, Standing, CancelledState
  <2>5. CancelledState'
    BY <1>12 DEF Answer, Goto, LockHeld, InSession, CancelledState, Standing
  <2> QED
    BY <1>0, <2>1, <2>2, <2>3, <2>4, <2>5
<1>13. ASSUME NEW c \in Callers, Close(c) PROVE IInv'
  <2>1. LockHeld'
    BY <1>13 DEF Close, Leave, Goto, LockHeld, InSession, Fate, Outcome, Ended, States
  <2>2. Unbegun'
    BY <1>13 DEF Close, Leave, Goto, LockHeld, InSession, Unbegun, Begun, Standing, Fate, Outcome, Ended, States
  <2>3. OneBegun'
    BY <1>13 DEF Close, Leave, Goto, LockHeld, InSession, Unbegun, OneBegun, Begun, Standing, Fate, Outcome, Ended, States
  <2>4. Standing'
    BY <1>13 DEF Close, Leave, Goto, LockHeld, InSession, Standing, CancelledState, Fate, Outcome, Ended, States
  <2>5. CancelledState'
    BY <1>13 DEF Close, Leave, Goto, LockHeld, InSession, CancelledState, Standing, Fate, Outcome, Ended, States
  <2> QED
    BY <1>0, <2>1, <2>2, <2>3, <2>4, <2>5
<1>14. ASSUME NEW c \in Callers, Execute(c) PROVE IInv'
  <2>1. LockHeld'
    BY <1>14 DEF Execute, StartAppend, Goto, LockHeld, InSession, Unpublished, Startable, Fate
  <2>2. Unbegun'
    BY <1>14 DEF Execute, StartAppend, Goto, LockHeld, InSession, Unbegun, Begun, Standing, Unpublished, Startable, Fate
  <2>3. OneBegun'
    BY <1>14 DEF Execute, StartAppend, Goto, LockHeld, InSession, Unbegun, OneBegun, Begun, Standing, Unpublished, Startable, Fate
  <2>4. Standing'
    BY <1>14 DEF Execute, StartAppend, Goto, LockHeld, InSession, Standing, CancelledState, Unpublished, Startable, Fate
  <2>5. CancelledState'
    BY <1>14 DEF Execute, StartAppend, Goto, LockHeld, InSession, CancelledState, Standing, Unpublished, Startable, Fate
  <2> QED
    BY <1>0, <2>1, <2>2, <2>3, <2>4, <2>5
<1>15. ASSUME NEW c \in Callers, Publish(c) PROVE IInv'
  <2>1. LockHeld'
    BY <1>15 DEF Publish, StartAppend, Goto, LockHeld, InSession, Withdrawn, Fate
  <2>2. Unbegun'
    BY <1>15 DEF Publish, StartAppend, Goto, LockHeld, InSession, Unbegun, Begun, Standing, Withdrawn, Fate
  <2>3. OneBegun'
    BY <1>15 DEF Publish, StartAppend, Goto, LockHeld, InSession, Unbegun, OneBegun, Begun, Standing, Withdrawn, Fate
  <2>4. Standing'
    BY <1>15 DEF Publish, StartAppend, Goto, LockHeld, InSession, Standing, CancelledState, Withdrawn, Fate
  <2>5. CancelledState'
    BY <1>15 DEF Publish, StartAppend, Goto, LockHeld, InSession, CancelledState, Standing, Withdrawn, Fate
  <2> QED
    BY <1>0, <2>1, <2>2, <2>3, <2>4, <2>5
<1>16. ASSUME NEW c \in Callers, Dies(c) PROVE IInv'
  <2>1. LockHeld'
    BY <1>16 DEF Dies, Goto, LockHeld, InSession
  <2>2. Unbegun'
    BY <1>16 DEF Dies, Goto, LockHeld, InSession, Unbegun, Begun, Standing
  <2>3. OneBegun'
    BY <1>16 DEF Dies, Goto, LockHeld, InSession, Unbegun, OneBegun, Begun, Standing
  <2>4. Standing'
    BY <1>16 DEF Dies, Goto, LockHeld, InSession, Standing, CancelledState
  <2>5. CancelledState'
    BY <1>16 DEF Dies, Goto, LockHeld, InSession, CancelledState, Standing
  <2> QED
    BY <1>0, <2>1, <2>2, <2>3, <2>4, <2>5
<1>17. ASSUME NEW c \in Callers, GivesUp(c) PROVE IInv'
  <2>1. LockHeld'
    BY <1>17 DEF GivesUp, Goto, LockHeld, InSession
  <2>2. Unbegun'
    BY <1>17 DEF GivesUp, Goto, LockHeld, InSession, Unbegun, Begun, Standing
  <2>3. OneBegun'
    BY <1>17 DEF GivesUp, Goto, LockHeld, InSession, Unbegun, OneBegun, Begun, Standing
  <2>4. Standing'
    BY <1>17 DEF GivesUp, Goto, LockHeld, InSession, Standing, CancelledState
  <2>5. CancelledState'
    BY <1>17 DEF GivesUp, Goto, LockHeld, InSession, CancelledState, Standing
  <2> QED
    BY <1>0, <2>1, <2>2, <2>3, <2>4, <2>5
<1> QED
  BY Untouched, <1>1, <1>2, <1>3, <1>4, <1>5, <1>6, <1>7, <1>8, <1>9, <1>10, <1>11, <1>12, <1>13, <1>14, <1>15, <1>16, <1>17 DEF Next, Proceeds

(* Before its reservation nothing is known of a turn. *)
LEMMA InvariantInit == Init => IInv
<1> SUFFICES ASSUME Init PROVE IInv
  OBVIOUS
<1>1. TypeOK
  BY TurnInit
<1>2. LockHeld /\ Unbegun /\ OneBegun /\ Standing /\ CancelledState
  BY DEF Init, LockHeld, InSession, Unbegun, OneBegun, Begun, Standing, CancelledState
<1> QED
  BY <1>1, <1>2 DEF IInv

(* The invariant holds from the reservation of the turn on. *)
THEOREM InvariantHolds == Spec => []IInv
  BY InvariantInit, Inductive, PTL DEF Spec

-----------------------------------------------------------------------------

(* A turn is attempted once, whoever repeats the request and dies, for any *)
(* number of callers (TurnService._execute).                               *)
THEOREM AttemptedOnce == Spec => []RunsOnce
<1>1. IInv => RunsOnce
  BY DEF IInv, OneBegun, RunsOnce
<1> QED
  BY <1>1, InvariantHolds, PTL

(* Recording anything but an outcome proves no outcome. *)
LEMMA NoOutcomeAdded ==
    ASSUME NEW s \in Seq(Events), NEW e \in Events, e \notin DOMAIN Fate
    PROVE  Outcome(Append(s, e)) = Outcome(s)
<1>1. \A i \in DOMAIN s : i \in DOMAIN Append(s, e) /\ Append(s, e)[i] = s[i]
  OBVIOUS
<1>2. \A i \in DOMAIN Append(s, e) : i \in DOMAIN s \/ Append(s, e)[i] = e
  OBVIOUS
<1> QED
  BY <1>1, <1>2 DEF Outcome

(* After a recorded cancel nothing is decided or published any more, also  *)
(* by an attempt that was already running (_execute, _execute_offline).    *)
THEOREM CancelStands == Spec => CancelIsFinal
<1> DEFINE Kept == state' = state /\ cancelled' /\ assistant' = assistant /\ Outcome(log') = Outcome(log)
<1>1. ASSUME IInv, [Next]_vars, cancelled PROVE Kept
  <2> USE <1>1 DEF IInv, projection, chat
  <2>1. state \in {"CANCELLED", "UNKNOWN"}
    BY DEF CancelledState
  <2>2. ASSUME NEW c \in Callers, Submit(c) PROVE Kept
    BY <2>1, <2>2 DEF Submit
  <2>3. ASSUME NEW c \in Callers, Cancel(c) PROVE Kept
    BY <2>1, <2>3 DEF Cancel
  <2>4. ASSUME NEW c \in Callers, Accept(c) PROVE Kept
    BY <2>1, <2>4 DEF Accept
  <2>5. ASSUME NEW c \in Callers, Recover(c) PROVE Kept
    BY <2>1, <2>5 DEF Recover, Repair
  <2>6. ASSUME NEW c \in Callers, DecideSubmit(c) PROVE Kept
    BY <2>1, <2>6 DEF DecideSubmit, Unpublished
  <2>7. ASSUME NEW c \in Callers, Accepted(c) PROVE Kept
    BY <2>1, <2>7 DEF Accepted, Standing
  <2>8. ASSUME NEW c \in Callers, DecideCancel(c) PROVE Kept
    BY <2>1, <2>8 DEF DecideCancel, SettledFirst, Unpublished
  <2>9. ASSUME NEW c \in Callers, Run(c) PROVE Kept
    BY <2>1, <2>9 DEF Run
  <2>10. ASSUME NEW c \in Callers, BeginAppend(c) PROVE Kept
    BY <2>1, <2>10 DEF BeginAppend, Plan
  <2>11. ASSUME NEW c \in Callers, WriteAppend(c) PROVE Kept
    <3>1. event[c] \notin DOMAIN Fate
      BY <2>11 DEF WriteAppend, Standing
    <3>2. pending.event = event[c] /\ pending.event \in Events /\ log \in Seq(Events)
      BY <2>11 DEF WriteAppend, Standing, TypeOK, StreamTypeOK
    <3>3. log' = log \/ log' = Append(log, pending.event)
      BY <2>11 DEF WriteAppend, Write
    <3>4. Outcome(log') = Outcome(log)
      BY <3>1, <3>2, <3>3, NoOutcomeAdded
    <3> QED
      BY <2>11, <3>4 DEF WriteAppend
  <2>12. ASSUME NEW c \in Callers, EndAppend(c) PROVE Kept
    BY <2>1, <2>12 DEF EndAppend, Acknowledge
  <2>13. ASSUME NEW c \in Callers, Answer(c) PROVE Kept
    BY <2>1, <2>13 DEF Answer, Standing
  <2>14. ASSUME NEW c \in Callers, Close(c) PROVE Kept
    BY <2>1, <2>14 DEF Close, Standing
  <2>15. ASSUME NEW c \in Callers, Execute(c) PROVE Kept
    BY <2>1, <2>15 DEF Execute, Startable
  <2>16. ASSUME NEW c \in Callers, Publish(c) PROVE Kept
    BY <2>1, <2>16 DEF Publish
  <2>17. ASSUME NEW c \in Callers, Dies(c) PROVE Kept
    BY <2>1, <2>17 DEF Dies
  <2>18. ASSUME NEW c \in Callers, GivesUp(c) PROVE Kept
    BY <2>1, <2>18 DEF GivesUp
  <2>19. CASE UNCHANGED vars
    BY <2>19 DEF vars
  <2> QED
    BY <2>2, <2>3, <2>4, <2>5, <2>6, <2>7, <2>8, <2>9, <2>10, <2>11, <2>12, <2>13, <2>14, <2>15, <2>16, <2>17, <2>18, <2>19 DEF Next, Proceeds
<1>2. IInv /\ [Next]_vars => [cancelled => Kept]_vars
  BY <1>1
<1> QED
  BY <1>2, InvariantHolds, PTL DEF Spec, CancelIsFinal

(* What the index has confirmed stays confirmed, through every death and   *)
(* every repair (append_run_record, recover_run_records).                  *)
THEOREM ConfirmedIsKept == Spec => ConfirmedStays
<1> DEFINE Kept == Len(log) <= Len(log') /\ log = SubSeq(log', 1, Len(log))
<1>1. ASSUME IInv, [Next]_vars PROVE Kept
  <2> USE <1>1
  <2>1. log \in Seq(Events) /\ (pending # None => pending.event \in Events)
    BY DEF IInv, TypeOK, StreamTypeOK, Intents
  <2>2. log' = log \/ (pending # None /\ log' = Append(log, pending.event))
    <3>1. ASSUME NEW c \in Callers, WriteAppend(c) PROVE log' = log \/ (pending # None /\ log' = Append(log, pending.event))
      BY <3>1 DEF WriteAppend, Write
    <3>2. ASSUME NEW c \in Callers, \/ Submit(c) \/ Cancel(c) \/ Accept(c) \/ DecideSubmit(c) \/ Accepted(c)
                                     \/ DecideCancel(c) \/ Run(c) \/ Answer(c) \/ Close(c)
                                     \/ Execute(c) \/ Publish(c) \/ Dies(c) \/ GivesUp(c)
          PROVE  log' = log
      BY <3>2 DEF Submit, Cancel, Accept, DecideSubmit, Accepted, DecideCancel, Run, Answer, Close,
                  Execute, Publish, Dies, GivesUp
    <3>3. ASSUME NEW c \in Callers, Recover(c) \/ BeginAppend(c) \/ EndAppend(c) PROVE log' = log
      BY <3>3 DEF Recover, Repair, BeginAppend, Plan, EndAppend, Acknowledge
    <3>4. CASE UNCHANGED vars
      BY <3>4 DEF vars
    <3> QED
      BY <3>1, <3>2, <3>3, <3>4 DEF Next, Proceeds
  <2>3. CASE log' = log
    BY <2>1, <2>3
  <2>4. CASE pending # None /\ log' = Append(log, pending.event)
    BY <2>1, <2>4
  <2> QED
    BY <2>2, <2>3, <2>4
<1>2. IInv /\ [Next]_vars => [Kept]_vars
  BY <1>1
<1> QED
  BY <1>2, InvariantHolds, PTL DEF Spec, ConfirmedStays

-----------------------------------------------------------------------------
(* What the stream may say beside each state of the turn.                  *)

Unstarted == {"NONE", "ACCEPTING", "READY"}

Reported(e) == log = <<"started", e>>

Withdrawals ==
    {<<>>, <<"cancel">>, <<"started">>, <<"started", "cancel">>,
     <<"started", "discarded">>, <<"started", "cancel", "discarded">>}

LocalOutcomes == {"result", "failed"}

Story ==
    /\ state \in Unstarted => log = <<>> /\ ~cancelled /\ ~assistant
    /\ state \notin {"NONE", "ACCEPTING"} => user
    /\ state = "ATTEMPTING" =>
          /\ ~cancelled
          /\ log \in {<<>>, <<"started">>} \/ \E e \in DOMAIN Fate : Reported(e)
    /\ state = "SUCCEEDED" => ~cancelled /\ Reported("result") /\ assistant
    /\ state = "FAILED" => ~cancelled /\ Reported("failed")
    /\ state = "UNKNOWN" /\ ~cancelled => Reported("uncertain")
    /\ state = "CANCELLED" => cancelled /\ log \in {<<>>, <<"cancel">>}
    /\ state = "UNKNOWN" /\ cancelled =>
          \/ log \in Withdrawals
          \/ schema = 1 /\ \E e \in LocalOutcomes : Reported(e) \/ log = <<"started", e, "cancel">>
    /\ schema = 1 => ~Reported("uncertain")
    /\ assistant => Reported("result") \/ log = <<"started", "result", "cancel">>

(* The record that comes next, if e is recorded. *)
Due(e) ==
    /\ e = "started" => log = <<>> /\ state = "ATTEMPTING"
    /\ e \in DOMAIN Fate =>
          log = <<"started">> /\ state = "ATTEMPTING" /\ (e = "uncertain" => schema = 2)
    /\ e = "cancel" =>
          /\ cancelled
          /\ \/ log = <<>>
             \/ log = <<"started">> /\ state = "UNKNOWN"
             \/ schema = 1 /\ state = "UNKNOWN" /\ \E d \in LocalOutcomes : Reported(d)
    /\ e = "discarded" =>
          /\ cancelled /\ state = "UNKNOWN"
          /\ log \in {<<"started">>, <<"started", "cancel">>}

(* The record that came last. *)
JustRecorded(e) ==
    /\ e = "started" => log = <<"started">> /\ state = "ATTEMPTING"
    /\ e \in DOMAIN Fate => Reported(e) /\ state = "ATTEMPTING"
    /\ e \in {"cancel", "discarded"} => cancelled

PendingFits ==
    pending # None =>
        /\ state \notin Unstarted
        /\ IF pending.stage = "done" THEN JustRecorded(pending.event) ELSE Due(pending.event)

(* A caller between the record of its attempt and that of its outcome. *)
Attempting(c) ==
    \/ Begun(c) \/ pc[c] = "publish"
    \/ pc[c] \in {"append", "appending"} /\ event[c] \in DOMAIN Fate \cup {"discarded"}

OneAttempting == \A c, d \in Callers : Attempting(c) /\ Attempting(d) => c = d

(* What an attempt that runs, or waits to publish, leaves undecided. *)
Undecided ==
    /\ cancelled \/ (state = "ATTEMPTING" /\ log = <<"started">> /\ pending = None)
    /\ cancelled => /\ state = "UNKNOWN"
                    /\ log \in {<<"started">>, <<"started", "cancel">>}
                    /\ pending # None => pending.event = "cancel"

(* What a caller has read or written under the lock and relies on. *)
Knows(c) ==
    /\ pc[c] \in {"decide", "accepted", "answer", "close"} => pending = None
    /\ pc[c] = "accepted" => user
    /\ pc[c] = "append" => Due(event[c])
    /\ pc[c] \in {"run", "publish"} => Undecided
    /\ pc[c] = "publish" => event[c] \in DOMAIN Fate /\ (event[c] = "uncertain" => schema = 2)
    /\ pc[c] = "answer" => state = "ATTEMPTING" /\ Reported("result")
    /\ pc[c] = "close" =>
          /\ state = "ATTEMPTING"
          /\ \E e \in DOMAIN Fate : Reported(e) /\ (e = "result" => assistant)

Known == \A c \in Callers : Knows(c)

StoryInv == IInv /\ Story /\ PendingFits /\ OneAttempting /\ Known
-----------------------------------------------------------------------------
(* Short streams.                                                          *)

LEMMA FateEvents == DOMAIN Fate = {"result", "failed", "uncertain"} /\ DOMAIN Fate \subseteq Events
  BY DEF Fate, Events

(* What a stream of up to three records is, and what follows it. *)
LEMMA ShortStreams ==
  ASSUME NEW d \in Events, NEW e \in Events, NEW f \in Events
  PROVE  /\ <<d>> \in Seq(Events) /\ Len(<<d>>) = 1 /\ <<d>>[1] = d
         /\ <<d, e>> \in Seq(Events) /\ Len(<<d, e>>) = 2 /\ <<d, e>>[1] = d /\ <<d, e>>[2] = e
         /\ <<d, e, f>> \in Seq(Events) /\ Len(<<d, e, f>>) = 3
         /\ <<d, e, f>>[1] = d /\ <<d, e, f>>[2] = e /\ <<d, e, f>>[3] = f
  OBVIOUS

LEMMA NextRecord ==
  ASSUME NEW d \in Events, NEW e \in Events, NEW f \in Events
  PROVE  /\ Append(<<>>, d) = <<d>>
         /\ Append(<<d>>, e) = <<d, e>>
         /\ Append(<<d, e>>, f) = <<d, e, f>>
<1>1. Append(<<>>, d) = <<d>>
  OBVIOUS
<1>2. Append(<<d>>, e) = <<d, e>>
  <2> DEFINE s == Append(<<d>>, e)
             t == <<d, e>>
  <2>1. /\ s \in Seq(Events) /\ Len(s) = 2
        /\ s[1] = d /\ s[2] = e
    BY ShortStreams, AppendProperties
  <2>2. t \in Seq(Events) /\ Len(t) = 2 /\ \A i \in 1..2 : s[i] = t[i]
    BY <2>1, ShortStreams
  <2> HIDE DEF s, t
  <2>3. s = t
    BY <2>1, <2>2, SeqEqual
  <2> QED
    BY <2>3 DEF s, t
<1>3. Append(<<d, e>>, f) = <<d, e, f>>
  <2> DEFINE s == Append(<<d, e>>, f)
             t == <<d, e, f>>
  <2>1. /\ s \in Seq(Events) /\ Len(s) = 3
        /\ s[1] = d /\ s[2] = e /\ s[3] = f
    BY ShortStreams, AppendProperties
  <2>2. t \in Seq(Events) /\ Len(t) = 3 /\ \A i \in 1..3 : s[i] = t[i]
    BY <2>1, ShortStreams
  <2> HIDE DEF s, t
  <2>3. s = t
    BY <2>1, <2>2, SeqEqual
  <2> QED
    BY <2>3 DEF s, t
<1> QED
  BY <1>1, <1>2, <1>3

LEMMA Joined ==
  ASSUME NEW d \in Events, NEW e \in Events, NEW f \in Events
  PROVE  /\ <<>> \o <<>> = <<>> /\ <<>> \o <<d>> = <<d>> /\ <<d>> \o <<>> = <<d>>
         /\ <<d>> \o <<e>> = <<d, e>> /\ <<d, e>> \o <<>> = <<d, e>>
         /\ <<d, e>> \o <<f>> = <<d, e, f>>
<1>1. <<>> \o <<>> = <<>> /\ <<>> \o <<d>> = <<d>> /\ <<d>> \o <<>> = <<d>> /\ <<d, e>> \o <<>> = <<d, e>>
  BY ShortStreams, ConcatEmptySeq, EmptySeq
<1>2. <<d>> \o <<e>> = <<d, e>>
  <2> DEFINE s == <<d>> \o <<e>>
             t == <<d, e>>
  <2>1. /\ s \in Seq(Events) /\ Len(s) = 2
        /\ s[1] = d /\ s[2] = e
    BY ShortStreams, ConcatProperties
  <2>2. t \in Seq(Events) /\ Len(t) = 2 /\ \A i \in 1..2 : s[i] = t[i]
    BY <2>1, ShortStreams
  <2> HIDE DEF s, t
  <2>3. s = t
    BY <2>1, <2>2, SeqEqual
  <2> QED
    BY <2>3 DEF s, t
<1>3. <<d, e>> \o <<f>> = <<d, e, f>>
  <2> DEFINE s == <<d, e>> \o <<f>>
             t == <<d, e, f>>
  <2>1. /\ s \in Seq(Events) /\ Len(s) = 3
        /\ s[1] = d /\ s[2] = e /\ s[3] = f
    BY ShortStreams, ConcatProperties
  <2>2. t \in Seq(Events) /\ Len(t) = 3 /\ \A i \in 1..3 : s[i] = t[i]
    BY <2>1, ShortStreams
  <2> HIDE DEF s, t
  <2>3. s = t
    BY <2>1, <2>2, SeqEqual
  <2> QED
    BY <2>3 DEF s, t
<1> QED
  BY <1>1, <1>2, <1>3

(* What a short stream proves. *)
LEMMA Proves ==
  ASSUME NEW d \in Events, NEW e \in Events, NEW f \in Events, NEW x \in Events
  PROVE  /\ If(x, <<>>) = <<>>
         /\ If(x, <<d>>) = IF x = d THEN <<x>> ELSE <<>>
         /\ If(x, <<d, e>>) = IF x \in {d, e} THEN <<x>> ELSE <<>>
         /\ If(x, <<d, e, f>>) = IF x \in {d, e, f} THEN <<x>> ELSE <<>>
<1>1. ~ \E i \in DOMAIN <<>> : <<>>[i] = x
  OBVIOUS
<1>2. (\E i \in DOMAIN <<d>> : <<d>>[i] = x) <=> x = d
  OBVIOUS
<1>3. (\E i \in DOMAIN <<d, e>> : <<d, e>>[i] = x) <=> x \in {d, e}
  OBVIOUS
<1>4. (\E i \in DOMAIN <<d, e, f>> : <<d, e, f>>[i] = x) <=> x \in {d, e, f}
  OBVIOUS
<1> QED
  BY <1>1, <1>2, <1>3, <1>4 DEF If

LEMMA Outcomes ==
  ASSUME NEW d \in Events, NEW e \in Events, NEW f \in Events
  PROVE  /\ Outcome(<<>>) = {}
         /\ Outcome(<<d>>) = {d} \cap DOMAIN Fate
         /\ Outcome(<<d, e>>) = {d, e} \cap DOMAIN Fate
         /\ Outcome(<<d, e, f>>) = {d, e, f} \cap DOMAIN Fate
<1>1. Outcome(<<>>) = {}
  BY DEF Outcome
<1>2. \A x \in DOMAIN Fate :
        /\ (\E i \in DOMAIN <<d>> : <<d>>[i] = x) <=> x \in {d}
        /\ (\E i \in DOMAIN <<d, e>> : <<d, e>>[i] = x) <=> x \in {d, e}
        /\ (\E i \in DOMAIN <<d, e, f>> : <<d, e, f>>[i] = x) <=> x \in {d, e, f}
  OBVIOUS
<1>3. Outcome(<<d>>) = {d} \cap DOMAIN Fate
  BY <1>2, Zenon DEF Outcome
<1>4. Outcome(<<d, e>>) = {d, e} \cap DOMAIN Fate
  BY <1>2, Zenon DEF Outcome
<1>5. Outcome(<<d, e, f>>) = {d, e, f} \cap DOMAIN Fate
  BY <1>2, Zenon DEF Outcome
<1> QED
  BY <1>1, <1>3, <1>4, <1>5

(* The events by name, and the outcomes of the streams a turn can leave. *)
LEMMA KnownEvents ==
  /\ "started" \in Events /\ "cancel" \in Events /\ "discarded" \in Events
  /\ "result" \in Events /\ "failed" \in Events /\ "uncertain" \in Events
  /\ "started" \notin DOMAIN Fate /\ "cancel" \notin DOMAIN Fate /\ "discarded" \notin DOMAIN Fate
  /\ LocalOutcomes \subseteq DOMAIN Fate
  BY DEF Events, Fate, LocalOutcomes

LEMMA Spelled ==
  /\ \A e \in DOMAIN Fate : Outcome(<<"started", e>>) = {e} /\ Outcome(<<"started", e, "cancel">>) = {e}
  /\ \A s \in Withdrawals : Outcome(s) = {}
<1>1. ASSUME NEW e \in DOMAIN Fate PROVE Outcome(<<"started", e>>) = {e}
  BY DEF Outcome, Fate
<1>2. ASSUME NEW e \in DOMAIN Fate PROVE Outcome(<<"started", e, "cancel">>) = {e}
  BY DEF Outcome, Fate
<1>3. Outcome(<<>>) = {}
  BY DEF Outcome, Fate
<1>4. Outcome(<<"cancel">>) = {}
  BY DEF Outcome, Fate
<1>5. Outcome(<<"started">>) = {}
  BY DEF Outcome, Fate
<1>6. Outcome(<<"started", "cancel">>) = {}
  BY DEF Outcome, Fate
<1>7. Outcome(<<"started", "discarded">>) = {}
  BY DEF Outcome, Fate
<1>8. Outcome(<<"started", "cancel", "discarded">>) = {}
  BY DEF Outcome, Fate
<1> QED
  BY <1>1, <1>2, <1>3, <1>4, <1>5, <1>6, <1>7, <1>8 DEF Withdrawals

Begins(s) == \E i \in DOMAIN s : s[i] = "started"

WithdrawalOrder(s) ==
    If("started", s) \o If("cancel", s) \o (IF Begins(s) THEN If("discarded", s) ELSE <<>>)

OutcomeOrder(s) ==
    If("started", s) \o If("result", s) \o If("failed", s) \o If("uncertain", s)

(* A withdrawn turn of schema 2 has the very order its reader demands. *)
LEMMA WithdrawnInOrder == \A s \in Withdrawals : s = WithdrawalOrder(s)
<1> USE Joined, KnownEvents
<1>1. <<>> = WithdrawalOrder(<<>>)
  <2>1. If("started", <<>>) = <<>>
    BY DEF If
  <2>2. If("cancel", <<>>) = <<>>
    BY DEF If
  <2>3. If("discarded", <<>>) = <<>>
    BY DEF If
  <2>4. ~Begins(<<>>)
    BY DEF Begins
  <2> QED
    BY <2>1, <2>2, <2>3, <2>4 DEF WithdrawalOrder
<1>2. <<"cancel">> = WithdrawalOrder(<<"cancel">>)
  <2>1. If("started", <<"cancel">>) = <<>>
    BY DEF If
  <2>2. If("cancel", <<"cancel">>) = <<"cancel">>
    BY DEF If
  <2>3. If("discarded", <<"cancel">>) = <<>>
    BY DEF If
  <2>4. ~Begins(<<"cancel">>)
    BY DEF Begins
  <2> QED
    BY <2>1, <2>2, <2>3, <2>4 DEF WithdrawalOrder
<1>3. <<"started">> = WithdrawalOrder(<<"started">>)
  <2>1. If("started", <<"started">>) = <<"started">>
    BY DEF If
  <2>2. If("cancel", <<"started">>) = <<>>
    BY DEF If
  <2>3. If("discarded", <<"started">>) = <<>>
    BY DEF If
  <2>4. Begins(<<"started">>)
    BY DEF Begins
  <2> QED
    BY <2>1, <2>2, <2>3, <2>4 DEF WithdrawalOrder
<1>4. <<"started", "cancel">> = WithdrawalOrder(<<"started", "cancel">>)
  <2>1. If("started", <<"started", "cancel">>) = <<"started">>
    BY DEF If
  <2>2. If("cancel", <<"started", "cancel">>) = <<"cancel">>
    BY DEF If
  <2>3. If("discarded", <<"started", "cancel">>) = <<>>
    BY DEF If
  <2>4. Begins(<<"started", "cancel">>)
    BY DEF Begins
  <2> QED
    BY <2>1, <2>2, <2>3, <2>4 DEF WithdrawalOrder
<1>5. <<"started", "discarded">> = WithdrawalOrder(<<"started", "discarded">>)
  <2>1. If("started", <<"started", "discarded">>) = <<"started">>
    BY DEF If
  <2>2. If("cancel", <<"started", "discarded">>) = <<>>
    BY DEF If
  <2>3. If("discarded", <<"started", "discarded">>) = <<"discarded">>
    BY DEF If
  <2>4. Begins(<<"started", "discarded">>)
    BY DEF Begins
  <2> QED
    BY <2>1, <2>2, <2>3, <2>4 DEF WithdrawalOrder
<1>6. <<"started", "cancel", "discarded">> = WithdrawalOrder(<<"started", "cancel", "discarded">>)
  <2>1. If("started", <<"started", "cancel", "discarded">>) = <<"started">>
    BY DEF If
  <2>2. If("cancel", <<"started", "cancel", "discarded">>) = <<"cancel">>
    BY DEF If
  <2>3. If("discarded", <<"started", "cancel", "discarded">>) = <<"discarded">>
    BY DEF If
  <2>4. Begins(<<"started", "cancel", "discarded">>)
    BY DEF Begins
  <2>5. <<"started">> \o <<"cancel">> = <<"started", "cancel">>
    OBVIOUS
  <2>6. <<"started", "cancel">> \o <<"discarded">> = <<"started", "cancel", "discarded">>
    OBVIOUS
  <2> QED
    BY <2>1, <2>2, <2>3, <2>4, <2>5, <2>6 DEF WithdrawalOrder
<1> QED
  BY <1>1, <1>2, <1>3, <1>4, <1>5, <1>6 DEF Withdrawals

(* So has one that ran to an outcome, or to the start of its attempt. *)
LEMMA OutcomeInOrder ==
  /\ <<>> = OutcomeOrder(<<>>)
  /\ <<"started">> = OutcomeOrder(<<"started">>)
  /\ \A e \in DOMAIN Fate : <<"started", e>> = OutcomeOrder(<<"started", e>>)
<1> USE Joined, KnownEvents
<1>1. <<>> = OutcomeOrder(<<>>)
  <2>1. If("started", <<>>) = <<>>
    BY DEF If
  <2>2. If("result", <<>>) = <<>>
    BY DEF If
  <2>3. If("failed", <<>>) = <<>>
    BY DEF If
  <2>4. If("uncertain", <<>>) = <<>>
    BY DEF If
  <2> QED
    BY <2>1, <2>2, <2>3, <2>4 DEF OutcomeOrder
<1>2. <<"started">> = OutcomeOrder(<<"started">>)
  <2>1. If("started", <<"started">>) = <<"started">>
    BY DEF If
  <2>2. If("result", <<"started">>) = <<>>
    BY DEF If
  <2>3. If("failed", <<"started">>) = <<>>
    BY DEF If
  <2>4. If("uncertain", <<"started">>) = <<>>
    BY DEF If
  <2>5. <<"started">> \o <<>> = <<"started">>
    OBVIOUS
  <2> QED
    BY <2>1, <2>2, <2>3, <2>4, <2>5 DEF OutcomeOrder
<1>3. <<"started", "result">> = OutcomeOrder(<<"started", "result">>)
  <2>1. If("started", <<"started", "result">>) = <<"started">>
    BY DEF If
  <2>2. If("result", <<"started", "result">>) = <<"result">>
    BY DEF If
  <2>3. If("failed", <<"started", "result">>) = <<>>
    BY DEF If
  <2>4. If("uncertain", <<"started", "result">>) = <<>>
    BY DEF If
  <2>5. <<"started">> \o <<>> = <<"started">> /\ <<"started">> \o <<"result">> = <<"started", "result">> /\ <<"started", "result">> \o <<>> = <<"started", "result">>
    OBVIOUS
  <2> QED
    BY <2>1, <2>2, <2>3, <2>4, <2>5 DEF OutcomeOrder
<1>4. <<"started", "failed">> = OutcomeOrder(<<"started", "failed">>)
  <2>1. If("started", <<"started", "failed">>) = <<"started">>
    BY DEF If
  <2>2. If("result", <<"started", "failed">>) = <<>>
    BY DEF If
  <2>3. If("failed", <<"started", "failed">>) = <<"failed">>
    BY DEF If
  <2>4. If("uncertain", <<"started", "failed">>) = <<>>
    BY DEF If
  <2>5. <<"started">> \o <<>> = <<"started">> /\ <<"started">> \o <<"failed">> = <<"started", "failed">> /\ <<"started", "failed">> \o <<>> = <<"started", "failed">>
    OBVIOUS
  <2> QED
    BY <2>1, <2>2, <2>3, <2>4, <2>5 DEF OutcomeOrder
<1>5. <<"started", "uncertain">> = OutcomeOrder(<<"started", "uncertain">>)
  <2>1. If("started", <<"started", "uncertain">>) = <<"started">>
    BY DEF If
  <2>2. If("result", <<"started", "uncertain">>) = <<>>
    BY DEF If
  <2>3. If("failed", <<"started", "uncertain">>) = <<>>
    BY DEF If
  <2>4. If("uncertain", <<"started", "uncertain">>) = <<"uncertain">>
    BY DEF If
  <2>5. <<"started">> \o <<>> = <<"started">> /\ <<"started">> \o <<"uncertain">> = <<"started", "uncertain">> /\ <<"started", "uncertain">> \o <<>> = <<"started", "uncertain">>
    OBVIOUS
  <2> QED
    BY <2>1, <2>2, <2>3, <2>4, <2>5 DEF OutcomeOrder
<1> QED
  BY <1>1, <1>2, <1>3, <1>4, <1>5 DEF Fate

(* Where an attempt has begun, and that nothing is recorded twice. *)
LEMMA StartsOf ==
  /\ ~Begins(<<>>) /\ ~Begins(<<"cancel">>) /\ Begins(<<"started">>)
  /\ \A e \in DOMAIN Fate : Begins(<<"started", e>>) /\ Begins(<<"started", e, "cancel">>)
  /\ \A s : If("started", s) = (IF Begins(s) THEN <<"started">> ELSE <<>>)
<1>1. ~Begins(<<>>) /\ ~Begins(<<"cancel">>) /\ Begins(<<"started">>)
  BY DEF Begins
<1>2. \A e \in DOMAIN Fate : Begins(<<"started", e>>) /\ Begins(<<"started", e, "cancel">>)
  BY DEF Begins
<1>3. \A s : If("started", s) = (IF Begins(s) THEN <<"started">> ELSE <<>>)
  BY DEF If, Begins
<1> QED
  BY <1>1, <1>2, <1>3

LEMMA RecordedOnce ==
  /\ \A s \in Withdrawals : \A i, j \in DOMAIN s : s[i] = s[j] => i = j
  /\ \A e \in DOMAIN Fate : \A s \in {<<"started", e>>, <<"started", e, "cancel">>} :
        \A i, j \in DOMAIN s : s[i] = s[j] => i = j
<1>1. ASSUME NEW s \in Withdrawals, NEW i \in DOMAIN s, NEW j \in DOMAIN s, s[i] = s[j] PROVE i = j
  <2>1. CASE s = <<>> \/ s = <<"cancel">> \/ s = <<"started">>
    BY <1>1, <2>1
  <2>2. CASE s = <<"started", "cancel">>
    BY <1>1, <2>2
  <2>3. CASE s = <<"started", "discarded">>
    BY <1>1, <2>3
  <2>4. CASE s = <<"started", "cancel", "discarded">>
    BY <1>1, <2>4
  <2> QED
    BY <2>1, <2>2, <2>3, <2>4 DEF Withdrawals
<1>2. ASSUME NEW e \in DOMAIN Fate, NEW s \in {<<"started", e>>, <<"started", e, "cancel">>},
             NEW i \in DOMAIN s, NEW j \in DOMAIN s, s[i] = s[j]
      PROVE  i = j
  <2>1. CASE s = <<"started", e>>
    BY <1>2, <2>1, KnownEvents
  <2>2. CASE s = <<"started", e, "cancel">>
    BY <1>2, <2>2, KnownEvents
  <2> QED
    BY <2>1, <2>2
<1> QED
  BY <1>1, <1>2

(* A turn whose stream and projection tell this story passes every check   *)
(* of _view, whatever of the two was written last.                         *)
LEMMA SoundStory ==
  ASSUME TypeOK, Story, state # "NONE"
  PROVE  Sound
<1> USE KnownEvents
<1>0. /\ schema \in {1, 2} /\ state \in States /\ cancelled \in BOOLEAN
  BY DEF TypeOK
<1>1. CASE cancelled
  <2>1. \/ state = "CANCELLED" /\ log \in {<<>>, <<"cancel">>}
        \/ state = "UNKNOWN"
    BY <1>0, <1>1 DEF Story, Unstarted, States, Ended
  <2>2. state # "SUCCEEDED" /\ state \in {"CANCELLED", "UNKNOWN"}
    BY <2>1
  <2>3. CASE schema = 2
    <3>1. log \in Withdrawals
      BY <1>1, <2>1, <2>3 DEF Story, Withdrawals
    <3>2. log = WithdrawalOrder(log)
      BY <3>1, WithdrawnInOrder
    <3>3. ~(state = "CANCELLED" /\ Begins(log))
      BY <2>1, StartsOf
    <3>4. OfflineEvidence(log)
      BY <1>1, <2>1, <3>2, <3>3 DEF OfflineEvidence, WithdrawalOrder, Begins
    <3>5. assistant => Outcome(log) = {"result"}
      BY Spelled, Zenon DEF Story, Reported, Fate
    <3> QED
      BY <1>1, <2>1, <2>3, <3>4, <3>5 DEF Sound, Story
  <2>4. CASE schema = 1
    <3> DEFINE Out == \E e \in LocalOutcomes : log \in {<<"started", e>>, <<"started", e, "cancel">>}
    <3>1. log \in Withdrawals \/ Out
      BY <1>1, <2>1, <2>4 DEF Story, Withdrawals, Reported
    <3>2. \A i, j \in DOMAIN log : log[i] = log[j] => i = j
      BY <3>1, RecordedOnce
    <3>3. Outcome(log) = {} \/ (Begins(log) /\ \E e \in LocalOutcomes : Outcome(log) = {e})
      BY <3>1, Spelled, StartsOf
    <3>4. state = "CANCELLED" => ~Begins(log)
      BY <2>1, StartsOf
    <3> HIDE DEF Out
    <3>5. "uncertain" \notin Outcome(log) /\ ~({"result", "failed"} \subseteq Outcome(log))
      BY <3>3 DEF LocalOutcomes
    <3>6. LocalEvidence(log)
      BY <1>1, <2>2, <3>2, <3>3, <3>4, <3>5, StartsOf DEF LocalEvidence
    <3> QED
      BY <1>1, <2>2, <2>4, <3>6 DEF Sound, Story
  <2> QED
    BY <1>0, <2>3, <2>4
<1>2. CASE ~cancelled
  <2> DEFINE Out(e) == log = <<"started", e>>
  <2>1. \/ state \in {"ACCEPTING", "READY"} /\ log = <<>>
        \/ state = "ATTEMPTING" /\ (log \in {<<>>, <<"started">>} \/ \E e \in DOMAIN Fate : Out(e))
        \/ \E e \in DOMAIN Fate : state = Fate[e] /\ Out(e)
    BY <1>0, <1>2 DEF Story, Unstarted, States, Ended, Reported, Fate
  <2>2. state # "ACCEPTING" => user
    BY DEF Story
  <2>3. state = "SUCCEEDED" => assistant /\ ~cancelled
    BY <1>2 DEF Story
  <2>4. assistant => Outcome(log) = {"result"}
    BY Spelled, Zenon DEF Story, Reported, Fate
  <2>5. Outcome(<<>>) = {} /\ Outcome(<<"started">>) = {}
    BY Spelled, Zenon DEF Withdrawals
  <2>6. \/ Outcome(log) = {} /\ (state \in {"ACCEPTING", "READY", "ATTEMPTING"}) /\ (Begins(log) => state = "ATTEMPTING")
        \/ \E e \in DOMAIN Fate : Outcome(log) = {e} /\ Begins(log) /\ state \in {"ATTEMPTING", Fate[e]} /\ Out(e)
    BY <2>1, <2>5, Spelled, StartsOf
  <2>7. CASE schema = 2
    <3>1. log = OutcomeOrder(log)
      BY <2>1, OutcomeInOrder
    <3>2. /\ \A e \in Outcome(log) : Begins(log) /\ state \in {"ATTEMPTING", Fate[e]}
          /\ \A d, e \in Outcome(log) : d = e
          /\ Outcome(log) = {} => /\ state \in {"ACCEPTING", "READY", "ATTEMPTING"}
                                  /\ Begins(log) => state = "ATTEMPTING"
      BY <2>6
    <3>3. OfflineEvidence(log)
      BY <1>2, <3>1, <3>2 DEF OfflineEvidence, OutcomeOrder, Begins
    <3> QED
      BY <2>2, <2>3, <2>4, <2>7, <3>3 DEF Sound
  <2>8. CASE schema = 1
    <3>1. "uncertain" \notin Outcome(log)
      BY <2>6, <2>8 DEF Story, Reported
    <3>2. \A i, j \in DOMAIN log : log[i] = log[j] => i = j
      BY <2>1, RecordedOnce DEF Withdrawals
    <3>3. /\ state \in {"ACCEPTING", "READY"} => log = <<>>
          /\ state # "CANCELLED"
          /\ Outcome(log) # {} => Begins(log)
          /\ ~({"result", "failed"} \subseteq Outcome(log))
          /\ state = "FAILED" => "failed" \in Outcome(log)
          /\ state = "SUCCEEDED" => "result" \in Outcome(log)
      BY <2>1, <2>6 DEF Fate
    <3>4. LocalEvidence(log)
      BY <1>2, <3>1, <3>2, <3>3, StartsOf DEF LocalEvidence
    <3> QED
      BY <2>2, <2>3, <2>8, <3>4 DEF Sound
  <2> QED
    BY <1>0, <2>7, <2>8
<1> QED
  BY <1>0, <1>1, <1>2

(* Before its attempt is durable a turn has no append and no attempt.      *)
LEMMA NothingBegun ==
  ASSUME StoryInv, state \in Unstarted
  PROVE  /\ pending = None /\ log = <<>> /\ ~cancelled /\ ~assistant
         /\ \A c \in Callers : ~Attempting(c)
<1>1. pending = None
  BY DEF StoryInv, PendingFits
<1>2. log = <<>> /\ ~cancelled /\ ~assistant
  BY DEF StoryInv, Story
<1>3. ASSUME NEW c \in Callers PROVE ~Attempting(c)
  <2>1. ~Begun(c)
    BY DEF StoryInv, IInv, Unbegun, Unstarted
  <2>2. pc[c] # "publish"
    BY <1>2 DEF StoryInv, Known, Knows, Undecided, Unstarted
  <2>3. pc[c] # "appending"
    BY <1>1 DEF StoryInv, IInv, Standing
  <2>4. ~(pc[c] = "append" /\ event[c] \in DOMAIN Fate \cup {"discarded"})
    BY <1>2 DEF StoryInv, Known, Knows, Due, Unstarted
  <2> QED
    BY <2>1, <2>2, <2>3, <2>4 DEF Attempting
<1> QED
  BY <1>1, <1>2, <1>3

(* While an attempt runs, or its outcome waits, no answer is under way and *)
(* nothing but a cancel is recorded.                                       *)
LEMMA OnlyCancelMeanwhile ==
  ASSUME StoryInv, NEW c \in Callers, NEW d \in Callers, pc[d] \in {"run", "publish"}, pc[c] \in InSession
  PROVE  /\ Undecided
         /\ pc[c] \notin {"accepted", "answer", "close"}
         /\ pc[c] \in {"append", "appending"} => event[c] = "cancel"
<1>1. Undecided
  BY DEF StoryInv, Known, Knows
<1>2. c # d
  BY DEF InSession
<1>3. Attempting(d)
  BY DEF Attempting, Begun
<1>4. ~Attempting(c)
  BY <1>2, <1>3 DEF StoryInv, OneAttempting
<1>5. event[c] \in Events
  BY DEF StoryInv, IInv, TypeOK
<1>6. pc[c] \in {"append", "appending"} => event[c] = "cancel"
  BY <1>4, <1>5 DEF Attempting, Begun, Events, Fate
<1>7. ~(log = <<"started">>) \/ \A e \in DOMAIN Fate : ~Reported(e)
  BY DEF Reported
<1>8. pc[c] \notin {"accepted", "answer", "close"}
  BY <1>1, <1>7, FateEvents DEF StoryInv, IInv, Standing, Known, Knows, Undecided
<1> QED
  BY <1>1, <1>6, <1>8

(* What is said of the turn stays true while the turn stays as it is. *)
LEMMA TurnUntouched ==
  ASSUME StoryInv, UNCHANGED <<projection, chat, log>>
  PROVE  /\ Story'
         /\ \A e \in Events : Due(e)' = Due(e)
         /\ \A e \in Events : JustRecorded(e)' = JustRecorded(e)
         /\ \A e \in Events : Reported(e)' = Reported(e)
         /\ UNCHANGED pending => PendingFits' /\ Undecided' = Undecided
<1>1. Story'
  BY DEF StoryInv, Story, projection, chat, Reported
<1>2. \A e \in Events : Due(e)' = Due(e)
  BY DEF Due, projection, Reported
<1>3. \A e \in Events : JustRecorded(e)' = JustRecorded(e)
  BY DEF JustRecorded, projection, Reported
<1>4. \A e \in Events : Reported(e)' = Reported(e)
  BY DEF Reported
<1>5. ASSUME UNCHANGED pending PROVE PendingFits' /\ Undecided' = Undecided
  <2>1. PendingFits'
    BY <1>2, <1>3, <1>5 DEF StoryInv, PendingFits, projection, JustRecorded, Due, Reported
  <2>2. Undecided' = Undecided
    BY <1>5 DEF Undecided, projection
  <2> QED
    BY <2>1, <2>2
<1> QED
  BY <1>1, <1>2, <1>3, <1>4, <1>5

(* The record that comes next continues the story. *)
LEMMA NextInStory ==
  ASSUME StoryInv, pending # None, NEW e \in Events, e = pending.event, Due(e),
         log' = Append(log, e), UNCHANGED <<projection, chat>>
  PROVE  Story' /\ JustRecorded(e)'
<1> USE KnownEvents, NextRecord DEF projection, chat
<1>0. /\ state \notin Unstarted
      /\ state \in States /\ state' = state /\ schema \in {1, 2} /\ schema' = schema /\ cancelled' = cancelled
      /\ (state # "NONE" /\ state # "ACCEPTING") => user'
  BY DEF StoryInv, IInv, TypeOK, PendingFits, Story
<1>1. CASE e = "started"
  <2>1. log = <<>> /\ state = "ATTEMPTING" /\ log' = <<"started">>
    BY <1>1 DEF Due
  <2>2. ~assistant
    BY <2>1 DEF StoryInv, Story, Reported
  <2>3. ~Reported("uncertain")'
    BY <2>1 DEF Reported
  <2> QED
    BY <1>0, <1>1, <2>1, <2>2, <2>3 DEF StoryInv, Story, JustRecorded, Unstarted
<1>2. CASE e \in DOMAIN Fate
  <2>1. log = <<"started">> /\ state = "ATTEMPTING" /\ log' = <<"started", e>> /\ (e = "uncertain" => schema = 2)
    BY <1>2 DEF Due
  <2>2. ~assistant
    BY <2>1 DEF StoryInv, Story, Reported
  <2>3. Reported(e)' /\ (Reported("uncertain")' => e = "uncertain")
    BY <2>1 DEF Reported
  <2> QED
    BY <1>0, <1>2, <2>1, <2>2, <2>3 DEF StoryInv, Story, JustRecorded, Unstarted
<1>3. CASE e = "cancel"
  <2>0. cancelled /\ state \in {"CANCELLED", "UNKNOWN"}
    BY <1>0, <1>3 DEF Due, StoryInv, IInv, CancelledState
  <2>1. CASE log = <<>>
    <3>1. log' = <<"cancel">> /\ ~assistant /\ ~Reported("uncertain")'
      BY <1>3, <2>1 DEF StoryInv, Story, Reported
    <3>2. log' \in {<<>>, <<"cancel">>} /\ log' \in Withdrawals
      BY <3>1 DEF Withdrawals
    <3> QED
      BY <1>0, <1>3, <2>0, <3>1, <3>2 DEF Story, JustRecorded, Unstarted
  <2>2. CASE log = <<"started">> /\ state = "UNKNOWN"
    <3>1. log' = <<"started", "cancel">> /\ ~assistant /\ ~Reported("uncertain")'
      BY <1>3, <2>2 DEF StoryInv, Story, Reported
    <3> QED
      BY <1>0, <1>3, <2>0, <2>2, <3>1 DEF Story, JustRecorded, Unstarted, Withdrawals
  <2>3. CASE schema = 1 /\ state = "UNKNOWN" /\ \E d \in LocalOutcomes : Reported(d)
    <3>1. PICK d \in LocalOutcomes : log = <<"started", d>>
      BY <2>3 DEF Reported
    <3>2. log' = <<"started", d, "cancel">>
      <4>1. d \in Events
        BY FateEvents
      <4>2. Append(<<"started", d>>, "cancel") = <<"started", d, "cancel">>
        BY <4>1
      <4> QED
        BY <1>3, <3>1, <4>2
    <3>3. assistant => log' = <<"started", "result", "cancel">>
      <4>1. assistant => log = <<"started", "result">> \/ log = <<"started", "result", "cancel">>
        BY DEF StoryInv, Story, Reported
      <4>2. assistant => d = "result"
        BY <3>1, <4>1
      <4> QED
        BY <3>2, <4>2
    <3>4. ~Reported("uncertain")'
      BY <3>2 DEF Reported
    <3>5. \E x \in LocalOutcomes : Reported(x)' \/ log' = <<"started", x, "cancel">>
      BY <3>2
    <3> QED
      BY <1>0, <1>3, <2>0, <2>3, <3>3, <3>4, <3>5 DEF Story, JustRecorded, Unstarted
  <2> QED
    BY <1>3, <2>1, <2>2, <2>3 DEF Due
<1>4. CASE e = "discarded"
  <2>1. cancelled /\ state = "UNKNOWN" /\ log \in {<<"started">>, <<"started", "cancel">>}
    BY <1>4 DEF Due
  <2>2. log' \in {<<"started", "discarded">>, <<"started", "cancel", "discarded">>}
    <3>1. CASE log = <<"started">>
      BY <1>4, <3>1
    <3>2. CASE log = <<"started", "cancel">>
      <4>1. Append(<<"started", "cancel">>, "discarded") = <<"started", "cancel", "discarded">>
        OBVIOUS
      <4> QED
        BY <1>4, <3>2, <4>1
    <3> QED
      BY <2>1, <3>1, <3>2
  <2>3. ~assistant
    BY <2>1 DEF StoryInv, Story, Reported
  <2>4. ~Reported("uncertain")'
    BY <2>2 DEF Reported
  <2> QED
    BY <1>0, <1>4, <2>1, <2>2, <2>3, <2>4 DEF Story, JustRecorded, Unstarted, Withdrawals
<1> QED
  BY <1>1, <1>2, <1>3, <1>4 DEF Events, Fate

(* A session leaves no other caller anything to rely on but the attempt. *)
LEMMA OthersWait ==
  ASSUME StoryInv, NEW c \in Callers, NEW d \in Callers, d # c, pc[c] \in InSession \/ writer = None,
         pc'[d] = pc[d], event'[d] = event[d], schema' = schema,
         pc[d] \in {"run", "publish"} => Undecided'
  PROVE  Knows(d)'
<1>1. pc[d] \notin InSession
  BY TurnAssumption DEF StoryInv, IInv, LockHeld
<1>2. pc[d] = "publish" => event[d] \in DOMAIN Fate /\ (event[d] = "uncertain" => schema = 2)
  BY DEF StoryInv, Known, Knows
<1> QED
  BY <1>1, <1>2 DEF Knows, InSession

(* Outside a session the turn is as it was for every other caller. *)
LEMMA OthersKnow ==
  ASSUME StoryInv, NEW d \in Callers, pc'[d] = pc[d], event'[d] = event[d],
         UNCHANGED <<projection, chat, log, pending>>
  PROVE  Knows(d)'
<1>1. Knows(d) /\ event[d] \in Events
  BY DEF StoryInv, Known, IInv, TypeOK
<1>2. Undecided' = Undecided
  BY TurnUntouched
<1> QED
  BY <1>1, <1>2 DEF Knows, projection, chat, Due, Reported

(* A step that begins no attempt leaves at most one. *)
LEMMA NoneAdded ==
  ASSUME StoryInv, NEW c \in Callers, Attempting(c)' => Attempting(c),
         \A d \in Callers : d # c => pc'[d] = pc[d] /\ event'[d] = event[d]
  PROVE  OneAttempting'
<1>1. ASSUME NEW d \in Callers, Attempting(d)' PROVE Attempting(d)
  BY <1>1 DEF Attempting, Begun
<1> QED
  BY <1>1 DEF StoryInv, OneAttempting

LEMMA StoryBegins == Init => StoryInv
<1> SUFFICES ASSUME Init PROVE StoryInv
  OBVIOUS
<1>1. IInv
  BY InvariantInit
<1>2. log = <<>> /\ state = "NONE" /\ ~cancelled /\ ~assistant /\ pending = None
  BY DEF Init, StreamInit
<1>3. ~Reported("uncertain")
  BY <1>2 DEF Reported
<1>4. Story /\ PendingFits
  BY <1>2, <1>3 DEF Story, PendingFits, Unstarted
<1>5. \A c \in Callers : pc[c] = "idle"
  BY DEF Init
<1>6. OneAttempting /\ Known
  BY <1>5 DEF OneAttempting, Attempting, Begun, Known, Knows
<1> QED
  BY <1>1, <1>4, <1>6 DEF StoryInv

(* Every section keeps the story of the turn, and so does a death between  *)
(* any two of its writes.                                                  *)
THEOREM StoryStep == StoryInv /\ [Next]_vars => StoryInv'
<1> SUFFICES ASSUME StoryInv, [Next]_vars PROVE StoryInv'
  OBVIOUS
<1> DEFINE Goes == Story' /\ PendingFits' /\ OneAttempting' /\ Known'
<1>0. IInv'
  BY Inductive DEF StoryInv
<1>a. /\ pc \in [Callers -> Places] /\ event \in [Callers -> Events] /\ schema \in {1, 2}
      /\ (pending # None => pending.event \in Events /\ pending \in Intents)
  BY DEF StoryInv, IInv, TypeOK, StreamTypeOK, Intents
<1> USE FateEvents, KnownEvents
<1>1. ASSUME NEW c \in Callers, Submit(c) PROVE Goes
  <2>1. Story' /\ PendingFits'
    BY <1>1, TurnUntouched DEF Submit
  <2>2. OneAttempting'
    BY <1>1, <1>a, NoneAdded DEF Submit, Goto, Attempting, Begun
  <2>3. ASSUME NEW d \in Callers, d # c PROVE Knows(d)'
    BY <1>1, <1>a, <2>3, OthersKnow DEF Submit, Goto
  <2>4. Knows(c)'
    BY <1>1, <1>a DEF Submit, Goto, Knows
  <2> QED
    BY <2>1, <2>2, <2>3, <2>4 DEF Known
<1>2. ASSUME NEW c \in Callers, Cancel(c) PROVE Goes
  <2>1. Story' /\ PendingFits'
    BY <1>2, TurnUntouched DEF Cancel
  <2>2. OneAttempting'
    BY <1>2, <1>a, NoneAdded DEF Cancel, Goto, Attempting, Begun
  <2>3. ASSUME NEW d \in Callers, d # c PROVE Knows(d)'
    BY <1>2, <1>a, <2>3, OthersKnow DEF Cancel, Goto
  <2>4. Knows(c)'
    BY <1>2, <1>a DEF Cancel, Goto, Knows
  <2> QED
    BY <2>1, <2>2, <2>3, <2>4 DEF Known
<1>3. ASSUME NEW c \in Callers, Accept(c) PROVE Goes
  <2>1. Story' /\ PendingFits'
    <3>1. CASE state = "NONE"
      BY <1>3, <3>1, NothingBegun DEF StoryInv, Accept, Story, PendingFits, Unstarted, chat, Reported
    <3>2. CASE state # "NONE"
      BY <1>3, <3>2, TurnUntouched DEF Accept, projection
    <3> QED
      BY <3>1, <3>2
  <2>2. OneAttempting'
    BY <1>3, <1>a, NoneAdded DEF Accept, Goto, Attempting, Begun
  <2>3. ASSUME NEW d \in Callers, d # c PROVE Knows(d)'
    <3>1. pc[d] \in {"run", "publish"} => Undecided'
      BY <1>3, OnlyCancelMeanwhile DEF Accept, Undecided, InSession
    <3> QED
      BY <1>3, <1>a, <2>3, <3>1, OthersWait DEF Accept, Goto, InSession
  <2>4. Knows(c)'
    BY <1>3, <1>a DEF Accept, Goto, Knows
  <2> QED
    BY <2>1, <2>2, <2>3, <2>4 DEF Known
<1>4. ASSUME NEW c \in Callers, Recover(c) PROVE Goes
  <2>0. UNCHANGED <<projection, chat, log>>
    BY <1>4 DEF Recover, Repair
  <2>1. Story'
    BY <2>0, TurnUntouched
  <2>2. PendingFits'
    BY <1>4, <1>a, <2>0 DEF Recover, Repair, StoryInv, PendingFits, projection, Due, JustRecorded, Reported, Intents, Stages
  <2>3. OneAttempting'
    BY <1>4, <1>a, NoneAdded DEF Recover, Goto, Attempting, Begun
  <2>4. ASSUME NEW d \in Callers, d # c PROVE Knows(d)'
    <3>1. pc[d] \in {"run", "publish"} => Undecided'
      BY <1>4, <1>a, <2>0, OnlyCancelMeanwhile DEF Recover, Repair, Undecided, InSession, projection, Intents
    <3> QED
      BY <1>4, <1>a, <2>4, <3>1, OthersWait DEF Recover, Goto, InSession, projection
  <2>5. Knows(c)'
    BY <1>4, <1>a DEF Recover, Goto, Knows
  <2> QED
    BY <2>1, <2>2, <2>3, <2>4, <2>5 DEF Known
<1>5. ASSUME NEW c \in Callers, DecideSubmit(c) PROVE Goes
  <2>0. pending = None /\ pending' = None /\ pc[c] = "decide" /\ UNCHANGED <<projection, log>>
    BY <1>5 DEF DecideSubmit, StoryInv, Known, Knows
  <2>1. Story' /\ PendingFits'
    BY <1>5, <2>0 DEF DecideSubmit, StoryInv, Story, PendingFits, projection, chat, Reported
  <2>2. OneAttempting'
    BY <1>5, <1>a, NoneAdded DEF DecideSubmit, Leave, Goto, Publication, Attempting, Begun
  <2>3. ASSUME NEW d \in Callers, d # c PROVE Knows(d)'
    <3>1. pc[d] \in {"run", "publish"} => Undecided'
      BY <2>0, OnlyCancelMeanwhile DEF Undecided, InSession, projection
    <3>2. pc'[d] = pc[d] /\ event'[d] = event[d] /\ schema' = schema
      BY <1>5, <1>a, <2>3 DEF DecideSubmit, Leave, Goto, projection
    <3> QED
      BY <2>0, <2>3, <3>1, <3>2, OthersWait DEF InSession
  <2>4. Knows(c)'
    <3>1. CASE pc'[c] \in {"answer", "close"}
      <4>1. Unpublished /\ pc'[c] = Publication
        BY <1>5, <1>a, <3>1 DEF DecideSubmit, Leave, Goto
      <4>2. state = "ATTEMPTING" /\ Outcome(log) # {}
        BY <4>1 DEF Unpublished
      <4>3. PICK e \in DOMAIN Fate : log = <<"started", e>>
        BY <4>2, Spelled, Zenon DEF StoryInv, Story, Reported, Withdrawals
      <4>4. Outcome(log) = {e}
        BY <4>3, Spelled
      <4>5. IF e = "result" THEN pc'[c] = "answer" ELSE pc'[c] = "close"
        BY <4>1, <4>4 DEF Publication
      <4> QED
        BY <2>0, <4>2, <4>3, <4>5 DEF Knows, Reported, projection
    <3>2. CASE pc'[c] \notin {"answer", "close"}
      BY <1>5, <1>a, <2>0, <3>2 DEF DecideSubmit, Leave, Goto, Publication, Knows
    <3> QED
      BY <3>1, <3>2
  <2> QED
    BY <2>1, <2>2, <2>3, <2>4 DEF Known
<1>6. ASSUME NEW c \in Callers, Accepted(c) PROVE Goes
  <2>0. state = "ACCEPTING" /\ user /\ pc[c] = "accepted"
    BY <1>6 DEF Accepted, StoryInv, IInv, Standing, Known, Knows
  <2>1. Story' /\ PendingFits'
    BY <1>6, <2>0, NothingBegun DEF Accepted, StoryInv, Story, PendingFits, Unstarted, chat, Reported
  <2>2. OneAttempting'
    BY <1>6, <1>a, NoneAdded DEF Accepted, Leave, Goto, Attempting, Begun
  <2>3. ASSUME NEW d \in Callers, d # c PROVE Knows(d)'
    <3>1. pc[d] \notin {"run", "publish"}
      BY <2>0, OnlyCancelMeanwhile DEF InSession
    <3> QED
      BY <1>6, <1>a, <2>0, <2>3, <3>1, OthersWait DEF Accepted, Leave, Goto, InSession
  <2>4. Knows(c)'
    BY <1>6, <1>a DEF Accepted, Leave, Goto, Knows
  <2> QED
    BY <2>1, <2>2, <2>3, <2>4 DEF Known
<1>7. ASSUME NEW c \in Callers, DecideCancel(c) PROVE Goes
  <2>0. pc[c] = "decide" /\ pending = None /\ UNCHANGED <<schema, chat, log, pending>>
    BY <1>7 DEF DecideCancel, projection, StoryInv, Known, Knows
  <2>p. PendingFits'
    BY <2>0 DEF PendingFits
  <2>o. OneAttempting'
    BY <1>7, <1>a, NoneAdded DEF DecideCancel, StartAppend, Leave, Goto, Publication, Attempting, Begun, Fate
  <2>d. ASSUME NEW d \in Callers, d # c PROVE pc'[d] = pc[d] /\ event'[d] = event[d]
    BY <1>7, <1>a, <2>d DEF DecideCancel, StartAppend, Leave, Goto
  <2>1. CASE UNCHANGED projection /\ pc'[c] = "idle"
    <3>1. Story'
      BY <2>0, <2>1, TurnUntouched
    <3>2. ASSUME NEW d \in Callers, d # c PROVE Knows(d)'
      BY <2>0, <2>1, <2>d, <3>2, OthersKnow
    <3>3. Knows(c)'
      BY <2>1 DEF Knows
    <3> QED
      BY <2>p, <2>o, <3>1, <3>2, <3>3 DEF Known
  <2>2. CASE UNCHANGED projection /\ SettledFirst /\ pc'[c] = Publication
    <3>1. Story'
      BY <2>0, <2>2, TurnUntouched
    <3>2. ASSUME NEW d \in Callers, d # c PROVE Knows(d)'
      BY <2>0, <2>2, <2>d, <3>2, OthersKnow
    <3>3. state = "ATTEMPTING" /\ Outcome(log) # {}
      BY <2>2 DEF SettledFirst, Unpublished
    <3>4. PICK e \in DOMAIN Fate : log = <<"started", e>>
      BY <3>3, Spelled, Zenon DEF StoryInv, Story, Reported, Withdrawals
    <3>5. Outcome(log) = {e}
      BY <3>4, Spelled
    <3>6. IF e = "result" THEN pc'[c] = "answer" ELSE pc'[c] = "close"
      BY <2>2, <3>5 DEF Publication
    <3>7. Knows(c)'
      BY <2>0, <2>2, <3>3, <3>4, <3>6 DEF Knows, Reported, projection
    <3> QED
      BY <2>p, <2>o, <3>1, <3>2, <3>7 DEF Known
  <2>3. CASE /\ ~SettledFirst /\ state \in {"READY", "ATTEMPTING"} /\ (schema = 2 => Shown) /\ cancelled' = TRUE
             /\ state' = IF state = "ATTEMPTING" THEN "UNKNOWN" ELSE "CANCELLED"
             /\ StartAppend(c, "cancel")
    <3>1. ~cancelled /\ user
      BY <2>3 DEF StoryInv, Story, Unstarted
    <3>2. state = "READY" => log = <<>> /\ ~assistant
      BY <2>3 DEF StoryInv, Story, Unstarted
    <3>3. \/ log = <<>>
          \/ log = <<"started">> /\ state = "ATTEMPTING"
          \/ schema = 1 /\ state = "ATTEMPTING" /\ \E e \in LocalOutcomes : Reported(e)
      <4>1. CASE state = "READY"
        BY <3>2, <4>1
      <4>2. CASE state = "ATTEMPTING" /\ log \in {<<>>, <<"started">>}
        BY <4>2
      <4>3. CASE state = "ATTEMPTING" /\ \E e \in DOMAIN Fate : Reported(e)
        <5>1. PICK e \in DOMAIN Fate : Reported(e)
          BY <4>3
        <5>2. Outcome(log) = {e}
          BY <5>1, Spelled DEF Reported
        <5>3. schema # 2
          BY <2>3, <3>1, <4>3, <5>2 DEF SettledFirst, Unpublished, Shown
        <5>4. schema = 1 /\ e # "uncertain"
          BY <1>a, <5>1, <5>3 DEF StoryInv, Story
        <5> QED
          BY <4>3, <5>1, <5>4 DEF LocalOutcomes, Fate
      <4> QED
        BY <2>3, <4>1, <4>2, <4>3 DEF StoryInv, Story
    <3>4. Story'
      <4>1. log \in {<<>>, <<"started">>} => log \in Withdrawals
        BY DEF Withdrawals
      <4>2. /\ schema = 1 => ~Reported("uncertain")
            /\ assistant => Reported("result") \/ log = <<"started", "result", "cancel">>
        BY DEF StoryInv, Story
      <4> QED
        BY <2>0, <2>3, <3>1, <3>2, <3>3, <4>1, <4>2 DEF Story, Unstarted, Reported, chat
    <3>5. ASSUME NEW d \in Callers, d # c PROVE Knows(d)'
      <4>1. pc[d] \in {"run", "publish"} => Undecided'
        BY <2>0, <2>3, <3>1, OnlyCancelMeanwhile DEF Undecided, InSession
      <4> QED
        BY <2>0, <2>d, <3>5, <4>1, OthersWait DEF InSession
    <3>6. Knows(c)'
      <4>1. pc'[c] = "append" /\ event'[c] = "cancel"
        BY <1>a, <2>3 DEF StartAppend, Goto
      <4>2. \/ log' = <<>>
            \/ log' = <<"started">> /\ state' = "UNKNOWN"
            \/ schema' = 1 /\ state' = "UNKNOWN" /\ \E e \in LocalOutcomes : log' = <<"started", e>>
        BY <2>0, <2>3, <3>3 DEF Reported
      <4> QED
        BY <2>3, <4>1, <4>2 DEF Knows, Due, Reported, Fate
    <3> QED
      BY <2>p, <2>o, <3>4, <3>5, <3>6 DEF Known
  <2> QED
    BY <1>7, <1>a, <2>1, <2>2, <2>3 DEF DecideCancel, Leave, Goto
<1>8. ASSUME NEW c \in Callers, Run(c) PROVE Goes
  <2>1. Story' /\ PendingFits'
    BY <1>8, TurnUntouched DEF Run
  <2>2. OneAttempting'
    BY <1>8, <1>a, NoneAdded DEF Run, Goto, Attempting, Begun
  <2>3. ASSUME NEW d \in Callers, d # c PROVE Knows(d)'
    BY <1>8, <1>a, <2>3, OthersKnow DEF Run, Goto
  <2>4. Knows(c)'
    <3>1. Undecided'
      BY <1>8, TurnUntouched DEF Run, StoryInv, Known, Knows
    <3>2. pc'[c] = "publish" /\ event'[c] \in DOMAIN Fate /\ (event'[c] = "uncertain" => schema' = 2)
      BY <1>8, <1>a DEF Run, Goto, projection
    <3> QED
      BY <3>1, <3>2 DEF Knows
  <2> QED
    BY <2>1, <2>2, <2>3, <2>4 DEF Known
<1>9. ASSUME NEW c \in Callers, BeginAppend(c) PROVE Goes
  <2>0. pc[c] = "append" /\ Due(event[c]) /\ event[c] \in Events /\ UNCHANGED <<projection, chat, log>>
    BY <1>9, <1>a DEF BeginAppend, Plan, StoryInv, Known, Knows
  <2>1. state \notin Unstarted
    BY <2>0 DEF Due, StoryInv, Story, Unstarted, Events, Fate
  <2>2. Story'
    BY <2>0, TurnUntouched
  <2>3. PendingFits'
    <3>1. CASE pending' = pending
      BY <2>0, <3>1, TurnUntouched
    <3>2. CASE pending' = [event |-> event[c], stage |-> "intent"]
      <4>1. Due(event[c])'
        BY <1>9, <2>0 DEF BeginAppend, Due, Reported, projection
      <4>2. Due(pending.event)'
        BY <1>9, <2>0, <3>2 DEF BeginAppend, Due, Reported, projection
      <4> QED
        BY <2>0, <2>1, <3>2, <4>2 DEF PendingFits, projection, Due, Reported
    <3> QED
      BY <1>9, <3>1, <3>2 DEF BeginAppend, Plan
  <2>4. OneAttempting'
    BY <1>9, <1>a, NoneAdded DEF BeginAppend, Leave, Goto, Attempting, Begun
  <2>5. ASSUME NEW d \in Callers, d # c PROVE Knows(d)'
    <3>1. pc[d] \in {"run", "publish"} => Undecided'
      <4>1. CASE pc[d] \in {"run", "publish"}
        <5>1. Undecided /\ event[c] = "cancel" /\ cancelled
          BY <2>0, <4>1, OnlyCancelMeanwhile DEF InSession, Due
        <5>2. pending' # None => pending'.event = "cancel"
          BY <1>9, <5>1 DEF BeginAppend, Plan, Undecided
        <5> QED
          BY <2>0, <5>1, <5>2 DEF Undecided, projection
      <4> QED
        BY <4>1
    <3>2. pc'[d] = pc[d] /\ event'[d] = event[d] /\ schema' = schema
      BY <1>9, <1>a, <2>5 DEF BeginAppend, Leave, Goto, projection
    <3> QED
      BY <2>0, <2>5, <3>1, <3>2, OthersWait DEF InSession
  <2>6. Knows(c)'
    BY <1>9, <1>a DEF BeginAppend, Leave, Goto, Knows
  <2> QED
    BY <2>2, <2>3, <2>4, <2>5, <2>6 DEF Known
<1>10. ASSUME NEW c \in Callers, WriteAppend(c) PROVE Goes
  <2> DEFINE e == event[c]
  <2>0. /\ pc[c] = "appending" /\ pending # None /\ pending.event = e /\ e \in Events
        /\ UNCHANGED <<projection, chat, pc, event>>
        /\ pending.stage \in Stages
    BY <1>10, <1>a DEF WriteAppend, StoryInv, IInv, Standing, Intents
  <2>1. pending' # None /\ pending'.event = e
    BY <1>10, <1>a, <2>0, TurnAssumption DEF WriteAppend, Write, Intents, Stages
  <2>2. Story' /\ PendingFits'
    <3>1. CASE pending.stage # "index"
      <4>1. UNCHANGED log /\ pending'.stage # "done" /\ pending.stage # "done"
        BY <1>10, <1>a, <3>1 DEF WriteAppend, Write, Intents, Stages
      <4>2. Story'
        BY <2>0, <4>1, TurnUntouched
      <4>3. PendingFits'
        BY <2>0, <2>1, <4>1 DEF StoryInv, PendingFits, projection, Due, Reported
      <4> QED
        BY <4>2, <4>3
    <3>2. CASE pending.stage = "index"
      <4>1. log' = Append(log, e) /\ pending'.stage = "done"
        BY <1>10, <1>a, <2>0, <3>2 DEF WriteAppend, Write, Intents, Stages
      <4>2. Due(e) /\ state \notin Unstarted
        BY <2>0, <3>2 DEF StoryInv, PendingFits
      <4>3. PICK x \in Events : x = e
        BY <2>0
      <4>4. Due(x)
        BY <4>2, <4>3
      <4>5. Story' /\ JustRecorded(x)'
        BY <2>0, <4>1, <4>3, <4>4, NextInStory
      <4>6. PendingFits'
        BY <2>0, <2>1, <4>1, <4>2, <4>3, <4>5 DEF PendingFits, JustRecorded, Reported, projection, Unstarted
      <4> QED
        BY <4>5, <4>6
    <3> QED
      BY <3>1, <3>2
  <2>3. OneAttempting'
    BY <1>10, <2>0, NoneAdded DEF Attempting, Begun
  <2>4. ASSUME NEW d \in Callers, d # c PROVE Knows(d)'
    <3>1. pc[d] \in {"run", "publish"} => Undecided'
      <4>1. CASE pc[d] \in {"run", "publish"}
        <5>1. Undecided /\ e = "cancel" /\ cancelled
          BY <2>0, <4>1, OnlyCancelMeanwhile DEF InSession, Undecided
        <5>2. CASE log' = log
          BY <2>0, <2>1, <5>1, <5>2 DEF Undecided, projection
        <5>3. CASE log' = Append(log, e) /\ pending.stage = "index"
          <6>1. log = <<"started">>
            BY <2>0, <5>1, <5>3 DEF StoryInv, PendingFits, Due, Undecided, Reported
          <6>2. log' = <<"started", "cancel">>
            BY <5>1, <5>3, <6>1, NextRecord
          <6> QED
            BY <2>0, <2>1, <5>1, <6>2 DEF Undecided, projection
        <5> QED
          BY <1>10, <2>0, <5>2, <5>3 DEF WriteAppend, Write
      <4> QED
        BY <4>1
    <3> QED
      BY <2>0, <2>4, <3>1, OthersWait DEF InSession, projection
  <2>5. Knows(c)'
    BY <2>0 DEF Knows
  <2> QED
    BY <2>2, <2>3, <2>4, <2>5 DEF Known
<1>11. ASSUME NEW c \in Callers, EndAppend(c) PROVE Goes
  <2> DEFINE e == event[c]
  <2>0. /\ pc[c] = "appending" /\ pending # None /\ pending.event = e /\ e \in Events
        /\ UNCHANGED <<projection, chat, log, event>>
        /\ pending' = None /\ JustRecorded(e)
    BY <1>11, <1>a DEF EndAppend, Acknowledge, StoryInv, IInv, Standing, PendingFits
  <2>1. Story'
    BY <2>0, TurnUntouched
  <2>2. PendingFits'
    BY <2>0 DEF PendingFits
  <2>3. OneAttempting'
    BY <1>11, <1>a, NoneAdded DEF EndAppend, Leave, Goto, Publication, Attempting, Begun
  <2>4. ASSUME NEW d \in Callers, d # c PROVE Knows(d)'
    <3>1. pc[d] \in {"run", "publish"} => Undecided'
      BY <2>0, OnlyCancelMeanwhile DEF Undecided, InSession, projection
    <3>2. pc'[d] = pc[d] /\ event'[d] = event[d] /\ schema' = schema
      BY <1>11, <1>a, <2>4 DEF EndAppend, Leave, Goto, projection
    <3> QED
      BY <2>0, <2>4, <3>1, <3>2, OthersWait DEF InSession
  <2>5. Knows(c)'
    <3>1. CASE pc'[c] = "run"
      <4>1. e = "started"
        BY <1>11, <1>a, <3>1 DEF EndAppend, Leave, Goto, Publication
      <4>2. log = <<"started">> /\ state = "ATTEMPTING" /\ ~cancelled
        BY <2>0, <4>1 DEF JustRecorded, StoryInv, Story
      <4> QED
        BY <2>0, <3>1, <4>2 DEF Knows, Undecided, projection
    <3>2. CASE pc'[c] \in {"answer", "close"}
      <4>1. e \in DOMAIN Fate /\ pc'[c] = Publication
        BY <1>11, <1>a, <3>2 DEF EndAppend, Leave, Goto
      <4>2. log = <<"started", e>> /\ state = "ATTEMPTING"
        BY <2>0, <4>1 DEF JustRecorded, Reported
      <4>3. Outcome(log) = {e}
        BY <4>1, <4>2, Spelled
      <4>4. IF e = "result" THEN pc'[c] = "answer" ELSE pc'[c] = "close"
        BY <4>1, <4>3 DEF Publication
      <4> HIDE DEF e
      <4> QED
        BY <2>0, <4>1, <4>2, <4>4 DEF Knows, Reported, projection
    <3>3. CASE pc'[c] \notin {"run", "answer", "close"}
      BY <1>11, <1>a, <2>0, <3>3 DEF EndAppend, Leave, Goto, Publication, Knows
    <3> QED
      BY <3>1, <3>2, <3>3
  <2> QED
    BY <2>1, <2>2, <2>3, <2>4, <2>5 DEF Known
<1>12. ASSUME NEW c \in Callers, Answer(c) PROVE Goes
  <2>0. /\ pc[c] = "answer" /\ pending = None /\ state = "ATTEMPTING" /\ Reported("result")
        /\ UNCHANGED <<projection, log, pending, user, event>> /\ assistant' = TRUE
    BY <1>12 DEF Answer, StoryInv, Known, Knows
  <2>1. Story' /\ PendingFits'
    BY <2>0 DEF StoryInv, Story, PendingFits, projection, Reported, Unstarted
  <2>2. OneAttempting'
    BY <1>12, <1>a, NoneAdded DEF Answer, Goto, Attempting, Begun
  <2>3. ASSUME NEW d \in Callers, d # c PROVE Knows(d)'
    <3>1. pc[d] \notin {"run", "publish"}
      BY <2>0, OnlyCancelMeanwhile DEF InSession
    <3> QED
      BY <1>12, <1>a, <2>0, <2>3, <3>1, OthersWait DEF Answer, Goto, InSession, projection
  <2>4. Knows(c)'
    BY <1>12, <1>a, <2>0 DEF Answer, Goto, Knows, Reported, projection
  <2> QED
    BY <2>1, <2>2, <2>3, <2>4 DEF Known
<1>13. ASSUME NEW c \in Callers, Close(c) PROVE Goes
  <2>0. pc[c] = "close" /\ pending = None /\ state = "ATTEMPTING" /\ ~cancelled
    BY <1>13 DEF Close, StoryInv, IInv, Standing, Known, Knows
  <2>1. PICK e \in DOMAIN Fate : log = <<"started", e>> /\ (e = "result" => assistant)
    BY <1>13 DEF Close, StoryInv, Known, Knows, Reported
  <2>2. state' = Fate[e] /\ UNCHANGED <<schema, cancelled, chat, log, pending>>
    BY <1>13, <2>1, Spelled DEF Close
  <2>3. Story' /\ PendingFits'
    <3>1. PendingFits'
      BY <2>0, <2>2 DEF PendingFits
    <3>2. user /\ (assistant => e = "result") /\ (schema = 1 => e # "uncertain")
      BY <2>0, <2>1 DEF StoryInv, Story, Reported
    <3>3. \A d \in DOMAIN Fate : Reported(d)' <=> d = e
      BY <2>1, <2>2 DEF Reported
    <3>4. Fate[e] = (IF e = "result" THEN "SUCCEEDED" ELSE IF e = "failed" THEN "FAILED" ELSE "UNKNOWN")
      BY DEF Fate
    <3>5. Story'
      BY <2>0, <2>1, <2>2, <3>2, <3>3, <3>4 DEF Story, Unstarted, chat
    <3> QED
      BY <3>1, <3>5
  <2>4. OneAttempting'
    BY <1>13, <1>a, NoneAdded DEF Close, Leave, Goto, Attempting, Begun
  <2>5. ASSUME NEW d \in Callers, d # c PROVE Knows(d)'
    <3>1. pc[d] \notin {"run", "publish"}
      BY <2>0, OnlyCancelMeanwhile DEF InSession
    <3> QED
      BY <1>13, <1>a, <2>0, <2>5, <3>1, OthersWait DEF Close, Leave, Goto, InSession
  <2>6. Knows(c)'
    BY <1>13, <1>a DEF Close, Leave, Goto, Knows
  <2> QED
    BY <2>3, <2>4, <2>5, <2>6 DEF Known
<1>14. ASSUME NEW c \in Callers, Execute(c) PROVE Goes
  <2>1. CASE Startable
    <3>0. /\ state = "READY" /\ state' = "ATTEMPTING" /\ writer = None
          /\ pc' = [pc EXCEPT ![c] = "append"] /\ event' = [event EXCEPT ![c] = "started"]
          /\ UNCHANGED <<schema, cancelled, chat, log, pending>>
      BY <1>14, <2>1 DEF Execute, Startable, StartAppend, Goto
    <3>1. /\ pending = None /\ log = <<>> /\ ~cancelled /\ ~assistant
          /\ \A d \in Callers : ~Attempting(d)
      BY <3>0, NothingBegun DEF Unstarted
    <3>2. Story' /\ PendingFits'
      BY <3>0, <3>1 DEF StoryInv, Story, PendingFits, chat, Reported, Unstarted
    <3>3. ASSUME NEW d \in Callers, d # c PROVE ~Attempting(d)'
      BY <1>a, <3>0, <3>1, <3>3 DEF Attempting, Begun
    <3>4. OneAttempting'
      BY <3>3 DEF OneAttempting
    <3>5. ASSUME NEW d \in Callers, d # c PROVE Knows(d)'
      <4>1. pc[d] \notin {"run", "publish"}
        BY <3>1 DEF Attempting, Begun
      <4> QED
        BY <1>a, <3>0, <3>5, <4>1, OthersWait
    <3>6. Knows(c)'
      BY <1>a, <3>0, <3>1 DEF Knows, Due
    <3> QED
      BY <3>2, <3>4, <3>5, <3>6 DEF Known
  <2>2. CASE ~Startable
    <3>0. pc' = [pc EXCEPT ![c] = "idle"] /\ UNCHANGED <<projection, chat, log, pending, event>>
      BY <1>14, <2>2 DEF Execute, Goto, projection
    <3>1. Story' /\ PendingFits'
      BY <3>0, TurnUntouched
    <3>2. OneAttempting'
      BY <1>a, <3>0, NoneAdded DEF Attempting, Begun
    <3>3. ASSUME NEW d \in Callers, d # c PROVE Knows(d)'
      BY <1>a, <3>0, <3>3, OthersKnow
    <3>4. Knows(c)'
      BY <1>a, <3>0 DEF Knows
    <3> QED
      BY <3>1, <3>2, <3>3, <3>4 DEF Known
  <2> QED
    BY <2>1, <2>2
<1>15. ASSUME NEW c \in Callers, Publish(c) PROVE Goes
  <2>0. pc[c] = "publish" /\ writer = None /\ Undecided /\ event[c] \in DOMAIN Fate
        /\ (event[c] = "uncertain" => schema = 2) /\ UNCHANGED <<projection, chat, log, pending>>
    BY <1>15 DEF Publish, StoryInv, Known, Knows
  <2>1. Story' /\ PendingFits'
    BY <2>0, TurnUntouched
  <2>2. OneAttempting'
    BY <1>15, <1>a, <2>0, NoneAdded DEF Publish, StartAppend, Goto, Attempting, Begun
  <2>3. ASSUME NEW d \in Callers, d # c PROVE Knows(d)'
    BY <1>15, <1>a, <2>0, <2>3, OthersKnow DEF Publish, StartAppend, Goto
  <2>4. Knows(c)'
    <3>1. CASE pc'[c] = "idle"
      BY <3>1 DEF Knows
    <3>2. CASE pc'[c] = "append"
      <4>1. /\ event'[c] = "discarded" \/ event'[c] = event[c]
            /\ event'[c] = "discarded" => cancelled
            /\ event'[c] # "discarded" => ~cancelled
        BY <1>15, <1>a, <2>0, <3>2 DEF Publish, StartAppend, Goto, Withdrawn, Undecided, Fate
      <4>2. CASE event'[c] = "discarded"
        BY <2>0, <3>2, <4>1, <4>2 DEF Knows, Due, Undecided, projection, Fate
      <4>3. CASE event'[c] # "discarded"
        BY <2>0, <3>2, <4>1, <4>3 DEF Knows, Due, Undecided, projection
      <4> QED
        BY <4>2, <4>3
    <3> QED
      BY <1>15, <1>a, <3>1, <3>2 DEF Publish, StartAppend, Goto
  <2> QED
    BY <2>1, <2>2, <2>3, <2>4 DEF Known
<1>16. ASSUME NEW c \in Callers, Dies(c) \/ GivesUp(c) PROVE Goes
  <2>1. Story' /\ PendingFits'
    BY <1>16, TurnUntouched DEF Dies, GivesUp
  <2>2. OneAttempting'
    BY <1>16, <1>a, NoneAdded DEF Dies, GivesUp, Goto, Attempting, Begun
  <2>3. ASSUME NEW d \in Callers, d # c PROVE Knows(d)'
    BY <1>16, <1>a, <2>3, OthersKnow DEF Dies, GivesUp, Goto
  <2>4. Knows(c)'
    BY <1>16, <1>a DEF Dies, GivesUp, Goto, Knows
  <2> QED
    BY <2>1, <2>2, <2>3, <2>4 DEF Known
<1>17. ASSUME UNCHANGED vars PROVE Goes
  <2>1. Story' /\ PendingFits'
    BY <1>17, TurnUntouched DEF vars
  <2>2. pc' = pc /\ event' = event /\ UNCHANGED <<projection, chat, log, pending>>
    BY <1>17 DEF vars
  <2>3. Known'
    BY <2>2, OthersKnow DEF Known
  <2>4. OneAttempting'
    BY <2>2 DEF StoryInv, OneAttempting, Attempting, Begun
  <2> QED
    BY <2>1, <2>3, <2>4
<1> HIDE DEF Goes
<1>18. Goes
  BY <1>1, <1>2, <1>3, <1>4, <1>5, <1>6, <1>7, <1>8, <1>9, <1>10, <1>11, <1>12, <1>13, <1>14, <1>15, <1>16, <1>17 DEF Next, Proceeds
<1> QED
  BY <1>0, <1>18 DEF StoryInv, Goes

(* Whatever dies, and after whichever write: what can be read of a turn    *)
(* passes the checks of its readers, for any number of callers and deaths  *)
(* (TurnService._view, _offline_evidence).                                 *)
THEOREM NoDeathLooksLikeDamage == Spec => []NoFalseDamage
<1>1. StoryInv => NoFalseDamage
  BY SoundStory DEF StoryInv, IInv, NoFalseDamage
<1> QED
  BY <1>1, StoryBegins, StoryStep, PTL DEF Spec
====
