---- MODULE HistoryProofs ----
(***************************************************************************)
(* The history of a TASK tells the truth, resolves itself and keeps its    *)
(* evidence, for any number of transition calls, operations, steps and     *)
(* faults.  The argument: a step in flight is the last journal entry, and  *)
(* the record is where that entry says it is, because whoever else writes  *)
(* the record closes the journal first or blocks the stage.                *)
(***************************************************************************)
EXTENDS HistorySafety, SequenceTheorems, FiniteSetTheorems, TLAPS

Entries == [from : Stages, to : Stages, basis : Nat, closed : SUBSET Closures]

(* What an entry may ask for: never a blocked stage, never to stay.        *)
EntriesOK ==
    \A i \in DOMAIN intents :
        /\ <<intents[i].from, intents[i].to>> \in Allowed
        /\ intents[i].closed # {} \/ i = Len(intents)

(* An open entry: the record is on its basis, or where its write left it,  *)
(* or the stage was blocked since.                                         *)
OpenDecided ==
    \A i \in Open :
        \/ micro.status = "BLOCKED_PREPARE"
        \/ i \notin landed /\ micro.status = intents[i].from /\ micro.stamp = intents[i].basis
        \/ i \in landed /\ micro.status = intents[i].to

(* A call with the lock works on the last entry, and nothing else is open. *)
InFlight ==
    \A c \in Steppers :
        /\ pc[c] \in {"intent", "write", "commit"} <=> lock = c
        /\ pc[c] # "idle" => <<want[c].from, want[c].to>> \in Allowed
        /\ pc[c] = "intent" => Open = {} /\ micro.status = want[c].from
        /\ pc[c] = "write" =>
              /\ Len(intents) \in Open \ landed
              /\ intents[Len(intents)].to = want[c].to
              /\ micro.status = intents[Len(intents)].from
        /\ pc[c] = "commit" =>
              /\ Len(intents) \in Open \cap landed
              /\ micro.status = intents[Len(intents)].to

(* An operation and its events: the intent event before all others.        *)
EventsOK ==
    \A o \in Ops :
        /\ log[o].intents <= 1
        /\ record[o].status = "ABSENT" => log[o].intents = 0 /\ ~log[o].progress
        /\ record[o].status = "INTENT" => record[o].rev = 1 /\ ~log[o].progress
        /\ record[o].status \notin {"ABSENT", "INTENT"} => log[o].intents = 1

(* A verification that the journal has seen.                               *)
VerifiedByStep ==
    micro.status = "VERIFIED" /\ micro.stamp > 0 =>
        \E i \in landed \cap DOMAIN intents : intents[i].to = "VERIFIED"

JournalInv == EntriesOK /\ OpenDecided /\ InFlight /\ HistoryTellsTruth

IInv == TypeOK /\ JournalInv /\ EventsOK /\ VerifiedByStep

-----------------------------------------------------------------------------
(* The journal and its resolution.                                         *)

(* A function over the places of a sequence is a sequence. *)
LEMMA PlacesType ==
  ASSUME NEW S, NEW n \in Nat, NEW f \in [1..n -> S]
  PROVE  f \in Seq(S) /\ Len(f) = n /\ DOMAIN f = 1..n
  BY SeqDef, LenProperties

(* No step stays where it is, and none starts at or asks for a block. *)
LEMMA AllowedMoves ==
  ASSUME NEW s, NEW u, <<s, u>> \in Allowed
  PROVE  s \in Stages /\ u \in Stages /\ s # u /\ s # "BLOCKED_PREPARE" /\ u # "BLOCKED_PREPARE"
  BY DEF Allowed, Stages, RecoveryMicro

(* The places of the journal. *)
LEMMA Places ==
  ASSUME TypeOK
  PROVE  /\ intents \in Seq(Entries)
         /\ Len(intents) \in Nat
         /\ DOMAIN intents = 1..Len(intents)
         /\ \A i \in DOMAIN intents : intents[i] \in Entries
<1>1. intents \in Seq(Entries)
  BY DEF TypeOK, Entries
<1> QED
  BY <1>1, LenProperties, ElementOfSeq

(* The record decides an open entry, and decides it rightly, unless the    *)
(* journal is contradictory (microtask_journal).                           *)
LEMMA RecordDecides ==
  ASSUME TypeOK, JournalInv, ~Contradictory, NEW i \in Open
  PROVE  \/ Outcome(i) = "COMMIT" /\ i \in landed
         \/ Outcome(i) = "ABANDON" /\ i \notin landed
<1> USE DEF JournalInv
<1>1. i \in DOMAIN intents
  BY DEF Open
<1>2. /\ intents[i].from # intents[i].to
      /\ intents[i].from # "BLOCKED_PREPARE" /\ intents[i].to # "BLOCKED_PREPARE"
  BY <1>1, AllowedMoves DEF EntriesOK
<1>3. Outcome(i) # "UNKNOWN"
  BY DEF Contradictory
<1>4. CASE micro.status = "BLOCKED_PREPARE"
  BY <1>2, <1>3, <1>4 DEF Outcome
<1>5. CASE i \notin landed /\ micro.status = intents[i].from /\ micro.stamp = intents[i].basis
  BY <1>2, <1>5 DEF Outcome
<1>6. CASE i \in landed /\ micro.status = intents[i].to
  BY <1>2, <1>6 DEF Outcome
<1> QED
  BY <1>4, <1>5, <1>6 DEF OpenDecided

(* What resolution leaves: the same steps, all closed, and truthfully      *)
(* (resolve_microtask_intents_locked).                                     *)
LEMMA ResolvedIsTrue ==
  ASSUME TypeOK, JournalInv, ~Contradictory
  PROVE  /\ Resolved \in Seq(Entries)
         /\ Len(Resolved) = Len(intents) /\ DOMAIN Resolved = DOMAIN intents
         /\ \A i \in DOMAIN intents :
               /\ Resolved[i].from = intents[i].from /\ Resolved[i].to = intents[i].to
               /\ Resolved[i].closed # {}
               /\ "COMMIT" \in Resolved[i].closed => i \in landed
               /\ "ABANDON" \in Resolved[i].closed => i \notin landed
<1> DEFINE entry(i) == IF i \in Open THEN [intents[i] EXCEPT !.closed = {Outcome(i)}] ELSE intents[i]
<1>1. ASSUME NEW i \in DOMAIN intents
      PROVE  /\ entry(i) \in Entries
             /\ entry(i).from = intents[i].from /\ entry(i).to = intents[i].to
             /\ entry(i).closed # {}
             /\ "COMMIT" \in entry(i).closed => i \in landed
             /\ "ABANDON" \in entry(i).closed => i \notin landed
  <2>1. intents[i] \in Entries
    BY Places
  <2>2. CASE i \in Open
    <3>1. Outcome(i) \in Closures
      BY <2>2, RecordDecides DEF Closures
    <3>2. entry(i).closed = {Outcome(i)}
      BY <2>1, <2>2 DEF Entries
    <3>3. entry(i) \in Entries /\ entry(i).from = intents[i].from /\ entry(i).to = intents[i].to
      BY <2>1, <2>2, <3>1 DEF Entries
    <3> HIDE DEF entry
    <3> QED
      BY <2>2, <3>2, <3>3, RecordDecides
  <2>3. CASE i \notin Open
    BY <2>1, <2>3 DEF Open, JournalInv, HistoryTellsTruth
  <2> QED
    BY <2>2, <2>3
<1>2. Resolved = [i \in 1..Len(intents) |-> entry(i)]
  BY Places DEF Resolved
<1>3. Resolved \in [1..Len(intents) -> Entries]
  <2> HIDE DEF entry
  <2> QED
    BY <1>1, <1>2, Places
<1>4. Resolved \in Seq(Entries) /\ Len(Resolved) = Len(intents) /\ DOMAIN Resolved = 1..Len(intents)
  BY <1>3, Places, PlacesType
<1> HIDE DEF entry
<1> QED
  BY <1>1, <1>2, <1>4, Places

(* A history in which every entry is closed by what its record proves.     *)
LEMMA ResolvedJournal ==
  ASSUME TypeOK, JournalInv, ~Contradictory, intents' = Resolved, landed' = landed
  PROVE  EntriesOK' /\ HistoryTellsTruth' /\ Open' = {} /\ OpenDecided'
<1>1. DOMAIN intents' = DOMAIN intents /\ \A i \in DOMAIN intents' :
        /\ intents'[i].from = intents[i].from /\ intents'[i].to = intents[i].to
        /\ intents'[i].closed # {}
        /\ "COMMIT" \in intents'[i].closed => i \in landed'
        /\ "ABANDON" \in intents'[i].closed => i \notin landed'
  BY ResolvedIsTrue
<1>2. Open' = {}
  BY <1>1 DEF Open
<1>3. EntriesOK'
  BY <1>1 DEF JournalInv, EntriesOK
<1>4. HistoryTellsTruth'
  BY <1>1 DEF HistoryTellsTruth
<1> QED
  BY <1>2, <1>3, <1>4 DEF OpenDecided

-----------------------------------------------------------------------------
(* Types.                                                                  *)

LEMMA TypeInit == Init => TypeOK
<1> SUFFICES ASSUME Init PROVE TypeOK
  OBVIOUS
<1>1. micro \in [status : Stages, stamp : Nat]
  BY DEF Init, Stages
<1>2. intents \in Seq([from : Stages, to : Stages, basis : Nat, closed : SUBSET Closures])
  BY DEF Init
<1>3. reaffirmed \in BOOLEAN /\ torn \in BOOLEAN
  BY Zenon DEF Init
<1>4. /\ record \in [Ops -> [status : Statuses, rev : Nat]]
      /\ log \in [Ops -> [intents : Nat, progress : BOOLEAN]]
  BY DEF Init, Statuses
<1>5. /\ lock \in Steppers \cup {None}
      /\ pc \in [Steppers -> {"idle", "entry", "check", "intent", "write", "commit"}]
      /\ want \in [Steppers -> [from : Stages, to : Stages] \cup {NoStep}]
      /\ landed \subseteq DOMAIN intents
  BY DEF Init
<1>6. spent \in [recoveries : Nat, faults : Nat]
  BY DEF Init
<1> QED
  BY <1>1, <1>2, <1>3, <1>4, <1>5, <1>6 DEF TypeOK

(* Leaving a call, and a fault, keep the types. *)
LEMMA EndsType ==
  ASSUME TypeOK, NEW c \in Steppers, Ends(c)
  PROVE  /\ pc' \in [Steppers -> {"idle", "entry", "check", "intent", "write", "commit"}]
         /\ want' \in [Steppers -> [from : Stages, to : Stages] \cup {NoStep}]
  BY DEF TypeOK, Ends

LEMMA FaultType == TypeOK /\ Fault => spent' \in [recoveries : Nat, faults : Nat]
  BY DEF TypeOK, Fault

(* Closing the last entry or resolving them all leaves a journal. *)
LEMMA ClosedType ==
  ASSUME TypeOK, Len(intents) \in DOMAIN intents, NEW how \in Closures
  PROVE  /\ Closed(Len(intents), how) \in Seq(Entries)
         /\ Len(Closed(Len(intents), how)) = Len(intents)
         /\ DOMAIN Closed(Len(intents), how) = DOMAIN intents
         /\ \A i \in DOMAIN intents :
               Closed(Len(intents), how)[i] =
                  IF i = Len(intents) THEN [intents[i] EXCEPT !.closed = @ \cup {how}] ELSE intents[i]
<1> DEFINE f == Closed(Len(intents), how)
<1>1. f = [i \in 1..Len(intents) |->
             IF i = Len(intents) THEN [intents[i] EXCEPT !.closed = @ \cup {how}] ELSE intents[i]]
  BY Places DEF Closed
<1>2. f \in [1..Len(intents) -> Entries]
  BY <1>1, Places DEF Entries, Closures
<1> HIDE DEF f
<1>3. f \in Seq(Entries) /\ Len(f) = Len(intents) /\ DOMAIN f = 1..Len(intents)
  BY <1>2, Places, PlacesType
<1>4. \A i \in DOMAIN intents :
        f[i] = IF i = Len(intents) THEN [intents[i] EXCEPT !.closed = @ \cup {how}] ELSE intents[i]
  BY <1>1, Places
<1> QED
  BY <1>3, <1>4, Places DEF f

EventLog == [intents : Nat, progress : BOOLEAN]

(* The log of an operation stays one, whatever is appended to it. *)
LEMMA LogTypes ==
  ASSUME NEW r \in EventLog
  PROVE  [r EXCEPT !.intents = @ + 1] \in EventLog /\ [r EXCEPT !.progress = TRUE] \in EventLog
<1>1. [r EXCEPT !.intents = @ + 1] \in EventLog
  BY DEF EventLog
<1>2. [r EXCEPT !.progress = TRUE] \in EventLog
  BY DEF EventLog
<1> QED
  BY <1>1, <1>2

LEMMA RebuiltType == TypeOK => log \in [Ops -> EventLog] /\ \A o \in Ops : Rebuilt(o) \in EventLog
<1> SUFFICES ASSUME TypeOK PROVE log \in [Ops -> EventLog] /\ \A o \in Ops : Rebuilt(o) \in EventLog
  OBVIOUS
<1>1. log \in [Ops -> EventLog]
  BY DEF TypeOK, EventLog
<1>2. ASSUME NEW o \in Ops PROVE Rebuilt(o) \in EventLog
  BY <1>1, LogTypes DEF Rebuilt
<1> QED
  BY <1>1, <1>2

(* Every action keeps the types. *)
THEOREM TypeStep == TypeOK /\ JournalInv /\ [Next]_vars => TypeOK'
<1> SUFFICES ASSUME TypeOK, JournalInv, [Next]_vars PROVE TypeOK'
  OBVIOUS
<1>0. Resolvable => Resolved \in Seq(Entries) /\ DOMAIN Resolved = DOMAIN intents
  BY ResolvedIsTrue DEF Resolvable
<1> USE HistoryAssumption DEF journal, audit, process
<1>1. ASSUME NEW c \in Steppers, Read(c) PROVE TypeOK'
  BY <1>1 DEF TypeOK, Read
<1>2. ASSUME NEW c \in Steppers, Enter(c) PROVE TypeOK'
  BY <1>0, <1>2 DEF TypeOK, Enter, Goto, Entries
<1>3. ASSUME NEW c \in Steppers, BlockRestorePoint(c) PROVE TypeOK'
  BY <1>3, EndsType DEF TypeOK, BlockRestorePoint, Stages
<1>4. ASSUME NEW c \in Steppers, Begin(c) PROVE TypeOK'
  BY <1>0, <1>4 DEF TypeOK, Begin, AtLock, FirstWrite, Goto, Entries
<1>5. ASSUME NEW c \in Steppers, Refused(c) PROVE TypeOK'
  BY <1>5, EndsType DEF TypeOK, Refused
<1>6. ASSUME NEW c \in Steppers, WriteIntent(c) PROVE TypeOK'
  <2> DEFINE e == [from |-> want[c].from, to |-> want[c].to, basis |-> micro.stamp, closed |-> {}]
  <2>1. <<want[c].from, want[c].to>> \in Allowed
    BY <1>6 DEF WriteIntent, At, JournalInv, InFlight
  <2>2. e \in Entries
    BY <2>1, AllowedMoves DEF TypeOK, Entries
  <2>3. intents' \in Seq(Entries) /\ DOMAIN intents \subseteq DOMAIN intents'
    <3> HIDE DEF e
    <3>1. intents' = Append(intents, e)
      BY <1>6 DEF WriteIntent, e
    <3> QED
      BY <2>2, <3>1, Places, AppendProperties
  <2> QED
    BY <1>6, <2>3 DEF TypeOK, WriteIntent, At, Goto, Entries
<1>7. ASSUME NEW c \in Steppers, IntentFails(c) PROVE TypeOK'
  BY <1>7, EndsType, FaultType DEF TypeOK, IntentFails, Leaves
<1>8. ASSUME NEW c \in Steppers, WriteStatus(c) PROVE TypeOK'
  <2>1. Len(intents) \in DOMAIN intents /\ <<want[c].from, want[c].to>> \in Allowed
    BY <1>8 DEF WriteStatus, At, JournalInv, InFlight, Open
  <2>2. want[c].to \in Stages
    BY <2>1, AllowedMoves
  <2> QED
    BY <1>8, <2>1, <2>2 DEF TypeOK, WriteStatus, At, Goto
<1>9. ASSUME NEW c \in Steppers, WriteFails(c) PROVE TypeOK'
  <2>1. Len(intents) \in DOMAIN intents
    BY <1>9 DEF WriteFails, At, JournalInv, InFlight, Open
  <2>2. intents' \in Seq(Entries) /\ DOMAIN intents' = DOMAIN intents
    BY <1>9, <2>1, ClosedType, Places DEF WriteFails, Closures
  <2> QED
    BY <1>9, <2>2, EndsType, FaultType DEF TypeOK, WriteFails, Leaves, Entries
<1>10. ASSUME NEW c \in Steppers, WriteCommit(c) PROVE TypeOK'
  <2>1. Len(intents) \in DOMAIN intents
    BY <1>10 DEF WriteCommit, At, JournalInv, InFlight, Open
  <2>2. intents' \in Seq(Entries) /\ DOMAIN intents' = DOMAIN intents
    BY <1>10, <2>1, ClosedType DEF WriteCommit, Closures
  <2> QED
    BY <1>10, <2>2, EndsType DEF TypeOK, WriteCommit, Leaves, Entries
<1>11. ASSUME NEW c \in Steppers, CommitFails(c) PROVE TypeOK'
  BY <1>11, EndsType, FaultType DEF TypeOK, CommitFails, Leaves
<1>12. ASSUME NEW c \in Steppers, Crash(c) PROVE TypeOK'
  BY <1>12, EndsType, FaultType DEF TypeOK, Crash, Leaves
<1>13. CASE RecoveryWrite
  <2>1. micro' \in [status : Stages, stamp : Nat]
    BY <1>13 DEF TypeOK, RecoveryWrite
  <2>2. spent' \in [recoveries : Nat, faults : Nat]
    <3>1. spent' = [spent EXCEPT !.recoveries = @ + 1] /\ spent \in [recoveries : Nat, faults : Nat]
      BY <1>13 DEF TypeOK, RecoveryWrite
    <3> QED
      BY <3>1
  <2>3. intents' = Resolved /\ Resolvable
    BY <1>13 DEF RecoveryWrite, ClosedFirst
  <2> QED
    BY <1>0, <1>13, <2>1, <2>2, <2>3 DEF TypeOK, RecoveryWrite, Entries
<1>14. CASE ReconcileHistory
  <2>1. log' \in [Ops -> EventLog]
    BY <1>14, RebuiltType DEF ReconcileHistory
  <2> QED
    BY <1>0, <1>14, <2>1 DEF TypeOK, ReconcileHistory, Entries, EventLog
<1>15. CASE Reaffirm
  BY <1>0, <1>15 DEF TypeOK, Reaffirm, Entries
<1>16. ASSUME NEW o \in Ops, OpBegin(o) PROVE TypeOK'
  <2>1. log' \in [Ops -> EventLog]
    BY <1>16, RebuiltType, LogTypes DEF OpBegin
  <2>2. record' \in [Ops -> [status : Statuses, rev : Nat]]
    BY <1>16 DEF TypeOK, OpBegin, Statuses
  <2>3. torn' \in BOOLEAN /\ spent' \in [recoveries : Nat, faults : Nat]
    BY <1>16, FaultType DEF TypeOK, OpBegin
  <2> QED
    BY <1>16, <2>1, <2>2, <2>3 DEF TypeOK, OpBegin, EventLog
<1>17. ASSUME NEW o \in Ops, OpRestore(o) PROVE TypeOK'
  <2>1. log' \in [Ops -> EventLog]
    BY <1>17, RebuiltType DEF OpRestore
  <2> QED
    BY <1>17, <2>1 DEF TypeOK, OpRestore, EventLog
<1>18. ASSUME NEW o \in Ops, OpTransition(o) PROVE TypeOK'
  <2>1. log' \in [Ops -> EventLog]
    BY <1>18, RebuiltType, LogTypes DEF OpTransition, Appended
  <2>2. record' \in [Ops -> [status : Statuses, rev : Nat]]
    BY <1>18 DEF TypeOK, OpTransition
  <2>3. torn' \in BOOLEAN /\ spent' \in [recoveries : Nat, faults : Nat]
    BY <1>18, FaultType DEF TypeOK, OpTransition, Appended
  <2> QED
    BY <1>18, <2>1, <2>2, <2>3 DEF TypeOK, OpTransition, EventLog
<1>19. CASE UNCHANGED vars
  BY <1>19 DEF TypeOK, vars
<1> QED
  BY <1>1, <1>2, <1>3, <1>4, <1>5, <1>6, <1>7, <1>8, <1>9, <1>10, <1>11, <1>12, <1>13, <1>14, <1>15, <1>16, <1>17, <1>18, <1>19 DEF Next, Goes

-----------------------------------------------------------------------------
(* The journal.                                                            *)

(* A step that touches neither the record nor the journal. *)
LEMMA JournalUntouched ==
  ASSUME JournalInv, UNCHANGED <<micro, intents, landed>>
  PROVE  EntriesOK' /\ OpenDecided' /\ HistoryTellsTruth'
  BY DEF JournalInv, EntriesOK, OpenDecided, HistoryTellsTruth, Open

(* Without the lock nobody is in flight. *)
LEMMA NobodyInFlight ==
  ASSUME TypeOK, InFlight, lock = None, NEW d \in Steppers
  PROVE  pc[d] \notin {"intent", "write", "commit"}
  BY HistoryAssumption DEF InFlight

(* A call that leaves takes nobody else with it. *)
LEMMA LeavesInFlight ==
  ASSUME TypeOK, InFlight, NEW c \in Steppers, Ends(c),
         lock' = None, lock \in {c, None}
  PROVE  InFlight'
<1>1. \A d \in Steppers : pc'[d] = IF d = c THEN "idle" ELSE pc[d]
  BY DEF Ends, TypeOK
<1>2. \A d \in Steppers \ {c} : want'[d] = want[d]
  BY DEF Ends, TypeOK
<1>3. \A d \in Steppers : pc'[d] \notin {"intent", "write", "commit"} /\ lock' # d
  BY <1>1, HistoryAssumption DEF InFlight
<1> QED
  BY <1>1, <1>2, <1>3 DEF InFlight

(* The call in flight goes on, and every other one stays where it is. *)
LEMMA GoesOnInFlight ==
  ASSUME TypeOK, InFlight, NEW c \in Steppers,
         NEW l \in {"intent", "write", "commit"}, Goto(c, l), lock' = c, lock \in {c, None},
         <<want[c].from, want[c].to>> \in Allowed,
         l = "intent" => (Open = {} /\ micro.status = want[c].from)',
         l = "write" => (/\ Len(intents) \in Open \ landed
                         /\ intents[Len(intents)].to = want[c].to
                         /\ micro.status = intents[Len(intents)].from)',
         l = "commit" => (/\ Len(intents) \in Open \cap landed
                          /\ micro.status = intents[Len(intents)].to)'
  PROVE  InFlight'
<1>1. \A d \in Steppers : pc'[d] = IF d = c THEN l ELSE pc[d]
  BY DEF Goto, TypeOK
<1>2. \A d \in Steppers \ {c} : pc'[d] \notin {"intent", "write", "commit"} /\ lock' # d
  BY <1>1, HistoryAssumption DEF InFlight
<1>3. \A d \in Steppers : pc'[d] # "idle" => <<want'[d].from, want'[d].to>> \in Allowed
  BY <1>1 DEF InFlight, Goto
<1> QED
  BY <1>1, <1>2, <1>3 DEF InFlight, Goto

(* The other writers come when nobody is in flight. *)
LEMMA QuietInFlight ==
  ASSUME TypeOK, InFlight, lock = None, UNCHANGED process
  PROVE  InFlight'
<1>1. \A d \in Steppers : pc[d] \notin {"intent", "write", "commit"}
  BY NobodyInFlight
<1> QED
  BY <1>1 DEF InFlight, process

(* Every action keeps the journal truthful and decidable. *)
THEOREM JournalStep == TypeOK /\ JournalInv /\ [Next]_vars => JournalInv'
<1> SUFFICES ASSUME TypeOK, JournalInv, [Next]_vars PROVE JournalInv'
  OBVIOUS
<1>0. InFlight
  BY DEF JournalInv
<1> USE HistoryAssumption DEF journal, audit
<1>1. ASSUME NEW c \in Steppers, Read(c) PROVE JournalInv'
  <2>1. EntriesOK' /\ OpenDecided' /\ HistoryTellsTruth'
    BY <1>1, JournalUntouched DEF Read
  <2>2. InFlight'
    <3>1. \A d \in Steppers : /\ pc'[d] = IF d = c THEN "entry" ELSE pc[d]
                              /\ d # c => want'[d] = want[d]
      BY <1>1 DEF Read, TypeOK
    <3>2. <<want'[c].from, want'[c].to>> \in Allowed
      BY <1>1 DEF Read, TypeOK
    <3>3. pc[c] = "idle"
      BY <1>1 DEF Read, At
    <3>4. \A d \in Steppers : pc'[d] # "idle" => <<want'[d].from, want'[d].to>> \in Allowed
      BY <1>0, <3>1, <3>2 DEF InFlight
    <3>5. \A d \in Steppers : pc'[d] \in {"intent", "write", "commit"} => d # c /\ pc'[d] = pc[d] /\ want'[d] = want[d]
      BY <3>1
    <3>6. \A d \in Steppers : pc'[d] \in {"intent", "write", "commit"} <=> lock' = d
      <4>1. lock' = lock /\ lock # c
        BY <1>0, <1>1, <3>3 DEF Read, InFlight
      <4>2. \A d \in Steppers : pc[d] \in {"intent", "write", "commit"} <=> lock = d
        BY <1>0 DEF InFlight
      <4> QED
        BY <3>1, <4>1, <4>2
    <3>7. Open' = Open /\ UNCHANGED <<intents, micro, landed>>
      BY <1>1 DEF Read, Open
    <3> QED
      BY <1>0, <3>4, <3>5, <3>6, <3>7 DEF InFlight
  <2> QED
    BY <2>1, <2>2 DEF JournalInv
<1>2. ASSUME NEW c \in Steppers, Enter(c) PROVE JournalInv'
  <2>1. EntriesOK' /\ OpenDecided' /\ HistoryTellsTruth'
    BY <1>2, ResolvedJournal DEF Enter, Resolvable
  <2>2. \A d \in Steppers : pc[d] \notin {"intent", "write", "commit"}
    BY <1>0, <1>2, NobodyInFlight DEF Enter, Resolvable
  <2>3. InFlight'
    <3>1. \A d \in Steppers : pc'[d] = IF d = c THEN "check" ELSE pc[d]
      BY <1>2 DEF Enter, Goto, TypeOK
    <3> QED
      BY <1>0, <1>2, <2>2, <3>1 DEF Enter, At, Goto, InFlight, Resolvable
  <2> QED
    BY <2>1, <2>3 DEF JournalInv
<1>3. ASSUME NEW c \in Steppers, BlockRestorePoint(c) PROVE JournalInv'
  <2>1. EntriesOK' /\ HistoryTellsTruth'
    BY <1>3 DEF BlockRestorePoint, JournalInv, EntriesOK, HistoryTellsTruth
  <2>2. OpenDecided'
    <3>1. CASE micro.status = want[c].from
      <4>1. micro'.status = "BLOCKED_PREPARE"
        BY <1>3, <3>1 DEF BlockRestorePoint
      <4> QED
        BY <4>1 DEF OpenDecided
    <3>2. CASE micro.status # want[c].from
      BY <1>3, <3>2 DEF BlockRestorePoint, JournalInv, OpenDecided, Open
    <3> QED
      BY <3>1, <3>2
  <2>3. InFlight'
    BY <1>0, <1>3, LeavesInFlight DEF BlockRestorePoint
  <2> QED
    BY <2>1, <2>2, <2>3 DEF JournalInv
<1>4. ASSUME NEW c \in Steppers, Begin(c) PROVE JournalInv'
  <2>1. EntriesOK' /\ OpenDecided' /\ HistoryTellsTruth' /\ Open' = {}
    BY <1>4, ResolvedJournal DEF Begin, AtLock, Resolvable
  <2>2. InFlight'
    <3>1. /\ <<want[c].from, want[c].to>> \in Allowed
          /\ want'[c] = want[c] /\ micro' = micro /\ micro.status = want[c].from
          /\ lock = None /\ lock' = c /\ Goto(c, "intent")
      BY <1>0, <1>4 DEF Begin, At, Goto, InFlight, Resolvable, FirstWrite
    <3> QED
      BY <1>0, <2>1, <3>1, GoesOnInFlight
  <2> QED
    BY <2>1, <2>2 DEF JournalInv
<1>5. ASSUME NEW c \in Steppers, Refused(c) PROVE JournalInv'
  <2>1. EntriesOK' /\ OpenDecided' /\ HistoryTellsTruth'
    BY <1>5, JournalUntouched DEF Refused
  <2>2. InFlight'
    BY <1>0, <1>5, LeavesInFlight DEF Refused
  <2> QED
    BY <2>1, <2>2 DEF JournalInv
<1>6. ASSUME NEW c \in Steppers, WriteIntent(c) PROVE JournalInv'
  <2> DEFINE e == [from |-> want[c].from, to |-> want[c].to, basis |-> micro.stamp, closed |-> {}]
             n == Len(intents) + 1
  <2>1. /\ <<want[c].from, want[c].to>> \in Allowed
        /\ Open = {} /\ micro.status = want[c].from /\ lock = c
    BY <1>0, <1>6 DEF WriteIntent, At, InFlight
  <2>2. e \in Entries
    BY <2>1, AllowedMoves DEF TypeOK, Entries
  <2>3. /\ Len(intents') = n /\ DOMAIN intents' = 1..n
        /\ intents'[n] = e
        /\ \A i \in DOMAIN intents : i \in DOMAIN intents' /\ i # n /\ intents'[i] = intents[i]
        /\ \A i \in DOMAIN intents' : i \in DOMAIN intents \/ i = n
    <3> HIDE DEF e
    <3>1. intents' = Append(intents, e)
      BY <1>6 DEF WriteIntent, e
    <3> QED
      BY <2>2, <3>1, Places, AppendProperties
  <2>4. n \notin landed /\ landed' = landed /\ micro' = micro
    BY <1>6, Places DEF WriteIntent, TypeOK
  <2>5. Open' = {n}
    BY <2>1, <2>3 DEF Open
  <2>6. EntriesOK'
    BY <2>1, <2>3 DEF JournalInv, EntriesOK, Open
  <2>7. HistoryTellsTruth'
    BY <2>3, <2>4 DEF JournalInv, HistoryTellsTruth
  <2>8. OpenDecided'
    BY <2>1, <2>3, <2>4, <2>5 DEF OpenDecided
  <2>9. InFlight'
    <3>1. lock' = c /\ Goto(c, "write") /\ want'[c] = want[c]
      BY <1>6, <2>1 DEF WriteIntent, Goto
    <3> QED
      BY <1>0, <2>1, <2>3, <2>4, <2>5, <3>1, GoesOnInFlight
  <2> QED
    BY <2>6, <2>7, <2>8, <2>9 DEF JournalInv
<1>7. ASSUME NEW c \in Steppers, IntentFails(c) \/ CommitFails(c) \/ Crash(c) PROVE JournalInv'
  <2>1. EntriesOK' /\ OpenDecided' /\ HistoryTellsTruth'
    BY <1>7, JournalUntouched DEF IntentFails, CommitFails, Crash
  <2>2. InFlight'
    <3>1. lock = c /\ Leaves(c)
      BY <1>0, <1>7 DEF IntentFails, CommitFails, Crash, At, InFlight
    <3> QED
      BY <1>0, <3>1, LeavesInFlight DEF Leaves
  <2> QED
    BY <2>1, <2>2 DEF JournalInv
<1>8. ASSUME NEW c \in Steppers, WriteStatus(c) PROVE JournalInv'
  <2> DEFINE n == Len(intents)
  <2>1. /\ <<want[c].from, want[c].to>> \in Allowed /\ lock = c
        /\ n \in Open /\ intents[n].to = want[c].to
    BY <1>0, <1>8 DEF WriteStatus, At, InFlight
  <2>2. Open = {n}
    BY <2>1 DEF JournalInv, EntriesOK, Open
  <2>3. /\ intents' = intents /\ landed' = landed \cup {n} /\ Open' = Open
        /\ micro'.status = intents[n].to
    BY <1>8, <2>1 DEF WriteStatus, Open
  <2>4. EntriesOK'
    BY <2>3 DEF JournalInv, EntriesOK
  <2>5. HistoryTellsTruth'
    <3>1. intents[n].closed = {}
      BY <2>1 DEF Open
    <3> QED
      BY <2>3, <3>1 DEF JournalInv, HistoryTellsTruth
  <2>6. OpenDecided'
    BY <2>2, <2>3 DEF OpenDecided
  <2>7. InFlight'
    <3>1. lock' = c /\ Goto(c, "commit") /\ want'[c] = want[c]
      BY <1>8, <2>1 DEF WriteStatus, Goto
    <3> QED
      BY <1>0, <2>1, <2>2, <2>3, <3>1, GoesOnInFlight
  <2> QED
    BY <2>4, <2>5, <2>6, <2>7 DEF JournalInv
<1>9. ASSUME NEW c \in Steppers, NEW how \in Closures, Leaves(c), lock = c,
             Len(intents) \in Open, UNCHANGED <<micro, landed>>,
             intents' = Closed(Len(intents), how),
             how = "COMMIT" <=> Len(intents) \in landed
      PROVE  JournalInv'
  <2> DEFINE n == Len(intents)
  <2>1. n \in DOMAIN intents /\ intents[n].closed = {}
    BY <1>9 DEF Open
  <2>2. /\ Len(intents') = n /\ DOMAIN intents' = DOMAIN intents
        /\ \A i \in DOMAIN intents : i # n => intents'[i] = intents[i]
        /\ intents'[n] = [intents[n] EXCEPT !.closed = {how}]
    BY <1>9, <2>1, ClosedType
  <2>3. /\ intents'[n].from = intents[n].from /\ intents'[n].to = intents[n].to
        /\ intents'[n].closed = {how}
    BY <2>1, <2>2, Places DEF Entries
  <2>4. EntriesOK'
    BY <2>2, <2>3 DEF JournalInv, EntriesOK
  <2>5. Open' = {}
    BY <2>2, <2>3, <2>4 DEF EntriesOK, JournalInv, Open
  <2>6. HistoryTellsTruth'
    <3>1. \A i \in DOMAIN intents : i # n => intents'[i].closed = intents[i].closed
      BY <2>2
    <3>2. \/ intents'[n].closed = {"COMMIT"} /\ n \in landed
          \/ intents'[n].closed = {"ABANDON"} /\ n \notin landed
      BY <1>9, <2>3 DEF Closures
    <3>3. /\ "COMMIT" \in intents'[n].closed => n \in landed
          /\ "ABANDON" \in intents'[n].closed => n \notin landed
      BY <3>2
    <3> HIDE DEF n
    <3> QED
      BY <1>9, <2>2, <3>1, <3>3 DEF JournalInv, HistoryTellsTruth
  <2>7. InFlight'
    BY <1>0, <1>9, LeavesInFlight DEF Leaves
  <2> QED
    BY <2>4, <2>5, <2>6, <2>7 DEF JournalInv, OpenDecided
<1>10. ASSUME NEW c \in Steppers, WriteFails(c) PROVE JournalInv'
  <2>1. Len(intents) \in Open \ landed /\ lock = c /\ Leaves(c)
    BY <1>0, <1>10 DEF WriteFails, At, InFlight
  <2>2. CASE intents' = Closed(Len(intents), "ABANDON")
    BY <1>9, <1>10, <2>1, <2>2 DEF WriteFails, Closures
  <2>3. CASE intents' = intents
    <3>1. EntriesOK' /\ OpenDecided' /\ HistoryTellsTruth'
      BY <1>10, <2>3, JournalUntouched DEF WriteFails
    <3>2. InFlight'
      BY <1>0, <2>1, LeavesInFlight DEF Leaves
    <3> QED
      BY <3>1, <3>2 DEF JournalInv
  <2> QED
    BY <1>10, <2>2, <2>3 DEF WriteFails
<1>11. ASSUME NEW c \in Steppers, WriteCommit(c) PROVE JournalInv'
  <2>1. Len(intents) \in Open \cap landed /\ lock = c /\ Leaves(c)
    BY <1>0, <1>11 DEF WriteCommit, At, InFlight
  <2> QED
    BY <1>9, <1>11, <2>1 DEF WriteCommit, Closures
<1>12. CASE RecoveryWrite \/ ReconcileHistory \/ Reaffirm
  <2>1. EntriesOK' /\ OpenDecided' /\ HistoryTellsTruth'
    BY <1>12, ResolvedJournal DEF RecoveryWrite, ReconcileHistory, Reaffirm, ClosedFirst, Resolvable
  <2>2. InFlight'
    BY <1>0, <1>12, QuietInFlight DEF RecoveryWrite, ReconcileHistory, Reaffirm, Resolvable
  <2> QED
    BY <2>1, <2>2 DEF JournalInv
<1>13. CASE UNCHANGED <<micro, intents, landed, process>>
  <2>1. EntriesOK' /\ OpenDecided' /\ HistoryTellsTruth'
    BY <1>13, JournalUntouched
  <2>2. InFlight'
    BY <1>0, <1>13 DEF InFlight, Open, process
  <2> QED
    BY <2>1, <2>2 DEF JournalInv
<1>14. ASSUME NEW o \in Ops, OpBegin(o) \/ OpRestore(o) \/ OpTransition(o)
       PROVE  UNCHANGED <<micro, intents, landed, process>>
  BY <1>14 DEF OpBegin, OpRestore, OpTransition
<1>15. UNCHANGED vars => UNCHANGED <<micro, intents, landed, process>>
  BY DEF vars
<1> QED
  BY <1>1, <1>2, <1>3, <1>4, <1>5, <1>6, <1>7, <1>8, <1>10, <1>11, <1>12, <1>13, <1>14, <1>15 DEF Next, Goes

-----------------------------------------------------------------------------
(* The events of an operation.                                             *)

(* A lost intent event is rebuilt once, before anything else. *)
LEMMA RebuiltOnce ==
  ASSUME TypeOK, EventsOK, NEW o \in Ops
  PROVE  /\ Rebuilt(o).intents <= 1 /\ Rebuilt(o).progress = log[o].progress
         /\ Readable(o) => Rebuilt(o).intents = 1
         /\ record[o].status \in {"ABSENT"} => Rebuilt(o) = log[o]
         /\ record[o].status \notin {"ABSENT", "INTENT"} => Rebuilt(o).intents = 1
<1>1. log[o] \in EventLog
  BY RebuiltType
<1>2. CASE Pending(o)
  <2>1. log[o].intents = 0 /\ record[o].status = "INTENT"
    BY <1>2 DEF Pending
  <2>2. Rebuilt(o).intents = 1 /\ Rebuilt(o).progress = log[o].progress
    BY <1>1, <1>2, <2>1 DEF Rebuilt, EventLog
  <2> QED
    BY <2>1, <2>2
<1>3. CASE ~Pending(o)
  BY <1>1, <1>3 DEF Rebuilt, Readable, EventsOK, EventLog
<1> QED
  BY <1>2, <1>3

(* Every action writes at most one intent event, and nothing before it.    *)
THEOREM EventsStep == TypeOK /\ EventsOK /\ [Next]_vars => EventsOK'
<1> SUFFICES ASSUME TypeOK, EventsOK, [Next]_vars PROVE EventsOK'
  OBVIOUS
<1> USE DEF journal, audit
<1>1. CASE UNCHANGED <<record, log>>
  BY <1>1 DEF EventsOK
<1>2. CASE ReconcileHistory
  <2>1. record' = record /\ \A o \in Ops : log'[o] = Rebuilt(o)
    BY <1>2 DEF ReconcileHistory
  <2>2. ASSUME NEW o \in Ops
        PROVE  /\ Rebuilt(o).intents <= 1
               /\ record[o].status = "ABSENT" => Rebuilt(o).intents = 0 /\ ~Rebuilt(o).progress
               /\ record[o].status = "INTENT" => record[o].rev = 1 /\ ~Rebuilt(o).progress
               /\ record[o].status \notin {"ABSENT", "INTENT"} => Rebuilt(o).intents = 1
    BY RebuiltOnce DEF EventsOK
  <2> QED
    BY <2>1, <2>2 DEF EventsOK
<1>3. ASSUME NEW o \in Ops, OpBegin(o) PROVE EventsOK'
  <2>1. /\ \A p \in Ops \ {o} : record'[p] = record[p] /\ log'[p] = log[p]
        /\ record'[o].status = "INTENT" /\ record'[o].rev = 1
    BY <1>3 DEF OpBegin, TypeOK
  <2>2. log[o].intents = 0 /\ ~log[o].progress
    BY <1>3 DEF OpBegin, EventsOK
  <2>3. log'[o].intents <= 1 /\ ~log'[o].progress
    <3>1. log[o] \in EventLog /\ log \in [Ops -> EventLog]
      BY RebuiltType
    <3>2. log'[o] = log[o] \/ log'[o] = [log[o] EXCEPT !.intents = @ + 1]
      BY <1>3, <3>1 DEF OpBegin
    <3> QED
      BY <2>2, <3>1, <3>2 DEF EventLog
  <2> QED
    BY <2>1, <2>3 DEF EventsOK
<1>4. ASSUME NEW o \in Ops, OpRestore(o) PROVE EventsOK'
  <2>1. /\ record' = record /\ \A p \in Ops \ {o} : log'[p] = log[p]
        /\ log'[o] = Rebuilt(o)
    BY <1>4, RebuiltType DEF OpRestore
  <2> QED
    BY <2>1, RebuiltOnce DEF EventsOK
<1>5. ASSUME NEW o \in Ops, OpTransition(o) PROVE EventsOK'
  <2>1. PICK s \in Statuses : /\ <<record[o].status, s>> \in OpMoves
                              /\ record' = [record EXCEPT ![o] = [status |-> s, rev |-> @.rev + 1]]
                              /\ Appended(o, [Rebuilt(o) EXCEPT !.progress = TRUE])
    BY <1>5 DEF OpTransition
  <2>2. s \notin {"ABSENT", "INTENT"} /\ record[o].status # "ABSENT"
    BY <2>1 DEF OpMoves
  <2>3. /\ \A p \in Ops \ {o} : record'[p] = record[p] /\ log'[p] = log[p]
        /\ record'[o].status = s
    BY <2>1 DEF Appended, TypeOK
  <2>4. log'[o].intents = 1
    <3>1. Rebuilt(o) \in EventLog /\ log \in [Ops -> EventLog] /\ Rebuilt(o).intents = 1
      BY <1>5, RebuiltType, RebuiltOnce DEF OpTransition
    <3>2. log'[o] = Rebuilt(o) \/ log'[o] = [Rebuilt(o) EXCEPT !.progress = TRUE]
      BY <2>1, <3>1 DEF Appended
    <3> QED
      BY <3>1, <3>2 DEF EventLog
  <2> QED
    BY <2>2, <2>3, <2>4 DEF EventsOK
<1>6. ASSUME NEW c \in Steppers,
             \/ Read(c) \/ Goes(c) \/ BlockRestorePoint(c)
             \/ IntentFails(c) \/ WriteFails(c) \/ CommitFails(c) \/ Crash(c)
      PROVE  UNCHANGED <<record, log>>
  BY <1>6 DEF Read, Goes, BlockRestorePoint, IntentFails, WriteFails, CommitFails, Crash,
              Enter, Begin, Refused, WriteIntent, WriteStatus, WriteCommit
<1>7. RecoveryWrite \/ Reaffirm \/ UNCHANGED vars => UNCHANGED <<record, log>>
  BY DEF RecoveryWrite, Reaffirm, vars
<1> QED
  BY <1>1, <1>2, <1>3, <1>4, <1>5, <1>6, <1>7 DEF Next

-----------------------------------------------------------------------------
(* The evidence of a verification.                                         *)

(* An entry is neither lost nor changed, but for what closes it. *)
LEMMA EntriesStay ==
  ASSUME TypeOK, JournalInv, [Next]_vars, NEW i \in DOMAIN intents
  PROVE  /\ i \in DOMAIN intents'
         /\ intents'[i].to = intents[i].to
         /\ intents[i].closed \subseteq intents'[i].closed
         /\ i \in landed => i \in landed'
<1> DEFINE Kept == /\ i \in DOMAIN intents'
                   /\ intents'[i].to = intents[i].to
                   /\ intents[i].closed \subseteq intents'[i].closed
<1>1. intents[i] \in Entries
  BY Places
<1>2. intents' = intents => Kept
  OBVIOUS
<1>3. ASSUME intents' = Resolved, Resolvable PROVE Kept
  <2>1. i \in DOMAIN intents' /\ intents'[i].to = intents[i].to
    BY <1>3, ResolvedIsTrue DEF Resolvable
  <2>2. CASE i \in Open
    BY <2>1, <2>2 DEF Open
  <2>3. CASE i \notin Open
    BY <1>3, <2>1, <2>3 DEF Resolved
  <2> QED
    BY <2>1, <2>2, <2>3
<1>4. ASSUME NEW e, intents' = Append(intents, e) PROVE Kept
  BY <1>4, Places
<1>5. ASSUME NEW how \in Closures, intents' = Closed(Len(intents), how), Len(intents) \in DOMAIN intents
      PROVE  Kept
  <2>1. i \in DOMAIN intents' /\ intents'[i] \in {intents[i], [intents[i] EXCEPT !.closed = @ \cup {how}]}
    BY <1>5, ClosedType
  <2> QED
    BY <1>1, <2>1 DEF Entries
<1>6. i \in landed => i \in landed'
  <2>1. \A c \in Steppers : WriteStatus(c) => landed \subseteq landed'
    BY DEF WriteStatus
  <2>2. ASSUME NEW c \in Steppers, \/ Read(c) \/ BlockRestorePoint(c) \/ Enter(c) \/ Begin(c) \/ Refused(c)
                                   \/ WriteIntent(c) \/ WriteCommit(c) \/ IntentFails(c) \/ WriteFails(c)
                                   \/ CommitFails(c) \/ Crash(c)
        PROVE  landed' = landed
    BY <2>2 DEF Read, BlockRestorePoint, Enter, Begin, Refused, WriteIntent, WriteCommit,
                IntentFails, WriteFails, CommitFails, Crash
  <2>3. ASSUME \/ RecoveryWrite \/ ReconcileHistory \/ Reaffirm \/ UNCHANGED vars
               \/ \E o \in Ops : OpBegin(o) \/ OpRestore(o) \/ OpTransition(o)
        PROVE  landed' = landed
    BY <2>3 DEF RecoveryWrite, ReconcileHistory, Reaffirm, OpBegin, OpRestore, OpTransition, vars
  <2> QED
    BY <2>1, <2>2, <2>3 DEF Next, Goes
<1>7. \/ intents' = intents
      \/ intents' = Resolved /\ Resolvable
      \/ \E e : intents' = Append(intents, e)
      \/ \E how \in Closures : intents' = Closed(Len(intents), how) /\ Len(intents) \in DOMAIN intents
  <2> DEFINE Result == \/ intents' = intents
                       \/ intents' = Resolved /\ Resolvable
                       \/ \E e : intents' = Append(intents, e)
                       \/ \E how \in Closures : intents' = Closed(Len(intents), how) /\ Len(intents) \in DOMAIN intents
  <2>1. ASSUME NEW c \in Steppers, \/ Read(c) \/ BlockRestorePoint(c) \/ Refused(c) \/ IntentFails(c)
                                   \/ WriteStatus(c) \/ CommitFails(c) \/ Crash(c)
        PROVE  Result
    BY <2>1 DEF journal, Read, BlockRestorePoint, Refused, IntentFails, WriteStatus, CommitFails, Crash
  <2>2. ASSUME NEW c \in Steppers, Enter(c) \/ Begin(c) \/ RecoveryWrite \/ ReconcileHistory \/ Reaffirm
        PROVE  Result
    BY <2>2 DEF Enter, Begin, AtLock, RecoveryWrite, ClosedFirst, ReconcileHistory, Reaffirm
  <2>3. ASSUME NEW c \in Steppers, WriteIntent(c) PROVE Result
    BY <2>3 DEF WriteIntent
  <2>4. ASSUME NEW c \in Steppers, WriteFails(c) \/ WriteCommit(c) PROVE Result
    <3>1. Len(intents) \in DOMAIN intents
      BY <2>4 DEF WriteFails, WriteCommit, At, JournalInv, InFlight, Open
    <3> QED
      BY <2>4, <3>1 DEF WriteFails, WriteCommit, Closures
  <2>5. RecoveryWrite \/ ReconcileHistory \/ Reaffirm => Result
    BY DEF RecoveryWrite, ClosedFirst, ReconcileHistory, Reaffirm
  <2>6. UNCHANGED vars \/ (\E o \in Ops : OpBegin(o) \/ OpRestore(o) \/ OpTransition(o)) => Result
    BY DEF vars, journal, OpBegin, OpRestore, OpTransition
  <2> HIDE DEF Result
  <2>7. Result
    BY <2>1, <2>2, <2>3, <2>4, <2>5, <2>6 DEF Next, Goes
  <2> QED
    BY <2>7 DEF Result
<1> HIDE DEF Kept
<1>8. Kept
  BY <1>2, <1>3, <1>4, <1>5, <1>7
<1> QED
  BY <1>6, <1>8 DEF Kept

(* Only a journaled step verifies. *)
LEMMA VerifiedByWrite ==
  ASSUME TypeOK, [Next]_vars, micro'.status = "VERIFIED", micro' # micro
  PROVE  \E c \in Steppers : WriteStatus(c) /\ want[c].to = "VERIFIED"
<1>1. ASSUME NEW c \in Steppers, \/ Read(c) \/ Enter(c) \/ Begin(c) \/ Refused(c) \/ WriteIntent(c) \/ WriteCommit(c)
                                 \/ IntentFails(c) \/ WriteFails(c) \/ CommitFails(c) \/ Crash(c)
      PROVE  micro' = micro
  BY <1>1 DEF Read, Enter, Begin, Refused, WriteIntent, WriteCommit, IntentFails, WriteFails, CommitFails, Crash
<1>2. ASSUME NEW c \in Steppers, BlockRestorePoint(c)
      PROVE  FALSE
  BY <1>2 DEF BlockRestorePoint
<1>3. ASSUME RecoveryWrite PROVE FALSE
  BY <1>3 DEF RecoveryWrite, RecoveryTargets
<1>4. ASSUME \/ ReconcileHistory \/ Reaffirm \/ UNCHANGED vars
             \/ \E o \in Ops : OpBegin(o) \/ OpRestore(o) \/ OpTransition(o)
      PROVE  micro' = micro
  BY <1>4 DEF ReconcileHistory, Reaffirm, OpBegin, OpRestore, OpTransition, vars
<1>5. \A c \in Steppers : WriteStatus(c) => want[c].to = "VERIFIED"
  BY DEF WriteStatus
<1> QED
  BY <1>1, <1>2, <1>3, <1>4, <1>5 DEF Next, Goes

THEOREM EvidenceStep == TypeOK /\ JournalInv /\ VerifiedByStep /\ [Next]_vars => VerifiedByStep'
<1> SUFFICES ASSUME TypeOK, JournalInv, VerifiedByStep, [Next]_vars,
                    micro'.status = "VERIFIED", micro'.stamp > 0
             PROVE  \E i \in landed' \cap DOMAIN intents' : intents'[i].to = "VERIFIED"
  BY DEF VerifiedByStep
<1>1. CASE micro' = micro
  <2>1. PICK i \in landed \cap DOMAIN intents : intents[i].to = "VERIFIED"
    BY <1>1 DEF VerifiedByStep
  <2> QED
    BY <2>1, EntriesStay
<1>2. CASE micro' # micro
  <2>1. PICK c \in Steppers : WriteStatus(c) /\ want[c].to = "VERIFIED"
    BY <1>2, VerifiedByWrite
  <2>2. Len(intents) \in DOMAIN intents /\ intents[Len(intents)].to = "VERIFIED"
    BY <2>1 DEF WriteStatus, At, JournalInv, InFlight, Open
  <2>3. intents' = intents /\ Len(intents) \in landed'
    BY <2>1 DEF WriteStatus, journal
  <2> QED
    BY <2>2, <2>3
<1> QED
  BY <1>1, <1>2

-----------------------------------------------------------------------------
(* The theorems.                                                           *)

(* The invariant holds from an empty journal on, for any writers. *)
THEOREM InvariantHolds == Spec => []IInv
<1>1. Init => IInv
  <2> SUFFICES ASSUME Init PROVE IInv
    OBVIOUS
  <2>1. TypeOK
    BY TypeInit
  <2>2. DOMAIN intents = {} /\ Open = {}
    BY DEF Init, Open
  <2>3. JournalInv
    BY <2>2, HistoryAssumption DEF Init, JournalInv, EntriesOK, OpenDecided, InFlight, HistoryTellsTruth
  <2>4. EventsOK
    BY DEF Init, EventsOK
  <2>5. VerifiedByStep
    BY DEF Init, VerifiedByStep
  <2> QED
    BY <2>1, <2>3, <2>4, <2>5 DEF IInv
<1>2. IInv /\ [Next]_vars => IInv'
  BY TypeStep, JournalStep, EventsStep, EvidenceStep DEF IInv
<1> QED
  BY <1>1, <1>2, PTL DEF Spec

(* Every reachable history and record is well typed, for any writers.      *)
THEOREM HistoryTypeCorrect == Spec => []TypeOK
  BY InvariantHolds, PTL DEF IInv

(* The closing event of a step says whether its status write happened,     *)
(* whoever wrote the event and however late                                *)
(* (resolve_microtask_intents_locked).                                     *)
THEOREM HistoryIsTrue == Spec => []HistoryTellsTruth
<1>1. IInv => HistoryTellsTruth
  BY DEF IInv, JournalInv
<1> QED
  BY <1>1, InvariantHolds, PTL

(* A journal no call can resolve is that of a stage that was blocked       *)
(* because its restore point is broken (_journaled_cas_locked).            *)
THEOREM OnlyBlockedNeedsOperator == Spec => []OperatorOnlyIfBlocked
<1>1. IInv => OperatorOnlyIfBlocked
  <2> SUFFICES ASSUME IInv, Contradictory, micro.status # "BLOCKED_PREPARE" PROVE FALSE
    BY DEF OperatorOnlyIfBlocked
  <2> USE DEF IInv, JournalInv
  <2>1. Cardinality(Open) \in {0, 1}
    <3>1. Open = {} \/ Open = {Len(intents)}
      BY DEF EntriesOK, Open
    <3>2. Cardinality({}) = 0
      BY FS_EmptySet
    <3>3. Cardinality({Len(intents)}) = 1
      BY FS_Singleton
    <3> QED
      BY <3>1, <3>2, <3>3, Zenon
  <2>2. \A i \in DOMAIN intents : intents[i].closed # Closures
    BY DEF HistoryTellsTruth, Closures
  <2>3. ASSUME NEW i \in Open PROVE Outcome(i) # "UNKNOWN"
    <3>1. intents[i].from # intents[i].to
      BY AllowedMoves DEF EntriesOK, Open
    <3> QED
      BY <2>3, <3>1 DEF OpenDecided, Outcome
  <2> QED
    BY <2>1, <2>2, <2>3 DEF Contradictory
<1> QED
  BY <1>1, InvariantHolds, PTL

(* A stage verified by a step has that step in its history, landed and     *)
(* never abandoned, for good (transition to VERIFIED with its evidence).   *)
THEOREM EvidenceIsDurable == Spec => []EvidenceDurable
<1>1. IInv => EvidenceDurable
  BY DEF IInv, JournalInv, VerifiedByStep, HistoryTellsTruth, EvidenceDurable
<1> QED
  BY <1>1, InvariantHolds, PTL

(* The OPERATION_INTENT event is written once and comes before everything  *)
(* else recorded of the operation (_validate_history).                     *)
THEOREM IntentIsWrittenOnce == Spec => []IntentEventOnce
<1>1. IInv => IntentEventOnce
  BY DEF IInv, EventsOK, IntentEventOnce
<1> QED
  BY <1>1, InvariantHolds, PTL

(* What has closed a step is never taken back, and no step is ever lost.   *)
ClosuresStay ==
    [][\A i \in DOMAIN intents :
          i \in DOMAIN intents' /\ intents[i].closed \subseteq intents'[i].closed]_vars

(* The journal only grows: no writer, repair or fault removes a step or    *)
(* the event that closed it (append-only EventStore).                      *)
THEOREM JournalOnlyGrows == Spec => ClosuresStay
<1> DEFINE Grows == \A i \in DOMAIN intents :
                       i \in DOMAIN intents' /\ intents[i].closed \subseteq intents'[i].closed
<1>1. IInv /\ [Next]_vars => [Grows]_vars
  BY EntriesStay DEF IInv
<1> QED
  BY <1>1, InvariantHolds, PTL DEF Spec, ClosuresStay
====
