---- MODULE OfflineTurn ----
(***************************************************************************)
(* One turn of a chat: accepted, attempted once outside the lock, and      *)
(* answered or cancelled.  Its projection is in the run summary, its facts *)
(* in the run's stream, its texts in the chat.  Callers are HTTP requests  *)
(* of any thread or process; each section of the code under the workspace  *)
(* writer lock is a sequence of steps, one per durable write, and a caller *)
(* may die after any of them.                                              *)
(***************************************************************************)
EXTENDS RunStream

CONSTANTS
    Callers,    \* submit and cancel requests in flight
    MaxFaults   \* deaths and lock timeouts

ASSUME TurnAssumption ==
    /\ None \notin Callers
    /\ None \notin Intents
    /\ MaxFaults \in Nat

VARIABLES
    schema,     \* 1: the fixed local reply; 2: the offline adapter
    state,      \* the turn's projection in the run summary
    cancelled,  \* cancel_requested
    user,       \* the user message is in the chat
    assistant,  \* the answer is in the chat
    writer,     \* holder of the workspace writer lock, or None
    pc,         \* where each caller is
    doing,      \* what each caller asked for
    event,      \* the event a caller appends, or the outcome it brings
    attempts,   \* history: executions of the attempt
    faults

projection == <<schema, state, cancelled>>
chat == <<user, assistant>>
vars == <<projection, chat, log, pending, writer, pc, doing, event, attempts, faults>>

Ended == {"SUCCEEDED", "FAILED", "CANCELLED", "UNKNOWN"}
States == {"NONE", "ACCEPTING", "READY", "ATTEMPTING"} \cup Ended

InSession == {"accept", "repair", "decide", "accepted", "append", "appending", "answer", "close"}
Places == InSession \cup {"idle", "queued", "run", "publish"}

TypeOK ==
    /\ StreamTypeOK
    /\ schema \in {1, 2}
    /\ state \in States
    /\ cancelled \in BOOLEAN
    /\ user \in BOOLEAN
    /\ assistant \in BOOLEAN
    /\ writer \in Callers \cup {None}
    /\ pc \in [Callers -> Places]
    /\ doing \in [Callers -> {"submit", "cancel"}]
    /\ event \in [Callers -> Events]
    /\ attempts \in Nat
    /\ faults \in 0..MaxFaults

Init ==
    /\ StreamInit
    /\ schema \in {1, 2}
    /\ state = "NONE"
    /\ cancelled = FALSE
    /\ user = FALSE
    /\ assistant = FALSE
    /\ writer = None
    /\ pc = [c \in Callers |-> "idle"]
    /\ doing = [c \in Callers |-> "submit"]
    /\ event = [c \in Callers |-> "started"]
    /\ attempts = 0
    /\ faults = 0

-----------------------------------------------------------------------------
(* What the stream proves, and what the projection may say beside it.      *)

(* Mutant: the status of the run is stored as the state of the turn.       *)
FateOfRun == [result |-> "COMPLETED", failed |-> "FAILED", uncertain |-> "UNKNOWN"]

Fate == [result |-> "SUCCEEDED", failed |-> "FAILED", uncertain |-> "UNKNOWN"]

Outcome(s) == {e \in DOMAIN Fate : \E i \in DOMAIN s : s[i] = e}

If(e, s) == IF \E i \in DOMAIN s : s[i] = e THEN <<e>> ELSE <<>>

(* _offline_evidence: the stream of a schema 2 turn has this very order.   *)
OfflineEvidence(s) ==
    LET started == \E i \in DOMAIN s : s[i] = "started"
    IN  IF cancelled
        THEN /\ state \in {"CANCELLED", "UNKNOWN"}
             /\ ~(state = "CANCELLED" /\ started)
             /\ s = If("started", s) \o If("cancel", s)
                    \o (IF started THEN If("discarded", s) ELSE <<>>)
        ELSE /\ \A e \in Outcome(s) : started /\ state \in {"ATTEMPTING", Fate[e]}
             /\ \A d, e \in Outcome(s) : d = e
             /\ Outcome(s) = {} => /\ state \in {"ACCEPTING", "READY", "ATTEMPTING"}
                                   /\ started => state = "ATTEMPTING"
             /\ s = If("started", s) \o If("result", s) \o If("failed", s) \o If("uncertain", s)

LocalEvidence(s) ==
    /\ "uncertain" \notin Outcome(s)
    /\ \A i, j \in DOMAIN s : s[i] = s[j] => i = j
    /\ state \in {"ACCEPTING", "READY"} => s = <<>>
    /\ state = "CANCELLED" => If("started", s) = <<>>
    /\ Outcome(s) # {} => If("started", s) # <<>>
    /\ ~({"result", "failed"} \subseteq Outcome(s))
    /\ state = "FAILED" => "failed" \in Outcome(s)
    /\ cancelled => state \in {"CANCELLED", "UNKNOWN"}
    /\ state = "SUCCEEDED" => "result" \in Outcome(s)

(* _view: everything get, submit and cancel verify before they answer;     *)
(* what it refuses is reported as damaged storage.                         *)
Sound ==
    /\ IF schema = 2 THEN OfflineEvidence(log) ELSE LocalEvidence(log)
    /\ state # "ACCEPTING" => user
    /\ schema = 2 /\ state \notin {"ACCEPTING", "SUCCEEDED"} /\ assistant => Outcome(log) = {"result"}
    /\ state = "SUCCEEDED" => assistant /\ ~cancelled

Shown == Readable /\ Sound

-----------------------------------------------------------------------------
Goto(c, place) == pc' = [pc EXCEPT ![c] = place]

Leave(c, place) ==
    /\ Goto(c, place)
    /\ writer' = None

StartAppend(c, e) ==
    /\ event' = [event EXCEPT ![c] = e]
    /\ Goto(c, "append")

(* submit: the first session, until the turn is READY or answered.         *)
Submit(c) ==
    /\ pc[c] = "idle"
    /\ writer = None
    /\ writer' = c
    /\ doing' = [doing EXCEPT ![c] = "submit"]
    /\ Goto(c, "accept")
    /\ UNCHANGED <<projection, chat, log, pending, event, attempts, faults>>

(* Mutant: a repeat of the request does not repair the stream.             *)
AcceptUnrepaired(c) ==
    /\ pc[c] = "accept"
    /\ state' = IF state = "NONE" THEN "ACCEPTING" ELSE state
    /\ Goto(c, "decide")
    /\ UNCHANGED <<schema, cancelled, chat, log, pending, writer, doing, event, attempts, faults>>

(* The reservation, which names the request and has accepted no text yet.  *)
Accept(c) ==
    /\ pc[c] = "accept"
    /\ state' = IF state = "NONE" THEN "ACCEPTING" ELSE state
    /\ Goto(c, "repair")
    /\ UNCHANGED <<schema, cancelled, chat, log, pending, writer, doing, event, attempts, faults>>

(* cancel: an ended turn is only shown, before any repair.                 *)
Cancel(c) ==
    /\ pc[c] = "idle"
    /\ writer = None
    /\ state \notin Ended \cup {"NONE"}
    /\ writer' = c
    /\ doing' = [doing EXCEPT ![c] = "cancel"]
    /\ Goto(c, "repair")
    /\ UNCHANGED <<projection, chat, log, pending, event, attempts, faults>>

Recover(c) ==
    /\ pc[c] = "repair"
    /\ \/ /\ Repair
          /\ UNCHANGED pc
       \/ /\ pending = None
          /\ Goto(c, "decide")
          /\ UNCHANGED <<log, pending>>
    /\ UNCHANGED <<projection, chat, writer, doing, event, attempts, faults>>

(* A durable outcome the projection does not show yet may be published:    *)
(* of a schema 2 turn any, of a schema 1 turn only a result.               *)
Unpublished ==
    /\ state = "ATTEMPTING"
    /\ ~cancelled
    /\ IF schema = 2 THEN Sound /\ Outcome(log) # {} ELSE "result" \in Outcome(log)

Publication == IF "result" \in Outcome(log) THEN "answer" ELSE "close"

DecideSubmit(c) ==
    /\ pc[c] = "decide"
    /\ doing[c] = "submit"
    /\ \/ /\ state = "ACCEPTING"
          /\ schema = 2 => Shown
          /\ user' = TRUE
          /\ Goto(c, "accepted")
          /\ UNCHANGED <<assistant, writer>>
       \/ /\ state = "READY"
          /\ Leave(c, "queued")
          /\ UNCHANGED chat
       \/ /\ Unpublished
          /\ Goto(c, Publication)
          /\ UNCHANGED <<chat, writer>>
       \/ /\ \/ state \in Ended
             \/ state = "ATTEMPTING" /\ ~Unpublished
             \/ state = "ACCEPTING" /\ schema = 2 /\ ~Shown
          /\ Leave(c, "idle")
          /\ UNCHANGED chat
    /\ UNCHANGED <<projection, log, pending, doing, event, attempts, faults>>

Accepted(c) ==
    /\ pc[c] = "accepted"
    /\ state' = "READY"
    /\ Leave(c, "queued")
    /\ UNCHANGED <<schema, cancelled, chat, log, pending, doing, event, attempts, faults>>

(* Mutant: a cancel does not look for an outcome that is already durable.  *)
SettledNever == FALSE

(* A schema 2 turn is settled before a cancel may count.                   *)
SettledFirst == schema = 2 /\ Unpublished

(* An attempt that may have begun ends UNKNOWN, one that has not ends      *)
(* CANCELLED; a turn whose text is not confirmed cannot be cancelled.      *)
DecideCancel(c) ==
    /\ pc[c] = "decide"
    /\ doing[c] = "cancel"
    /\ \/ /\ SettledFirst
          /\ Goto(c, Publication)
          /\ UNCHANGED <<projection, writer, event>>
       \/ /\ state = "ACCEPTING" \/ (schema = 2 /\ ~Shown)
          /\ Leave(c, "idle")
          /\ UNCHANGED <<projection, event>>
       \/ /\ ~SettledFirst
          /\ state \in {"READY", "ATTEMPTING"}
          /\ schema = 2 => Shown
          /\ cancelled' = TRUE
          /\ state' = IF state = "ATTEMPTING" THEN "UNKNOWN" ELSE "CANCELLED"
          /\ StartAppend(c, "cancel")
          /\ UNCHANGED <<schema, writer>>
    /\ UNCHANGED <<chat, log, pending, doing, attempts, faults>>

(* Mutant: the attempt starts on what the first session of submit saw.     *)
StartableAsQueued == Shown

(* _execute reads the turn again under the lock.                           *)
Startable == state = "READY" /\ Shown

Execute(c) ==
    /\ pc[c] = "queued"
    /\ writer = None
    /\ \/ /\ Startable
          /\ state' = "ATTEMPTING"
          /\ writer' = c
          /\ StartAppend(c, "started")
       \/ /\ ~Startable
          /\ Goto(c, "idle")
          /\ UNCHANGED <<state, writer, event>>
    /\ UNCHANGED <<schema, cancelled, chat, log, pending, doing, attempts, faults>>

(* The attempt itself, outside the lock: the fixed reply or a failure, or  *)
(* one of the adapter's classified outcomes.                               *)
Run(c) ==
    /\ pc[c] = "run"
    /\ attempts' = attempts + 1
    /\ \E e \in IF schema = 2 THEN DOMAIN Fate ELSE {"result", "failed"} :
          event' = [event EXCEPT ![c] = e]
    /\ Goto(c, "publish")
    /\ UNCHANGED <<projection, chat, log, pending, writer, doing, faults>>

(* Mutant: only a cancel from before the start withdraws the attempt.      *)
WithdrawnBefore == state = "CANCELLED"

Withdrawn == cancelled

(* The second session of the attempt: a withdrawn attempt leaves a discard *)
(* event (a failed local one leaves nothing), any other its outcome.       *)
Publish(c) ==
    /\ pc[c] = "publish"
    /\ writer = None
    /\ LET local    == schema = 1
           discards == (Withdrawn \/ (local /\ state # "ATTEMPTING")) /\ ~(local /\ event[c] = "failed")
           appends  == ~Withdrawn /\ (state = "ATTEMPTING" \/ (local /\ event[c] = "failed"))
           shown    == local \/ (Shown /\ OfflineEvidence(Append(log, IF discards THEN "discarded" ELSE event[c])))
       IN  \/ /\ shown
              /\ discards \/ appends
              /\ writer' = c
              /\ StartAppend(c, IF discards THEN "discarded" ELSE event[c])
           \/ /\ ~shown \/ ~(discards \/ appends)
              /\ Goto(c, "idle")
              /\ UNCHANGED <<writer, event>>
    /\ UNCHANGED <<projection, chat, log, pending, doing, attempts, faults>>

-----------------------------------------------------------------------------
(* One append; it raises when an earlier one is unresolved.                *)
BeginAppend(c) ==
    /\ pc[c] = "append"
    /\ \/ /\ Plan(event[c])
          /\ Goto(c, "appending")
          /\ UNCHANGED writer
       \/ /\ pending # None
          /\ Leave(c, "idle")
          /\ UNCHANGED <<log, pending>>
    /\ UNCHANGED <<projection, chat, doing, event, attempts, faults>>

WriteAppend(c) ==
    /\ pc[c] = "appending"
    /\ Write
    /\ UNCHANGED <<projection, chat, writer, pc, doing, event, attempts, faults>>

(* Where the caller goes on: out of the lock to the attempt, to the answer *)
(* and the projection, or back to its client.                              *)
EndAppend(c) ==
    /\ pc[c] = "appending"
    /\ Acknowledge
    /\ \/ /\ event[c] = "started"
          /\ Leave(c, "run")
       \/ /\ event[c] \in DOMAIN Fate
          /\ schema = 2 => Unpublished
          /\ Goto(c, Publication)
          /\ UNCHANGED writer
       \/ /\ \/ event[c] \in {"cancel", "discarded"}
             \/ event[c] \in DOMAIN Fate /\ schema = 2 /\ ~Unpublished
          /\ Leave(c, "idle")
    /\ UNCHANGED <<projection, chat, doing, event, attempts, faults>>

(* commit_raw_message: published once under the turn's own message name.   *)
Answer(c) ==
    /\ pc[c] = "answer"
    /\ assistant' = TRUE
    /\ Goto(c, "close")
    /\ UNCHANGED <<projection, user, log, pending, writer, doing, event, attempts, faults>>

Close(c) ==
    /\ pc[c] = "close"
    /\ \E e \in Outcome(log) : state' = Fate[e]
    /\ Leave(c, "idle")
    /\ UNCHANGED <<schema, cancelled, chat, log, pending, doing, event, attempts, faults>>

-----------------------------------------------------------------------------
(* A caller ends: its process dies or a write raises.  The lock is freed.  *)
Dies(c) ==
    /\ pc[c] # "idle"
    /\ faults < MaxFaults
    /\ faults' = faults + 1
    /\ Goto(c, "idle")
    /\ writer' = IF writer = c THEN None ELSE writer
    /\ UNCHANGED <<projection, chat, log, pending, doing, event, attempts>>

(* WorkspaceBusyError: a caller between two sessions waited too long.      *)
GivesUp(c) ==
    /\ pc[c] \in {"queued", "publish"}
    /\ writer # None
    /\ faults < MaxFaults
    /\ faults' = faults + 1
    /\ Goto(c, "idle")
    /\ UNCHANGED <<projection, chat, log, pending, writer, doing, event, attempts>>

(* What a caller does once it has the lock, and the attempt itself.        *)
Proceeds(c) ==
    \/ Accept(c) \/ Recover(c) \/ DecideSubmit(c) \/ Accepted(c) \/ DecideCancel(c) \/ Run(c)
    \/ BeginAppend(c) \/ WriteAppend(c) \/ EndAppend(c) \/ Answer(c) \/ Close(c)

Next ==
    \E c \in Callers :
        \/ Submit(c) \/ Cancel(c) \/ Proceeds(c) \/ Execute(c) \/ Publish(c)
        \/ Dies(c) \/ GivesUp(c)

Spec == Init /\ [][Next]_vars

(* A caller that holds the lock goes on; one that polls for it gets it at  *)
(* last; the client repeats its request.  Nobody has to cancel.            *)
FairSpec ==
    /\ Spec
    /\ \A c \in Callers :
          /\ WF_vars(Proceeds(c))
          /\ SF_vars(Submit(c))
          /\ SF_vars(Execute(c))
          /\ SF_vars(Publish(c))
====
