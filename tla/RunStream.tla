---- MODULE RunStream ----
(***************************************************************************)
(* The server stream of one run in the run store: an append is an intent,  *)
(* the record, its index line and the removal of the intent.  Whatever is  *)
(* interrupted is repaired from the intent, by explicit request only.      *)
(* The writer lock of the workspace serialises all of it.                  *)
(***************************************************************************)
EXTENDS Naturals, Sequences

CONSTANT None

Events == {"started", "result", "failed", "uncertain", "cancel", "discarded"}

VARIABLES
    log,        \* the records the index confirms
    pending     \* the append intent and how far its append came, or None

(* "intent": only the intent is durable; "tail": bytes of the record are   *)
(* in the stream; "index": part of the index line is written as well;      *)
(* "done": the index line is complete, so the record is in log.            *)
Stages == {"intent", "tail", "index", "done"}

Intents == [event : Events, stage : Stages]

StreamTypeOK ==
    /\ log \in Seq(Events)
    /\ pending \in Intents \cup {None}

StreamInit ==
    /\ log = <<>>
    /\ pending = None

(* A reader refuses bytes the index does not confirm and a partial index   *)
(* line; an intent alone does not stop it.                                 *)
Readable == pending # None => pending.stage \in {"intent", "done"}

Recorded(e) == \E i \in DOMAIN log : log[i] = e

(* append_run_record: refused while an earlier append is unresolved.       *)
Plan(e) ==
    /\ pending = None
    /\ pending' = [event |-> e, stage |-> "intent"]
    /\ UNCHANGED log

(* The record, then its index line; the last byte of the line confirms it. *)
Write ==
    /\ pending # None
    /\ \/ /\ pending.stage = "intent"
          /\ pending' = [pending EXCEPT !.stage = "tail"]
          /\ UNCHANGED log
       \/ /\ pending.stage = "tail"
          /\ pending' = [pending EXCEPT !.stage = "index"]
          /\ UNCHANGED log
       \/ /\ pending.stage = "index"
          /\ pending' = [pending EXCEPT !.stage = "done"]
          /\ log' = Append(log, pending.event)

Acknowledge ==
    /\ pending # None
    /\ pending.stage = "done"
    /\ pending' = None
    /\ UNCHANGED log

(* Mutant: an append whose intent is still there is undone in any case.    *)
RepairUndoes ==
    /\ pending # None
    /\ \/ /\ pending.stage \in {"index", "tail", "done"}
          /\ pending' = [pending EXCEPT !.stage = "intent"]
          /\ log' = IF pending.stage = "done" THEN SubSeq(log, 1, Len(log) - 1) ELSE log
       \/ /\ pending.stage = "intent"
          /\ pending' = None
          /\ UNCHANGED log

(* recover_run_records: a confirmed record stays and loses its intent; an  *)
(* unconfirmed one is cut off, index line first, and then loses it.        *)
Repair ==
    /\ pending # None
    /\ \/ /\ pending.stage = "index"
          /\ pending' = [pending EXCEPT !.stage = "tail"]
       \/ /\ pending.stage = "tail"
          /\ pending' = [pending EXCEPT !.stage = "intent"]
       \/ /\ pending.stage \in {"intent", "done"}
          /\ pending' = None
    /\ UNCHANGED log
====
