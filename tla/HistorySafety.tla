---- MODULE HistorySafety ----
(***************************************************************************)
(* What the journal must keep true of the records, wherever a writer dies. *)
(***************************************************************************)
EXTENDS EventHistory

(* The history tells what happened: a committed transition is one whose    *)
(* status write landed, an abandoned one is one whose write never did, too *)
(* when a later call rebuilt the closing event from the intent             *)
(* (resolve_microtask_intents_locked, "decided by the authoritative record *)
(* only").                                                                 *)
HistoryTellsTruth ==
    \A i \in DOMAIN intents :
        /\ "COMMIT" \in intents[i].closed => i \in landed
        /\ "ABANDON" \in intents[i].closed => i \notin landed

(* Every death leaves a journal that resolves itself; only a stage whose   *)
(* restore point was found broken may need an operator                     *)
(* (_journaled_cas_locked: "a state microtask_journal resolves from durable*)
(* facts alone").                                                          *)
OperatorOnlyIfBlocked == Contradictory => micro.status = "BLOCKED_PREPARE"

(* No verification without its evidence: a VERIFIED stage has an evidence- *)
(* bearing intent in the history that is committed or will be, unless it   *)
(* was verified before there was a journal.                                *)
EvidenceDurable ==
    micro.status = "VERIFIED" /\ micro.stamp > 0 =>
        \E i \in landed \cap DOMAIN intents : intents[i].to = "VERIFIED" /\ "ABANDON" \notin intents[i].closed

(* An operation stays readable: nothing is recorded of it after its record *)
(* but before its OPERATION_INTENT, and that event is written once         *)
(* (_validate_history, _reconcile_intent_locked).                          *)
IntentEventOnce ==
    \A o \in Ops :
        /\ log[o].intents <= 1
        /\ record[o].status \notin {"ABSENT", "INTENT"} => log[o].intents = 1

(* An interrupted step does not stay open for ever.                        *)
IntentsClose == Open # {} ~> (Open = {} \/ torn \/ Contradictory)
====
