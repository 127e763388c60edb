---- MODULE RestorePromise ----
(***************************************************************************)
(* What a tracked rollback promises to everybody who shares the targets:   *)
(* a session gets all of its targets at once or none; while it has them    *)
(* their bytes only ever change to the restore state, by its own hand or   *)
(* an outsider's; and VERIFIED is said only while it has them all, each at *)
(* the restore state.  How a session is stored, locked, interrupted and    *)
(* resumed is not visible here.                                            *)
(***************************************************************************)
EXTENDS Naturals

CONSTANTS Targets, Sessions, Bytes, None, Goal, Wants

VARIABLES
    content,   \* bytes of each target
    holder,    \* the session that has each target, or None
    outcome,   \* open, owning, verified or ended
    tampered   \* targets whose bytes an outsider put there

vars == <<content, holder, outcome, tampered>>

Has(r) == {t \in Targets : holder[t] = r}

Init ==
    /\ content = Goal
    /\ holder = [t \in Targets |-> None]
    /\ outcome = [r \in Sessions |-> "open"]
    /\ tampered = {}

Take(r) ==
    /\ outcome[r] = "open"
    /\ \A t \in Wants[r] : holder[t] = None
    /\ holder' = [t \in Targets |-> IF t \in Wants[r] THEN r ELSE holder[t]]
    /\ outcome' = [outcome EXCEPT ![r] = "owning"]
    /\ UNCHANGED <<content, tampered>>

Restore(r, t) ==
    /\ outcome[r] = "owning"
    /\ Wants[r] \subseteq Has(r)
    /\ t \in Wants[r]
    /\ content' = [content EXCEPT ![t] = Goal[t]]
    /\ tampered' = tampered \ {t}
    /\ UNCHANGED <<holder, outcome>>

Verified(r) ==
    /\ outcome[r] = "owning"
    /\ Wants[r] \subseteq Has(r)
    /\ \A t \in Wants[r] : content[t] = Goal[t] \/ t \in tampered
    /\ outcome' = [outcome EXCEPT ![r] = "verified"]
    /\ UNCHANGED <<content, holder, tampered>>

(* A session may give up at any time; what it has goes back one by one.    *)
Ended(r) ==
    /\ outcome[r] \in {"open", "owning"}
    /\ outcome' = [outcome EXCEPT ![r] = "ended"]
    /\ UNCHANGED <<content, holder, tampered>>

GiveBack(r, t) ==
    /\ holder[t] = r
    /\ outcome[r] # "open"
    /\ holder' = [holder EXCEPT ![t] = None]
    /\ UNCHANGED <<content, outcome, tampered>>

(* A tracked mutation needs a target that no session has.                  *)
Mutate(t) ==
    /\ holder[t] = None
    /\ \E b \in Bytes : content' = [content EXCEPT ![t] = b]
    /\ tampered' = tampered \ {t}
    /\ UNCHANGED <<holder, outcome>>

Tamper(t) ==
    /\ \E b \in Bytes : content' = [content EXCEPT ![t] = b]
    /\ tampered' = tampered \cup {t}
    /\ UNCHANGED <<holder, outcome>>

Next ==
    \/ \E r \in Sessions : Take(r) \/ Verified(r) \/ Ended(r)
    \/ \E r \in Sessions, t \in Targets : Restore(r, t) \/ GiveBack(r, t)
    \/ \E t \in Targets : Mutate(t) \/ Tamper(t)

Spec == Init /\ [][Next]_vars
====
