---- MODULE TurnSafety ----
(***************************************************************************)
(* What a turn promises its client across deaths, repeats and cancels.     *)
(***************************************************************************)
EXTENDS OfflineTurn

(* The attempt is executed once at most, however often the request is      *)
(* repeated and whoever dies in between: "never execute a started attempt  *)
(* again" (TurnService.submit, _execute).                                  *)
RunsOnce == attempts <= 1

(* A cancel that was recorded is the last word: no outcome is recorded, no *)
(* answer published and no state written after it, also when the attempt   *)
(* was running outside the lock (_execute, _execute_offline, submit).      *)
CancelIsFinal ==
    [][cancelled =>
          /\ state' = state
          /\ cancelled'
          /\ assistant' = assistant
          /\ Outcome(log') = Outcome(log)]_vars

(* The program never takes its own work for damage: after any death, at    *)
(* any write, whatever can be read passes the checks of _view, which would *)
(* otherwise refuse the turn for ever (503, turn_storage_unavailable).     *)
NoFalseDamage == state # "NONE" /\ Readable => Sound

(* A record the index has confirmed is never cut off again, also by the    *)
(* repair of its own unacknowledged append ("a complete record before a    *)
(* lost reply remains committed", recover_run_records).                    *)
ConfirmedStays == [][Len(log) <= Len(log') /\ log = SubSeq(log', 1, Len(log))]_vars

(* While the client repeats its request, an interrupted acceptance is      *)
(* completed and an interrupted append is resolved (submit).               *)
InterruptedIsRepaired ==
    (state \in {"ACCEPTING", "READY"} \/ pending # None)
        ~> (state \notin {"ACCEPTING", "READY"} /\ pending = None)
====
