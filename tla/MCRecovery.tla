---- MODULE MCRecovery ----
(* Instances of RecoverySafety for TLC. *)
EXTENDS RecoverySafety

CONSTANTS a, b, p, q, gone, x, y, z

(* Operation a rewrote one file, the other entry is to be deleted by b.    *)
PairTargetOf == [o \in {a, b} |-> IF o = a THEN 1 ELSE 2]
PairPayload  == [o \in {a, b} |-> IF o = a THEN y ELSE gone]
PairFiles    == <<x, x>>
PairEdits    == {<<1, y>>}
PairDriven   == {<<a, "STARTED">>}

(* One operation, one file.                                                *)
LoneTargetOf == [o \in {a} |-> 1]
LonePayload  == [o \in {a} |-> y]
LoneFiles    == <<x>>
LoneEdits    == {}
LoneDriven   == {<<a, "DONE">>}
====
