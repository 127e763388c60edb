---- MODULE MCMutation ----
(* Instances of MutationSafety for TLC: which operations exist, what they  *)
(* do to which target, and what editors outside may write.                 *)
EXTENDS MutationSafety, TLC

CONSTANTS a, b, k1, k2, t1, t2, w1, w2, none, gone, x, y, z

WorkerSymmetry == Permutations(Workers)

Ab           == (a :> y) @@ (b :> z)

(* Two TASKs that name one target; one deletes what the other writes. *)
SameTargetOf == (a :> t1) @@ (b :> t1)
OneFile      == (t1 :> x)
RivalTaskOf  == (a :> k1) @@ (b :> k2)
WriteDelete  == (a :> "WRITE") @@ (b :> "DELETE")

(* One TASK that rewrites one file and deletes another: both restore point *)
(* entries can be classified for the write, so it can be rolled back.      *)
SameTaskOf   == (a :> k1) @@ (b :> k1)
PairTargetOf == (a :> t1) @@ (b :> t2)
TwoFiles     == (t1 :> x) @@ (t2 :> x)
Undecided    == (a :> 0) @@ (b :> 0)
PairDecided  == (a :> 2) @@ (b :> 0)

(* One operation alone. *)
SoloTaskOf   == (a :> k1)
SoloTargetOf == (a :> t1)
SoloWrite    == (a :> "WRITE")
SoloPayload  == (a :> y)
SoloDecided  == (a :> 2)
====
