---- MODULE MCRollback ----
(* Instances of RollbackSafety for TLC. *)
EXTENDS RollbackSafety, TLC

CONSTANTS a, b, k1, k2, r1, r2, gone, x, y, z

(* One TASK whose operation rewrote a file, created another beside the     *)
(* manifest's untouched entry.                                             *)
SoloManifest == (k1 :> {1, 2, 3})
SoloSource   == (r1 :> a)
SoloTaskOf   == (a :> k1) @@ (b :> k1)
SoloTargetOf == (a :> 1) @@ (b :> 2)
SoloPayload  == (a :> y) @@ (b :> gone)
SoloFiles    == <<x, x, x>>

(* Two TASKs over the same two targets, and sessions of both.              *)
RivalManifest == (k1 :> {1, 2}) @@ (k2 :> {1, 2})
RivalSource   == (r1 :> a) @@ (r2 :> b)
RivalTaskOf   == (a :> k1) @@ (b :> k2)
RivalTargetOf == (a :> 1) @@ (b :> 2)
RivalPayload  == (a :> gone) @@ (b :> gone)
RivalFiles    == <<x, x>>

(* One TASK, a created file that must go and one entry left as it was.     *)
CreateManifest == (k1 :> {1, 2})
CreateTaskOf   == (a :> k1)
CreateTargetOf == (a :> 1)
CreatePayload  == (a :> y)
CreateFiles    == <<gone, x>>
====
