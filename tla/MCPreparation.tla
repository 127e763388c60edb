---- MODULE MCPreparation ----
(* Instance of Preparation for TLC: an existing and a missing file, one     *)
(* payload, one editor.                                                    *)
EXTENDS Preparation, TLC

CONSTANTS p, q, r, x, y, z, gone

CallerSymmetry == Permutations(Callers \ Cli)

Files == <<x, gone>>
====
