------------------------------- MODULE MCSolver -------------------------------
(***************************************************************************)
(* Every way three sources can hold two hashes, at sizes that are equal,   *)
(* all different, or zero; and the triangle, whose relaxed optimum takes   *)
(* half of each source.                                                    *)
(***************************************************************************)
EXTENDS Solver, TLC

CONSTANTS s1, s2, s3, f1, f2, f3
MCSources == {s1, s2, s3}
MCHashes == {f1, f2, f3}

Sizes(a, b, c) == s1 :> a @@ s2 :> b @@ s3 :> c

Triangle == s1 :> {f1, f2} @@ s2 :> {f2, f3} @@ s3 :> {f1, f3}

MCInputs ==
    {Sizes(1, 1, 1), Sizes(2, 3, 4), Sizes(0, 1, 1)} \X
    ([MCSources -> SUBSET {f1, f2}] \union {Triangle})
=============================================================================
