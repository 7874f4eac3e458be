------------------------------- MODULE MCSessions -------------------------------
(* Small instances of Sessions for TLC. *)
EXTENDS Sessions, TLC

CONSTANTS r1, r2, r3

ThreeRequests == {r1, r2, r3}

RequestSymmetry == Permutations(ThreeRequests)
================================================================================
