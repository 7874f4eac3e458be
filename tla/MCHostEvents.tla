------------------------------ MODULE MCHostEvents ------------------------------
(* Small instances of HostEvents for TLC. *)
EXTENDS HostEvents, TLC

CONSTANTS h1, h2

TwoHosts == {h1, h2}
OneHost == {h1}

HostSymmetry == Permutations(TwoHosts)
================================================================================
