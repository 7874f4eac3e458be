-------------------------------- MODULE MCHosts --------------------------------
(* Instances of Hosts for TLC. *)
EXTENDS Hosts, TLC

CONSTANTS r1, r2

TwoRequests == {r1, r2}
RequestSymmetry == Permutations(TwoRequests)

================================================================================
