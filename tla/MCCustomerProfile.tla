-------------------------- MODULE MCCustomerProfile --------------------------
(* A small instance of CustomerProfile for TLC.                            *)
EXTENDS CustomerProfile, TLC

CONSTANTS u1, u2, p1, p2

\* Updates and uploads only differ by name.
MCSymmetry == Permutations(Updates) \cup Permutations(Pictures)
=============================================================================
