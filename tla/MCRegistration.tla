---------------------------- MODULE MCRegistration ----------------------------
(* Small instances of Registration for TLC. *)
EXTENDS Registration, TLC

\* Keys and octets are interchangeable.
Symmetry == Permutations(Keys) \cup Permutations(Octets)
==============================================================================
