------------------------ MODULE MCSessionLifecycle ------------------------
(* Symmetry for the safety runs of SessionLifecycle: requests differ only in *)
(* the order in which they are used.                                         *)
EXTENDS SessionLifecycle, TLC

RequestSymmetry == Permutations(Requests)

=============================================================================
