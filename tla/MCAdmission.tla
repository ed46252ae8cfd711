------------------------------ MODULE MCAdmission ----------------------------
EXTENDS Admission, TLC

\* Sessions and requests have no order and no identity in the model, and the run
\* checks no liveness.
Symmetry == Permutations(Sessions) \cup Permutations(Requests)

=============================================================================
