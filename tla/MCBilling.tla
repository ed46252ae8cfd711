------------------------------ MODULE MCBilling -----------------------------
EXTENDS Billing, TLC

\* One handler is like another, and the run checks no liveness.
Symmetry == Permutations(Handlers)

=============================================================================
