----------------------------- MODULE UsageLedger -----------------------------
(***************************************************************************)
(* What the Timekeeper promises about a user's usage: nothing charged is   *)
(* ever taken back, one ping charges at most the clamp, and only a fault    *)
(* (a reset or a failed KV call) may charge again what was charged before.  *)
(***************************************************************************)
EXTENDS Integers

CONSTANTS MaxDelta,   \* the clamp on what one ping charges
          MaxFaults   \* bound: how many faults happen

VARIABLES charged,    \* all that is charged, in the KV record or still pending
          faults      \* faults left

Init == charged = 0 /\ faults = MaxFaults

Charge ==
    /\ charged' \in charged .. charged + MaxDelta
    /\ UNCHANGED faults

Fault ==
    /\ faults > 0 /\ faults' = faults - 1
    /\ charged' \in charged .. 2 * charged

Next == Charge \/ Fault

Spec == Init /\ [][Next]_<<charged, faults>>

=============================================================================
