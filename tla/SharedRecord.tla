---------------------------- MODULE SharedRecord ----------------------------
(***************************************************************************)
(* What the handlers of a session promise about its KV record, which they  *)
(* share without a lock or a version: each reads the record, awaits, and   *)
(* writes the whole of it back.  Nobody writes a record it has not found,  *)
(* and one copy is written once.  So a record that was deleted comes back  *)
(* only from a copy taken while it existed.                                *)
(***************************************************************************)
CONSTANTS
    Writers,   \* those who read and write the record
    Statuses   \* what a record says

VARIABLES
    record,    \* a status, "absent" before the first write, "deleted"
    holders    \* the writers that found the record and may still write it

vars == <<record, holders>>

Init == record = "absent" /\ holders = {}

Create ==
    /\ record = "absent"
    /\ record' \in Statuses
    /\ UNCHANGED holders

Find(w) ==
    /\ record \in Statuses
    /\ holders' = holders \cup {w}
    /\ UNCHANGED record

\* The write does not look at what became of the record meanwhile.
WriteBack(w) ==
    /\ w \in holders
    /\ record' \in Statuses
    /\ holders' = holders \ {w}

Remove(w) ==
    /\ w \in holders
    /\ record' = "deleted"
    /\ holders' = holders \ {w}

\* Handlers end without writing: they failed, were cut off, or had nothing to say.
Drop ==
    /\ holders' \subseteq holders
    /\ UNCHANGED record

Next ==
    \/ Create \/ Drop
    \/ \E w \in Writers : Find(w) \/ WriteBack(w) \/ Remove(w)

Spec == Init /\ [][Next]_vars

=============================================================================
