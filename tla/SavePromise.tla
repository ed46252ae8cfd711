----------------------------- MODULE SavePromise -----------------------------
(***************************************************************************)
(* What POST /internal/final-sync promises its caller, who is about to     *)
(* kill the container: "synced" is answered only when every edit made      *)
(* before the call is in the object store.  Edits of the workspace are     *)
(* numbered; the store only ever gains them.                               *)
(***************************************************************************)
EXTENDS Integers

CONSTANT Callers   \* calls of the endpoint

VARIABLES
    disk,     \* the newest edit made
    store,    \* the newest edit such that it and all before it are stored
    answer,   \* what each call has been told: "none", "waiting", "synced", "not"
    due       \* the newest edit when each call came in

vars == <<disk, store, answer, due>>

Init ==
    /\ disk = 0 /\ store = 0
    /\ answer = [c \in Callers |-> "none"] /\ due = [c \in Callers |-> 0]

Edit == disk' = disk + 1 /\ UNCHANGED <<store, answer, due>>

\* A sync, whole or in part, whoever asked for it.
Upload == store' \in store .. disk /\ UNCHANGED <<disk, answer, due>>

Call(c) ==
    /\ answer[c] = "none"
    /\ answer' = [answer EXCEPT ![c] = "waiting"]
    /\ due' = [due EXCEPT ![c] = disk]
    /\ UNCHANGED <<disk, store>>

AnswerSynced(c) ==
    /\ answer[c] = "waiting" /\ store >= due[c]
    /\ answer' = [answer EXCEPT ![c] = "synced"]
    /\ UNCHANGED <<disk, store, due>>

\* Failed, timed out or no daemon: the caller is told that it cannot be sure.
AnswerNot(c) ==
    /\ answer[c] = "waiting"
    /\ answer' = [answer EXCEPT ![c] = "not"]
    /\ UNCHANGED <<disk, store, due>>

Next ==
    \/ Edit \/ Upload
    \/ \E c \in Callers : Call(c) \/ AnswerSynced(c) \/ AnswerNot(c)

Spec == Init /\ [][Next]_vars

=============================================================================
